-------------------------- MODULE DocumentsProofs --------------------------
(***************************************************************************)
(* Theorems about the document layer, for every set of documents, requests *)
(* and jobs: type correctness, that a revision names one content, that no  *)
(* acknowledged change is lost, that every 409 is justified, and that the  *)
(* layer implements AtomicDocuments.                                       *)
(***************************************************************************)
EXTENDS Documents, TLAPS

(* A revision written by a request is carried together with that request's *)
(* change; before the first such revision there is no change at all.       *)
Headed(x) ==
  IF x.rev = Nil \/ x.rev.token = Nil THEN x.edits = {} ELSE x.rev.token \in x.edits

Acknowledged(x) == \A q \in x.edits : pc[q] = "ok"

Sound(x, d) == Headed(x) /\ Acknowledged(x) /\ (d \notin Legacy => x.rev # Nil)

(* The copy of r against the document it was read from.                    *)
Agrees(r) ==
  LET now == docs[doc[r]] IN
  now # Nil =>
    /\ now.rev = copy[r].rev /\ copy[r].rev # Nil => now.edits = copy[r].edits
    /\ now.edits \subseteq copy[r].edits => now.rev = copy[r].rev

IInv ==
  /\ TypeOK
  /\ \A d \in Docs : docs[d] # Nil => Sound(docs[d], d)
  /\ \A r \in Requests : pc[r] = "read" => Sound(copy[r], doc[r]) /\ Agrees(r)

-----------------------------------------------------------------------------
LEMMA InitIInv == Init => IInv
<1> SUFFICES ASSUME Init PROVE IInv
  OBVIOUS
<1> USE LegacyAssumption, NilAssumption
<1>1. \A d \in Docs : Stored(d) \in Document
  BY DEF Stored, Document, Revision
<1>2. TypeOK
  BY <1>1 DEF Init, TypeOK
<1>3. \A d \in Docs : docs[d] # Nil => Sound(docs[d], d)
  BY <1>1 DEF Init, Stored, Sound, Headed, Acknowledged, Revision
<1> QED
  BY <1>2, <1>3 DEF Init, IInv

(* What one step of a request does to the documents and to the copies.     *)
LEMMA TypeStep == TypeOK /\ [Next]_vars => TypeOK'
<1> SUFFICES ASSUME TypeOK, [Next]_vars PROVE TypeOK'
  OBVIOUS
<1> USE LegacyAssumption, NilAssumption DEF TypeOK, reqVars, jobVars
<1>1. ASSUME NEW r \in Requests, Reject(r) \/ Conflict(r) PROVE TypeOK'
  BY <1>1 DEF Reject, Conflict, Answer
<1>2. ASSUME NEW r \in Requests, Replace(r) PROVE TypeOK'
  <2> DEFINE x == [rev |-> NextRev(copy[r].rev, r), edits |-> copy[r].edits \cup {r}, marks |-> copy[r].marks]
  <2>1. x \in Document
    BY <1>2 DEF Replace, NextRev, Document, Revision
  <2>2. docs' = [docs EXCEPT ![doc[r]] = x] /\ doc[r] \in Docs
    BY <1>2 DEF Replace
  <2>3. docs' \in [Docs -> Document \cup {Nil}]
    <3> HIDE DEF x
    <3> QED BY <2>1, <2>2
  <2>4. pc' = [pc EXCEPT ![r] = "ok"] /\ UNCHANGED <<doc, copy, job, seen>>
    BY <1>2 DEF Replace, Answer
  <2> QED
    BY <2>3, <2>4
<1>3. ASSUME NEW r \in Requests, NEW d \in Docs, Read(r, d) PROVE TypeOK'
  BY <1>3 DEF Read, Answer
<1>4. ASSUME NEW r \in Requests, NEW d \in Docs, NotFound(r, d) \/ Duplicate(r, d)
      PROVE TypeOK'
  BY <1>4 DEF NotFound, Duplicate, Answer
<1>5. ASSUME NEW r \in Requests, NEW d \in Docs, Insert(r, d) PROVE TypeOK'
  <2> DEFINE x == [rev |-> NextRev(Nil, r), edits |-> {r}, marks |-> {}]
  <2>1. x \in Document
    BY DEF NextRev, Document, Revision
  <2>2. docs' = [docs EXCEPT ![d] = x]
    BY <1>5 DEF Insert
  <2>3. docs' \in [Docs -> Document \cup {Nil}]
    <3> HIDE DEF x
    <3> QED BY <2>1, <2>2
  <2>4. pc[r] = "idle" /\ pc' = [pc EXCEPT ![r] = "ok"] /\ UNCHANGED <<doc, copy, job, seen>>
    BY <1>5 DEF Insert, Answer
  <2> QED
    BY <2>3, <2>4
<1>6. ASSUME NEW r \in Requests, NEW d \in Docs, Delete(r, d) PROVE TypeOK'
  BY <1>6 DEF Delete, Answer
<1>7. ASSUME NEW j \in Jobs, JobEndScan(j) PROVE TypeOK'
  BY <1>7 DEF JobEndScan
<1>8. ASSUME NEW j \in Jobs, NEW d \in Docs, JobScan(j, d) PROVE TypeOK'
  BY <1>8 DEF JobScan
<1>9. ASSUME NEW j \in Jobs, NEW d \in Docs, JobWrite(j, d) PROVE TypeOK'
  <2>1. docs[d] # Nil => [docs[d] EXCEPT !.marks = @ \cup {j}] \in Document
    BY DEF Document
  <2>2. docs' \in [Docs -> Document \cup {Nil}]
    BY <1>9, <2>1 DEF JobWrite
  <2> QED
    BY <1>9, <2>2 DEF JobWrite
<1>10. CASE UNCHANGED vars
  BY <1>10 DEF vars
<1> QED
  BY <1>1, <1>2, <1>3, <1>4, <1>5, <1>6, <1>7, <1>8, <1>9, <1>10 DEF Next

(* The three collections, requests and jobs always have their type.        *)
THEOREM TypeCorrect == Spec => []TypeOK
<1>1. Init => TypeOK
  BY InitIInv DEF IInv
<1> QED
  BY <1>1, TypeStep, PTL DEF Spec
(* A request that stores a document x under a revision of its own, together*)
(* with its change, keeps the invariant: no copy held elsewhere has its    *)
(* change yet, so no copy can have its revision.                           *)
LEMMA StoreStep ==
  ASSUME IInv, TypeOK',
         NEW r \in Requests, NEW d \in Docs, NEW x \in Document,
         pc[r] # "ok", pc' = [pc EXCEPT ![r] = "ok"],
         docs' = [docs EXCEPT ![d] = x], UNCHANGED <<doc, copy>>,
         x.rev # Nil, x.rev.token = r, r \in x.edits,
         \A q \in x.edits : q = r \/ pc[q] = "ok"
  PROVE  IInv'
<1> USE NilAssumption
<1>1. docs'[d] = x /\ \A e \in Docs \ {d} : docs'[e] = docs[e]
  BY DEF IInv, TypeOK
<1>2. pc'[r] = "ok" /\ \A q \in Requests \ {r} : pc'[q] = pc[q]
  BY DEF IInv, TypeOK
<1>3. Sound(x, d)'
  BY <1>2 DEF Sound, Headed, Acknowledged, Document
<1>4. \A e \in Docs : docs'[e] # Nil => Sound(docs[e], e)'
  <2> SUFFICES ASSUME NEW e \in Docs, docs'[e] # Nil, e # d PROVE Sound(docs[e], e)'
    BY <1>1, <1>3
  <2>1. docs[e] \in Document /\ docs'[e] = docs[e] /\ Sound(docs[e], e)
    BY <1>1 DEF IInv, TypeOK
  <2> QED
    BY <2>1, <1>2 DEF Sound, Headed, Acknowledged, Document
<1>5. ASSUME NEW q \in Requests, pc'[q] = "read"
      PROVE Sound(copy[q], doc[q])' /\ Agrees(q)'
  <2>1. /\ pc[q] = "read" /\ doc[q] \in Docs /\ copy[q] \in Document
        /\ Sound(copy[q], doc[q]) /\ Agrees(q)
    BY <1>2, <1>5 DEF IInv, TypeOK
  <2>2. Sound(copy[q], doc[q])'
    BY <2>1, <1>2 DEF Sound, Headed, Acknowledged, Document
  <2>3. r \notin copy[q].edits
    BY <2>1 DEF Sound, Acknowledged
  <2>4. ASSUME copy[q].rev # Nil PROVE x.rev # copy[q].rev
    BY <2>1, <2>3, <2>4 DEF Sound, Headed
  <2>5. CASE doc[q] = d
    <3>1. docs'[doc'[q]] = x /\ copy'[q] = copy[q]
      BY <2>5, <1>1
    <3> QED
      BY <2>2, <2>3, <2>4, <3>1 DEF Agrees
  <2>6. CASE doc[q] # d
    <3>1. docs'[doc'[q]] = docs[doc[q]] /\ copy'[q] = copy[q]
      BY <2>1, <2>6, <1>1
    <3> QED
      BY <2>1, <2>2, <3>1 DEF Agrees
  <2> QED
    BY <2>5, <2>6
<1> QED
  BY <1>4, <1>5 DEF IInv

(* Every step of a request or of a job keeps the invariant.                *)
LEMMA IInvStep == IInv /\ [Next]_vars => IInv'
<1> SUFFICES ASSUME IInv, [Next]_vars PROVE IInv'
  OBVIOUS
<1> USE LegacyAssumption, NilAssumption
<1>t. TypeOK /\ TypeOK'
  BY TypeStep DEF IInv
<1>1. ASSUME NEW r \in Requests, Reject(r) \/ Conflict(r) PROVE IInv'
  BY <1>1, <1>t
  DEF IInv, Reject, Conflict, Answer, TypeOK, Sound, Headed, Acknowledged, Agrees, Document
<1>2. ASSUME NEW r \in Requests, Replace(r) PROVE IInv'
  <2> DEFINE x == [rev |-> NextRev(copy[r].rev, r), edits |-> copy[r].edits \cup {r}, marks |-> copy[r].marks]
  <2>1. /\ pc[r] = "read" /\ doc[r] \in Docs /\ copy[r] \in Document
        /\ docs' = [docs EXCEPT ![doc[r]] = x] /\ pc' = [pc EXCEPT ![r] = "ok"]
        /\ UNCHANGED <<doc, copy>>
    BY <1>2, <1>t DEF Replace, Answer, TypeOK
  <2>2. x \in Document /\ x.rev # Nil /\ x.rev.token = r /\ x.edits = copy[r].edits \cup {r}
    BY <2>1 DEF NextRev, Document, Revision
  <2>3. \A q \in copy[r].edits : pc[q] = "ok"
    BY <2>1 DEF IInv, Sound, Acknowledged
  <2> HIDE DEF x
  <2> QED
    BY <1>t, <2>1, <2>2, <2>3, StoreStep
<1>3. ASSUME NEW r \in Requests, NEW d \in Docs, Insert(r, d) PROVE IInv'
  <2> DEFINE x == [rev |-> NextRev(Nil, r), edits |-> {r}, marks |-> {}]
  <2>1. /\ pc[r] = "idle" /\ docs' = [docs EXCEPT ![d] = x] /\ pc' = [pc EXCEPT ![r] = "ok"]
        /\ UNCHANGED <<doc, copy>>
    BY <1>3 DEF Insert, Answer
  <2>2. x \in Document /\ x.rev # Nil /\ x.rev.token = r /\ x.edits = {r}
    BY DEF NextRev, Document, Revision
  <2> HIDE DEF x
  <2> QED
    BY <1>t, <2>1, <2>2, StoreStep
<1>4. ASSUME NEW r \in Requests, NEW d \in Docs, NotFound(r, d) \/ Duplicate(r, d)
      PROVE IInv'
  BY <1>4, <1>t
  DEF IInv, NotFound, Duplicate, Answer, TypeOK, Sound, Headed, Acknowledged, Agrees, Document
<1>5. ASSUME NEW r \in Requests, NEW d \in Docs, Read(r, d) PROVE IInv'
  <2>1. /\ pc[r] = "idle" /\ docs[d] # Nil /\ docs[d] \in Document
        /\ docs' = docs /\ pc'[r] = "read" /\ doc'[r] = d /\ copy'[r] = docs[d]
    BY <1>5, <1>t DEF Read, Answer, TypeOK
  <2>2. \A q \in Requests \ {r} : pc'[q] = pc[q] /\ doc'[q] = doc[q] /\ copy'[q] = copy[q]
    BY <1>5, <1>t DEF Read, Answer, TypeOK
  <2>3. \A q \in Requests : pc[q] = "ok" => pc'[q] = "ok"
    BY <2>1, <2>2
  <2>4. \A e \in Docs : docs'[e] # Nil => Sound(docs[e], e)'
    BY <2>1, <2>3, <1>t DEF IInv, TypeOK, Sound, Headed, Acknowledged, Document
  <2>5. Sound(copy[r], doc[r])' /\ Agrees(r)'
    BY <2>1, <2>4 DEF Sound, Headed, Acknowledged, Agrees
  <2>6. ASSUME NEW q \in Requests \ {r}, pc'[q] = "read"
        PROVE Sound(copy[q], doc[q])' /\ Agrees(q)'
    <3>1. /\ pc[q] = "read" /\ copy[q] \in Document /\ Sound(copy[q], doc[q]) /\ Agrees(q)
          /\ doc'[q] = doc[q] /\ copy'[q] = copy[q]
      BY <2>2, <2>6, <1>t DEF IInv, TypeOK
    <3> QED
      BY <3>1, <2>1, <2>3 DEF Sound, Headed, Acknowledged, Agrees, Document
  <2> QED
    BY <1>t, <2>4, <2>5, <2>6 DEF IInv
<1>6. ASSUME NEW r \in Requests, NEW d \in Docs, Delete(r, d) PROVE IInv'
  <2>1. /\ pc[r] = "idle" /\ docs'[d] = Nil /\ \A e \in Docs \ {d} : docs'[e] = docs[e]
        /\ UNCHANGED <<doc, copy>>
    BY <1>6, <1>t DEF Delete, Answer, TypeOK
  <2>2. pc'[r] = "ok" /\ \A q \in Requests \ {r} : pc'[q] = pc[q]
    BY <1>6, <1>t DEF Delete, Answer, TypeOK
  <2>3. \A e \in Docs : docs'[e] # Nil => Sound(docs[e], e)'
    BY <2>1, <2>2, <1>t DEF IInv, TypeOK, Sound, Headed, Acknowledged, Document
  <2>4. ASSUME NEW q \in Requests, pc'[q] = "read"
        PROVE Sound(copy[q], doc[q])' /\ Agrees(q)'
    <3>1. /\ pc[q] = "read" /\ doc[q] \in Docs /\ copy[q] \in Document
          /\ Sound(copy[q], doc[q]) /\ Agrees(q)
      BY <2>2, <2>4, <1>t DEF IInv, TypeOK
    <3>2. Sound(copy[q], doc[q])'
      BY <3>1, <2>1, <2>2 DEF Sound, Headed, Acknowledged, Document
    <3>3. docs'[doc[q]] = Nil \/ docs'[doc[q]] = docs[doc[q]]
      BY <3>1, <2>1
    <3> QED
      BY <3>1, <3>2, <3>3, <2>1 DEF Agrees
  <2> QED
    BY <1>t, <2>3, <2>4 DEF IInv
<1>7. ASSUME NEW j \in Jobs, NEW d \in Docs, JobScan(j, d) \/ JobWrite(j, d) PROVE IInv'
  <2>1. UNCHANGED <<pc, doc, copy>>
    BY <1>7 DEF JobScan, JobWrite, reqVars
  <2>2. \A e \in Docs : /\ docs'[e] = Nil <=> docs[e] = Nil
                        /\ docs[e] # Nil => docs'[e].rev = docs[e].rev /\ docs'[e].edits = docs[e].edits
    <3>1. CASE docs' = docs
      BY <3>1
    <3>2. CASE JobWrite(j, d) /\ docs[d] # Nil
      <4>1. docs[d] \in Document /\ docs'[d] = [docs[d] EXCEPT !.marks = @ \cup {j}]
        BY <3>2, <1>t DEF JobWrite, TypeOK
      <4>2. docs'[d] \in Document
        BY <4>1 DEF Document
      <4>3. \A e \in Docs \ {d} : docs'[e] = docs[e]
        BY <3>2, <1>t DEF JobWrite, TypeOK
      <4> QED
        BY <4>1, <4>2, <4>3 DEF Document
    <3> QED
      BY <1>7, <3>1, <3>2 DEF JobScan, JobWrite
  <2>3. \A e \in Docs : docs'[e] # Nil => Sound(docs[e], e)'
    BY <2>1, <2>2 DEF IInv, Sound, Headed, Acknowledged
  <2>4. ASSUME NEW q \in Requests, pc'[q] = "read"
        PROVE Sound(copy[q], doc[q])' /\ Agrees(q)'
    <3>1. doc[q] \in Docs /\ Sound(copy[q], doc[q]) /\ Agrees(q)
      BY <2>1, <2>4, <1>t DEF IInv, TypeOK
    <3> QED
      BY <3>1, <2>1, <2>2 DEF Sound, Headed, Acknowledged, Agrees
  <2> QED
    BY <1>t, <2>3, <2>4 DEF IInv
<1>8. ASSUME NEW j \in Jobs, JobEndScan(j) PROVE IInv'
  BY <1>8, <1>t DEF IInv, JobEndScan, reqVars, Sound, Headed, Acknowledged, Agrees
<1>9. CASE UNCHANGED vars
  BY <1>9, <1>t DEF IInv, vars, Sound, Headed, Acknowledged, Agrees
<1> QED
  BY <1>1, <1>2, <1>3, <1>4, <1>5, <1>6, <1>7, <1>8, <1>9 DEF Next

LEMMA Inductive == Spec => []IInv
  BY InitIInv, IInvStep, PTL DEF Spec

-----------------------------------------------------------------------------
(* update_object's filter is enough: whoever holds the current revision    *)
(* has seen every acknowledged change of the document.                     *)
THEOREM RevisionTheorem == Spec => []RevisionNamesContent
<1>1. IInv => RevisionNamesContent
  BY DEF IInv, Agrees, RevisionNamesContent
<1> QED
  BY <1>1, Inductive, PTL

(* A replace that matched on a revision carries on everything that the     *)
(* document carried.                                                       *)
LEMMA ReplaceKeepsEdits ==
  ASSUME IInv, NEW r \in Requests, Replace(r), doc[r] \notin Legacy
  PROVE  docs[doc[r]].edits = copy[r].edits
BY DEF IInv, Replace, Matches, Sound, Agrees

LEMMA EditsKeptStep ==
  ASSUME IInv, [Next]_vars, NEW e \in Docs \ Legacy
  PROVE  EditsKept(e)
<1> USE NilAssumption
<1>t. docs \in [Docs -> Document \cup {Nil}]
  BY DEF IInv, TypeOK
<1>1. CASE docs' = docs
  BY <1>1 DEF EditsKept
<1>2. ASSUME NEW r \in Requests, Replace(r) PROVE EditsKept(e)
  <2>1. CASE doc[r] = e
    <3>1. docs[e].edits = copy[r].edits
      BY <1>2, <2>1, ReplaceKeepsEdits
    <3>2. docs'[e].edits = copy[r].edits \cup {r}
      BY <1>2, <1>t, <2>1 DEF Replace
    <3> QED
      BY <3>1, <3>2 DEF EditsKept
  <2>2. CASE doc[r] # e
    BY <1>2, <1>t, <2>2 DEF Replace, EditsKept
  <2> QED
    BY <2>1, <2>2
<1>3. ASSUME NEW r \in Requests, NEW d \in Docs, Insert(r, d) PROVE EditsKept(e)
  BY <1>3, <1>t DEF Insert, EditsKept
<1>4. ASSUME NEW r \in Requests, NEW d \in Docs, Delete(r, d) PROVE EditsKept(e)
  BY <1>4, <1>t DEF Delete, EditsKept
<1>5. ASSUME NEW j \in Jobs, NEW d \in Docs, JobWrite(j, d) PROVE EditsKept(e)
  <2>1. CASE d = e /\ docs[d] # Nil
    <3>1. docs[e] \in Document /\ docs'[e] = [docs[e] EXCEPT !.marks = @ \cup {j}]
      BY <1>5, <1>t, <2>1 DEF JobWrite
    <3>2. docs'[e].edits = docs[e].edits
      BY <3>1 DEF Document
    <3> QED
      BY <3>2 DEF EditsKept
  <2>2. CASE d # e \/ docs[d] = Nil
    BY <1>5, <1>t, <2>2 DEF JobWrite, EditsKept
  <2> QED
    BY <2>1, <2>2
<1> QED
  BY <1>1, <1>2, <1>3, <1>4, <1>5
  DEF Next, vars, Reject, Conflict, Read, NotFound, Duplicate, JobScan, JobEndScan

(* No acknowledged change of a document with a revision is ever lost.      *)
THEOREM NoEditLostTheorem == Spec => NoEditLost
<1>1. IInv /\ [Next]_vars => [\A d \in Docs \ Legacy : EditsKept(d)]_vars
  BY EditsKeptStep
<1> QED
  BY <1>1, Inductive, PTL DEF Spec, NoEditLost

(* Every 409 is owed to another client, never to a background job.         *)
THEOREM ConflictsTheorem == Spec => ConflictsJustified
<1>1. ASSUME IInv, [Next]_vars, NEW r \in Requests, pc[r] # "conflict", pc'[r] = "conflict"
      PROVE  ConflictJustified(r)
  <2>1. Conflict(r)
    <3>t. pc \in [Requests -> {"idle", "read", "ok", "failed", "conflict"}]
      BY <1>1 DEF IInv, TypeOK
    <3>1. ASSUME NEW q \in Requests, Conflict(q) PROVE Conflict(r)
      <4>1. q = r
        BY <1>1, <3>1, <3>t DEF Conflict, Answer
      <4> QED
        BY <3>1, <4>1
    <3>2. ASSUME NEW q \in Requests, Reject(q) \/ Replace(q) PROVE FALSE
      BY <1>1, <3>2, <3>t DEF Reject, Replace, Answer
    <3>3. ASSUME NEW q \in Requests, NEW d \in Docs,
                 Read(q, d) \/ NotFound(q, d) \/ Insert(q, d) \/ Duplicate(q, d) \/ Delete(q, d)
          PROVE FALSE
      BY <1>1, <3>3, <3>t DEF Read, NotFound, Insert, Duplicate, Delete, Answer
    <3>4. ASSUME NEW j \in Jobs, NEW d \in Docs, JobScan(j, d) \/ JobWrite(j, d) PROVE FALSE
      BY <1>1, <3>4 DEF JobScan, JobWrite, reqVars
    <3>5. ASSUME NEW j \in Jobs, JobEndScan(j) PROVE FALSE
      BY <1>1, <3>5 DEF JobEndScan, reqVars
    <3>6. CASE UNCHANGED vars
      BY <1>1, <3>6 DEF vars
    <3> QED
      BY <1>1, <3>1, <3>2, <3>3, <3>4, <3>5, <3>6 DEF Next
  <2>2. /\ pc[r] = "read" /\ ~ Matches(docs[doc[r]], copy[r]) /\ doc[r] \in Docs
        /\ Agrees(r)
        /\ docs[doc[r]] # Nil => Sound(docs[doc[r]], doc[r])
    BY <1>1, <2>1 DEF IInv, TypeOK, Conflict
  <2>3. CASE docs[doc[r]] # Nil
    <3>1. docs[doc[r]].rev # copy[r].rev
      BY <2>2, <2>3 DEF Matches
    <3>2. PICK q \in docs[doc[r]].edits : q \notin copy[r].edits
      <4>1. ~ (docs[doc[r]].edits \subseteq copy[r].edits)
        BY <2>2, <2>3, <3>1 DEF Agrees
      <4> QED
        BY <4>1
    <3>3. q \in Requests /\ pc[q] = "ok"
      BY <1>1, <2>2, <2>3, <3>2 DEF IInv, TypeOK, Document, Sound, Acknowledged
    <3> QED
      BY <2>2, <3>2, <3>3 DEF ConflictJustified
  <2> QED
    BY <2>3 DEF ConflictJustified
<1>2. IInv /\ [Next]_vars =>
        [\A r \in Requests :
           pc[r] # "conflict" /\ pc'[r] = "conflict" => ConflictJustified(r)]_vars
  BY <1>1
<1> QED
  BY <1>2, Inductive, PTL DEF Spec, ConflictsJustified

-----------------------------------------------------------------------------
(* Each step of the layer is a step of AtomicDocuments or a stutter: a read*)
(* and a job change nothing there, a matching replace is the whole Edit.   *)
LEMMA StepRefinement == IInv /\ [Next]_vars => [Atomic!Next]_(Atomic!vars)
<1> DEFINE content == [d \in Docs |-> Contents(docs[d])]
           answer  == [r \in Requests |-> Outcome(pc[r])]
<1> SUFFICES ASSUME IInv, [Next]_vars
             PROVE  Atomic!Next \/ (content' = content /\ answer' = answer)
  BY DEF Atomic!vars
<1> USE NilAssumption
<1>t. TypeOK
  BY DEF IInv
<1>c. \A d \in Docs : /\ docs[d] = Nil <=> content[d] = Nil
                      /\ docs[d] # Nil => content[d] = docs[d].edits
  BY <1>t DEF TypeOK, Document, Contents
<1>a. ASSUME NEW r \in Requests, NEW a, pc' = [pc EXCEPT ![r] = a]
      PROVE  answer' = [answer EXCEPT ![r] = Outcome(a)]
  BY <1>a, <1>t DEF TypeOK
<1>b. ASSUME NEW d \in Docs, NEW x, docs' = [docs EXCEPT ![d] = x]
      PROVE  content' = [content EXCEPT ![d] = Contents(x)]
  BY <1>b, <1>t DEF TypeOK
<1>p. \A r \in Requests : pc[r] \in {"idle", "read"} => answer[r] = "pending"
  BY DEF Outcome
<1>o. Outcome("ok") = "ok" /\ Outcome("failed") = "failed" /\ Outcome("conflict") = "failed"
      /\ Outcome("idle") = "pending" /\ Outcome("read") = "pending"
  BY DEF Outcome
<1>1. ASSUME NEW r \in Requests, Reject(r) \/ Conflict(r) PROVE Atomic!Fail(r)
  <2>1. answer[r] = "pending" /\ answer' = [answer EXCEPT ![r] = "failed"]
    BY <1>1, <1>a, <1>o DEF Reject, Conflict, Answer
  <2>2. content' = content
    BY <1>1 DEF Reject, Conflict
  <2> QED
    BY <2>1, <2>2 DEF Atomic!Fail
<1>2. ASSUME NEW r \in Requests, NEW d \in Docs, NotFound(r, d) \/ Duplicate(r, d)
      PROVE  Atomic!Fail(r)
  <2>1. answer[r] = "pending" /\ answer' = [answer EXCEPT ![r] = "failed"]
    BY <1>2, <1>a, <1>o DEF NotFound, Duplicate, Answer
  <2>2. content' = content
    BY <1>2 DEF NotFound, Duplicate
  <2> QED
    BY <2>1, <2>2 DEF Atomic!Fail
<1>3. ASSUME NEW r \in Requests, Replace(r) PROVE Atomic!Edit(r, doc[r])
  <2> DEFINE x == [rev |-> NextRev(copy[r].rev, r), edits |-> copy[r].edits \cup {r}, marks |-> copy[r].marks]
  <2>1. /\ pc[r] = "read" /\ doc[r] \in Docs /\ docs[doc[r]] # Nil
        /\ docs' = [docs EXCEPT ![doc[r]] = x] /\ pc' = [pc EXCEPT ![r] = "ok"]
        /\ Sound(copy[r], doc[r]) /\ Agrees(r)
    BY <1>3, <1>t DEF IInv, TypeOK, Replace, Matches, Answer
  <2>2. answer[r] = "pending" /\ answer' = [answer EXCEPT ![r] = "ok"]
    <3>1. answer' = [answer EXCEPT ![r] = Outcome("ok")]
      BY <1>a, <2>1
    <3>2. answer[r] = "pending"
      BY <1>p, <2>1
    <3> QED
      BY <3>1, <3>2, <1>o
  <2>3. x # Nil /\ Contents(x) = copy[r].edits \cup {r}
    <3>1. x \in Document
      BY <1>t, <2>1 DEF TypeOK, NextRev, Document, Revision
    <3>2. x # Nil
      BY <3>1
    <3> QED
      BY <3>2 DEF Contents
  <2>4. content' = [content EXCEPT ![doc[r]] = copy[r].edits \cup {r}]
    <3> HIDE DEF x
    <3> QED
      BY <1>b, <2>1, <2>3
  <2>5. copy[r].edits \subseteq content[doc[r]]
        /\ (doc[r] \notin Legacy => copy[r].edits = content[doc[r]])
    <3>1. copy[r].rev = Nil => copy[r].edits = {}
      BY <2>1 DEF Sound, Headed
    <3>2. copy[r].rev # Nil => docs[doc[r]].edits = copy[r].edits
      BY <1>3, <2>1 DEF Replace, Matches, Agrees
    <3>3. doc[r] \notin Legacy => copy[r].rev # Nil
      BY <2>1 DEF Sound
    <3> QED
      BY <1>c, <2>1, <3>1, <3>2, <3>3
  <2>6. content[doc[r]] # Nil
    BY <1>c, <2>1
  <2> QED
    BY <2>2, <2>4, <2>5, <2>6 DEF Atomic!Edit
<1>4. ASSUME NEW r \in Requests, NEW d \in Docs, Insert(r, d) PROVE Atomic!Insert(r, d)
  <2> DEFINE x == [rev |-> NextRev(Nil, r), edits |-> {r}, marks |-> {}]
  <2>1. pc[r] = "idle" /\ docs[d] = Nil
        /\ docs' = [docs EXCEPT ![d] = x] /\ pc' = [pc EXCEPT ![r] = "ok"]
    BY <1>4 DEF Insert, Answer
  <2>2. answer[r] = "pending" /\ answer' = [answer EXCEPT ![r] = "ok"]
    <3>1. answer' = [answer EXCEPT ![r] = Outcome("ok")]
      BY <1>a, <2>1
    <3>2. answer[r] = "pending"
      BY <1>p, <2>1
    <3> QED
      BY <3>1, <3>2, <1>o
  <2>3. Contents(x) = {r}
    <3>1. x \in Document
      BY DEF NextRev, Document, Revision
    <3>2. x # Nil
      BY <3>1
    <3> QED
      BY <3>2 DEF Contents
  <2>4. content' = [content EXCEPT ![d] = {r}]
    <3> HIDE DEF x
    <3> QED
      BY <1>b, <2>1, <2>3
  <2>5. content[d] = Nil
    BY <1>c, <2>1
  <2> QED
    BY <2>2, <2>4, <2>5 DEF Atomic!Insert
<1>5. ASSUME NEW r \in Requests, NEW d \in Docs, Delete(r, d) PROVE Atomic!Delete(r, d)
  <2>1. answer[r] = "pending" /\ answer' = [answer EXCEPT ![r] = "ok"] /\ content[d] # Nil
    <3>1. pc[r] = "idle" /\ docs[d] # Nil /\ pc' = [pc EXCEPT ![r] = "ok"]
      BY <1>5 DEF Delete, Answer
    <3>2. answer' = [answer EXCEPT ![r] = Outcome("ok")]
      BY <1>a, <3>1
    <3>3. answer[r] = "pending" /\ content[d] # Nil
      BY <1>c, <1>p, <3>1
    <3> QED
      BY <3>2, <3>3, <1>o
  <2>2. content' = [content EXCEPT ![d] = Nil]
    BY <1>5, <1>b DEF Delete, Contents
  <2> QED
    BY <2>1, <2>2 DEF Atomic!Delete
<1>6. ASSUME NEW r \in Requests, NEW d \in Docs, Read(r, d)
      PROVE  content' = content /\ answer' = answer
  <2>1. answer' = [answer EXCEPT ![r] = "pending"] /\ answer[r] = "pending"
    BY <1>6, <1>a, <1>o DEF Read, Answer
  <2>2. answer' = answer
    BY <2>1
  <2> QED
    BY <1>6, <2>2 DEF Read
<1>7. ASSUME NEW j \in Jobs, NEW d \in Docs, JobWrite(j, d)
      PROVE  content' = content /\ answer' = answer
  <2>1. answer' = answer
    BY <1>7 DEF JobWrite, reqVars
  <2>2. CASE docs[d] # Nil
    <3>1. /\ docs[d] \in Document /\ docs' = [docs EXCEPT ![d] = [docs[d] EXCEPT !.marks = @ \cup {j}]]
      BY <1>7, <1>t, <2>2 DEF JobWrite, TypeOK
    <3>2. [docs[d] EXCEPT !.marks = @ \cup {j}] \in Document
          /\ [docs[d] EXCEPT !.marks = @ \cup {j}].edits = docs[d].edits
      BY <3>1 DEF Document
    <3>3. Contents([docs[d] EXCEPT !.marks = @ \cup {j}]) = content[d]
      BY <2>2, <3>2, <1>c DEF Contents
    <3> QED
      BY <1>b, <2>1, <3>1, <3>3
  <2>3. CASE docs[d] = Nil
    BY <1>7, <2>1, <2>3 DEF JobWrite
  <2> QED
    BY <2>2, <2>3
<1>8. ASSUME NEW j \in Jobs, NEW d \in Docs, JobScan(j, d)
      PROVE  content' = content /\ answer' = answer
  BY <1>8 DEF JobScan, reqVars
<1>9. ASSUME NEW j \in Jobs, JobEndScan(j) PROVE content' = content /\ answer' = answer
  BY <1>9 DEF JobEndScan, reqVars
<1>10. CASE UNCHANGED vars
  BY <1>10 DEF vars
<1>d. \A r \in Requests : pc[r] = "read" => doc[r] \in Docs
  BY <1>t DEF TypeOK
<1> HIDE DEF content, answer
<1> QED
  BY <1>1, <1>2, <1>3, <1>4, <1>5, <1>6, <1>7, <1>8, <1>9, <1>10, <1>d DEF Next, Atomic!Next, Replace

(* The layer implements its abstract specification.                        *)
THEOREM Refinement == Spec => ImplementsAtomic
<1>1. Init => Atomic!Init
  BY NilAssumption DEF Init, Atomic!Init, Stored, Contents, Outcome
<1>2. QED
  BY <1>1, Inductive, StepRefinement, PTL DEF Spec, ImplementsAtomic, Atomic!Spec
=============================================================================
