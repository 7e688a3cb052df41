----------------------------- MODULE TagsProofs -----------------------------
(***************************************************************************)
(* Theorems about tags, for any codes, names, categories, profiles and API *)
(* requests: types, that a tag keeps its identity until it is deleted, and *)
(* that a reference to a missing tag takes a write or a deletion between   *)
(* the query of another request and its write.                             *)
(***************************************************************************)
EXTENDS Tags, TLAPS

(* Every user of the tag that r is about to delete has been written since  *)
(* r asked.                                                                *)
Clear(r, kind) == Users(target[r], kind) \subseteq since[r]

(* Every tag that is missing among those r is about to write has been      *)
(* deleted since r asked, unless the document had it missing before; or the*)
(* document has been written since.                                        *)
Reckoned(r) ==
  \A c \in draft[r].tags : tags[c] = Nil =>
    \/ {target[r], c} \cap since[r] # {}
    \/ objects[target[r]] # Nil /\ c \in objects[target[r]].tags

DraftOK(r) ==
  /\ pc[r] = "rename" => target[r] \in Codes /\ draft[r] \in Tag
  /\ pc[r] \in {"insert", "check tags", "replace"} => target[r] \in Objects /\ draft[r] \in Object
  /\ pc[r] \in {"insert", "replace"} => Reckoned(r)
  /\ pc[r] = "delete: profiles" => target[r] \in Codes /\ Clear(r, Categories)
  /\ pc[r] = "delete" => target[r] \in Codes /\ Clear(r, Objects)

(* The inductive invariant.                                                *)
IInv == TypeOK /\ \A r \in Requests : DraftOK(r)

-----------------------------------------------------------------------------
LEMMA InitIInv == Init => IInv
<1> SUFFICES ASSUME Init PROVE IInv
  OBVIOUS
<1> USE DistinctAssumption
<1>1. TypeOK
  BY DEF Init, TypeOK, Tag, Object
<1>2. \A r \in Requests : DraftOK(r)
  BY DEF Init, DraftOK
<1> QED
  BY <1>1, <1>2 DEF IInv

(* Whatever others delete or write, a request in progress reckons with it. *)
LEMMA RequestKept ==
  ASSUME IInv, NEW q \in Requests,
         pc'[q] = pc[q], target'[q] = target[q], draft'[q] = draft[q], since[q] \subseteq since'[q],
         target[q] # Nil =>
           /\ \A c \in Codes : tags[c] # Nil /\ tags'[c] = Nil => c \in since'[q]
           /\ \A o \in Objects : objects'[o] # objects[o] => o \in since'[q]
  PROVE  DraftOK(q)'
<1> USE DistinctAssumption
<1>1. DraftOK(q) /\ Nil \notin Codes /\ Nil \notin Objects
  BY DEF IInv
<1>2. ASSUME pc[q] \in {"insert", "replace"} PROVE Reckoned(q)'
  <2>1. /\ target[q] \in Objects /\ draft[q] \in Object /\ Reckoned(q) /\ target[q] # Nil
        /\ draft[q].tags \subseteq Codes
    BY <1>1, <1>2 DEF DraftOK, Object
  <2>2. ASSUME NEW c \in draft[q].tags, tags'[c] = Nil, {target[q], c} \cap since'[q] = {}
        PROVE  objects'[target[q]] # Nil /\ c \in objects'[target[q]].tags
    <3>1. tags[c] = Nil /\ objects'[target[q]] = objects[target[q]]
      BY <2>1, <2>2
    <3>2. {target[q], c} \cap since[q] = {}
      BY <2>2
    <3> QED
      BY <2>1, <3>1, <3>2 DEF Reckoned
  <2> QED
    BY <2>2 DEF Reckoned
<1>3. ASSUME NEW kind \in SUBSET Objects, target[q] \in Codes, Clear(q, kind)
      PROVE  Clear(q, kind)'
  <2>1. ASSUME NEW o \in kind, objects'[o] # Nil, target[q] \in objects'[o].tags PROVE o \in since'[q]
    <3>1. CASE objects'[o] = objects[o]
      BY <1>3, <2>1, <3>1 DEF Clear, Users
    <3>2. CASE objects'[o] # objects[o]
      BY <1>1, <1>3, <3>2
    <3> QED
      BY <3>1, <3>2
  <2> QED
    BY <2>1 DEF Clear, Users
<1>4. ASSUME pc[q] = "delete: profiles" PROVE Clear(q, Categories)'
  BY <1>1, <1>3, <1>4 DEF DraftOK, Objects
<1>5. ASSUME pc[q] = "delete" PROVE Clear(q, Objects)'
  BY <1>1, <1>3, <1>5 DEF DraftOK
<1> QED
  BY <1>1, <1>2, <1>4, <1>5 DEF DraftOK

(* A step of r that stores nothing: a query, or an answer.                 *)
LEMMA QueryStep ==
  ASSUME IInv, NEW r \in Requests,
         NEW x \in Codes \cup Objects \cup {Nil}, NEW d \in Tag \cup Object \cup {Nil},
         NEW s \in {"rename", "delete: profiles", "delete", "insert", "check tags", "replace", "failed"},
         NEW kept, Step(r, x, d, s), Asked(r, kept),
         (pc'[r] = s /\ target'[r] = x /\ draft'[r] = d /\ since'[r] = since[r] \cap kept)
           => DraftOK(r)'
  PROVE  IInv'
<1>1. TypeOK
  BY DEF IInv
<1>2. TypeOK'
  <2>1. since' \in [Requests -> SUBSET (Codes \cup Objects)]
    BY <1>1 DEF TypeOK, Asked
  <2> QED
    BY <1>1, <2>1 DEF TypeOK, Step, Asked
<1>3. /\ pc'[r] = s /\ target'[r] = x /\ draft'[r] = d /\ since'[r] = since[r] \cap kept
      /\ tags' = tags /\ objects' = objects
      /\ \A q \in Requests \ {r} : /\ pc'[q] = pc[q] /\ target'[q] = target[q]
                                   /\ draft'[q] = draft[q] /\ since'[q] = since[q]
  BY <1>1 DEF TypeOK, Step, Asked
<1>4. \A q \in Requests \ {r} : DraftOK(q)'
  BY <1>3, RequestKept
<1> QED
  BY <1>2, <1>3, <1>4 DEF IInv

LEMMA FailStep ==
  ASSUME IInv, NEW r \in Requests, Fail(r)
  PROVE  IInv'
BY QueryStep DEF Fail, Answer, DraftOK

(* A step of r that stores or deletes something and answers.               *)
LEMMA WriteStep ==
  ASSUME IInv, NEW r \in Requests, Answer(r, "ok"),
         tags' \in [Codes -> Tag \cup {Nil}], objects' \in [Objects -> Object \cup {Nil}],
         \/ /\ since' = since /\ objects' = objects
            /\ \A c \in Codes : tags'[c] = Nil => tags[c] = Nil
         \/ \E x \in Codes \cup Objects :
              /\ Changed(r, x)
              /\ \A c \in Codes \ {x} : tags'[c] = Nil => tags[c] = Nil
              /\ \A o \in Objects \ {x} : objects'[o] = objects[o]
  PROVE  IInv'
<1>1. TypeOK
  BY DEF IInv
<1>2. /\ pc'[r] = "ok"
      /\ \A q \in Requests \ {r} :
           pc'[q] = pc[q] /\ target'[q] = target[q] /\ draft'[q] = draft[q]
  BY <1>1 DEF TypeOK, Answer, Step
<1>3. since' \in [Requests -> SUBSET (Codes \cup Objects)]
  <2>1. ASSUME NEW x \in Codes \cup Objects, Changed(r, x)
        PROVE  since' \in [Requests -> SUBSET (Codes \cup Objects)]
    <3>1. \A q \in Requests : since[q] \in SUBSET (Codes \cup Objects)
      BY <1>1 DEF TypeOK
    <3>2. \A q \in Requests : (IF q = r THEN {} ELSE IF target[q] = Nil THEN since[q]
                               ELSE since[q] \cup {x}) \in SUBSET (Codes \cup Objects)
      BY <3>1
    <3> QED
      BY <2>1, <3>2 DEF Changed
  <2> QED
    BY <1>1, <2>1 DEF TypeOK
<1>4. TypeOK'
  BY <1>1, <1>3 DEF TypeOK, Answer, Step
<1>5. ASSUME NEW q \in Requests \ {r} PROVE DraftOK(q)'
  <2>1. CASE since' = since /\ objects' = objects /\ \A c \in Codes : tags'[c] = Nil => tags[c] = Nil
    BY <1>2, <2>1, RequestKept
  <2>2. ASSUME NEW x \in Codes \cup Objects, Changed(r, x),
               \A c \in Codes \ {x} : tags'[c] = Nil => tags[c] = Nil,
               \A o \in Objects \ {x} : objects'[o] = objects[o]
        PROVE  DraftOK(q)'
    <3>1. /\ since[q] \subseteq since'[q]
          /\ target[q] # Nil => x \in since'[q]
      BY <2>2 DEF Changed
    <3> QED
      BY <1>2, <2>2, <3>1, RequestKept
  <2> QED
    BY <2>1, <2>2
<1>6. DraftOK(r)'
  BY <1>2 DEF DraftOK
<1> QED
  BY <1>4, <1>5, <1>6 DEF IInv

(* Steps about tags.                                                       *)
LEMMA TagStep ==
  ASSUME IInv, NEW r \in Requests,
         \/ RenameReplace(r) \/ DeleteScanProfiles(r) \/ DeleteTag(r)
         \/ \E c \in Codes : DeleteScanCategories(r, c)
         \/ \E c \in Codes, n \in Names : CreateTag(r, c, n) \/ RenameRead(r, c, n)
  PROVE  IInv'
<1> USE DistinctAssumption
<1>t. TypeOK /\ DraftOK(r) /\ tags \in [Codes -> Tag \cup {Nil}] /\ objects \in [Objects -> Object \cup {Nil}]
  BY DEF IInv, TypeOK
<1>1. ASSUME NEW c \in Codes, NEW n \in Names, CreateTag(r, c, n) PROVE IInv'
  <2> DEFINE tag == [id |-> r, name |-> n, rev |-> r]
  <2>1. tag \in Tag /\ tag # Nil
    BY DEF Tag
  <2>2. tags' = [tags EXCEPT ![c] = tag] /\ Answer(r, "ok") /\ objects' = objects /\ since' = since
    BY <1>1 DEF CreateTag
  <2> HIDE DEF tag
  <2> QED
    BY <1>t, <2>1, <2>2, WriteStep
<1>2. ASSUME NEW c \in Codes, NEW n \in Names, RenameRead(r, c, n) PROVE IInv'
  <2>1. [tags[c] EXCEPT !.name = n] \in Tag
    BY <1>t, <1>2 DEF RenameRead, Tag
  <2> QED
    BY <1>2, <2>1, QueryStep DEF RenameRead, DraftOK
<1>3. ASSUME NEW c \in Codes, DeleteScanCategories(r, c) PROVE IInv'
  <2>1. Users(c, Categories) = {} /\ tags' = tags /\ objects' = objects
    BY <1>3 DEF DeleteScanCategories, Asked
  <2>2. pc'[r] = "delete: profiles" /\ target'[r] = c => DraftOK(r)'
    BY <2>1 DEF DraftOK, Clear, Users
  <2> QED
    BY <1>3, <2>2, QueryStep DEF DeleteScanCategories
<1>4. CASE DeleteScanProfiles(r)
  <2>1. /\ target[r] \in Codes /\ Clear(r, Categories) /\ Users(target[r], Profiles) = {}
        /\ tags' = tags /\ objects' = objects
    BY <1>t, <1>4 DEF DeleteScanProfiles, Asked, DraftOK
  <2>2. pc'[r] = "delete" /\ target'[r] = target[r] /\ since'[r] = since[r] \cap Categories => DraftOK(r)'
    BY <2>1 DEF DraftOK, Clear, Users, Objects
  <2> QED
    BY <1>4, <2>1, <2>2, QueryStep DEF DeleteScanProfiles
<1>5. CASE RenameReplace(r)
  <2> DEFINE tag == [draft[r] EXCEPT !.rev = r]
  <2>1. target[r] \in Codes /\ draft[r] \in Tag
    BY <1>t, <1>5 DEF RenameReplace, DraftOK
  <2>2. tag \in Tag /\ tag # Nil
    BY <2>1 DEF Tag
  <2>3. tags' = [tags EXCEPT ![target[r]] = tag] /\ Answer(r, "ok") /\ objects' = objects /\ since' = since
    BY <1>5 DEF RenameReplace
  <2> HIDE DEF tag
  <2> QED
    BY <1>t, <2>1, <2>2, <2>3, WriteStep
<1>6. CASE DeleteTag(r)
  <2>1. /\ target[r] \in Codes /\ tags' = [tags EXCEPT ![target[r]] = Nil] /\ objects' = objects
        /\ Answer(r, "ok") /\ Changed(r, target[r])
    BY <1>t, <1>6 DEF DeleteTag, DraftOK
  <2> QED
    BY <1>t, <2>1, WriteStep
<1> QED
  BY <1>1, <1>2, <1>3, <1>4, <1>5, <1>6

(* Steps about categories and profiles.                                    *)
LEMMA ObjectStep ==
  ASSUME IInv, NEW r \in Requests,
         \/ CreateInsert(r) \/ PatchCheck(r) \/ Replace(r)
         \/ \E o \in Objects : TouchRead(r, o)
         \/ \E o \in Objects, codes \in SUBSET Codes : CreateCheck(r, o, codes) \/ PatchRead(r, o, codes)
  PROVE  IInv'
<1> USE DistinctAssumption
<1>t. TypeOK /\ DraftOK(r) /\ tags \in [Codes -> Tag \cup {Nil}] /\ objects \in [Objects -> Object \cup {Nil}]
  BY DEF IInv, TypeOK
<1>1. ASSUME NEW o \in Objects, NEW codes \in SUBSET Codes, CreateCheck(r, o, codes) PROVE IInv'
  <2> DEFINE d == [tags |-> codes, rev |-> Nil]
  <2>1. d \in Object /\ d.tags = codes
    BY DEF Object
  <2>2. Missing(codes) = {} /\ Step(r, o, d, "insert") /\ Asked(r, {}) /\ tags' = tags
    BY <1>1 DEF CreateCheck, Asked
  <2> HIDE DEF d
  <2>3. pc'[r] = "insert" /\ target'[r] = o /\ draft'[r] = d => DraftOK(r)'
    BY <2>1, <2>2 DEF DraftOK, Reckoned, Missing
  <2> QED
    BY <2>1, <2>2, <2>3, QueryStep
<1>2. ASSUME NEW o \in Objects, NEW codes \in SUBSET Codes, PatchRead(r, o, codes) PROVE IInv'
  <2>1. [objects[o] EXCEPT !.tags = codes] \in Object
    BY <1>t, <1>2 DEF PatchRead, Object
  <2> QED
    BY <1>2, <2>1, QueryStep DEF PatchRead, DraftOK
<1>3. ASSUME NEW o \in Objects, TouchRead(r, o) PROVE IInv'
  <2>1. objects[o] \in Object /\ objects[o] # Nil /\ objects' = objects
    BY <1>t, <1>3 DEF TouchRead, Asked
  <2>2. pc'[r] = "replace" /\ target'[r] = o /\ draft'[r] = objects[o] => DraftOK(r)'
    BY <2>1 DEF DraftOK, Reckoned
  <2> QED
    BY <1>3, <2>1, <2>2, QueryStep DEF TouchRead
<1>4. CASE PatchCheck(r)
  <2>1. /\ target[r] \in Objects /\ draft[r] \in Object /\ Missing(draft[r].tags) = {} /\ tags' = tags
    BY <1>t, <1>4 DEF PatchCheck, Asked, DraftOK
  <2>2. pc'[r] = "replace" /\ target'[r] = target[r] /\ draft'[r] = draft[r] => DraftOK(r)'
    BY <2>1 DEF DraftOK, Reckoned, Missing
  <2> QED
    BY <1>4, <2>1, <2>2, QueryStep DEF PatchCheck
<1>5. CASE CreateInsert(r) \/ Replace(r)
  <2> DEFINE x == [draft[r] EXCEPT !.rev = r]
  <2>1. target[r] \in Objects /\ draft[r] \in Object
    BY <1>t, <1>5 DEF CreateInsert, Replace, DraftOK
  <2>2. x \in Object
    BY <2>1 DEF Object
  <2>3. /\ objects' = [objects EXCEPT ![target[r]] = x] /\ Answer(r, "ok") /\ tags' = tags
        /\ Changed(r, target[r])
    BY <1>5 DEF CreateInsert, Replace
  <2> HIDE DEF x
  <2> QED
    BY <1>t, <2>1, <2>2, <2>3, WriteStep
<1> QED
  BY <1>1, <1>2, <1>3, <1>4, <1>5

LEMMA IInvStep == IInv /\ [Next]_vars => IInv'
<1> SUFFICES ASSUME IInv, [Next]_vars PROVE IInv'
  OBVIOUS
<1>1. ASSUME NEW r \in Requests,
             RenameRefuse(r) \/ DeleteScanRefuse(r) \/ DeleteMiss(r) \/ CreateDuplicate(r)
             \/ PatchRefuse(r) \/ Conflict(r)
      PROVE  IInv'
  BY <1>1, FailStep
  DEF RenameRefuse, DeleteScanRefuse, DeleteMiss, CreateDuplicate, PatchRefuse, Conflict
<1>2. ASSUME NEW r \in Requests, NEW c \in Codes, NoTag(r, c) \/ DeleteRefuse(r, c) PROVE IInv'
  BY <1>2, FailStep DEF NoTag, DeleteRefuse
<1>3. ASSUME NEW r \in Requests, NEW c \in Codes, NEW n \in Names, CreateTagRefuse(r, c, n) PROVE IInv'
  BY <1>3, FailStep DEF CreateTagRefuse
<1>4. ASSUME NEW r \in Requests, NEW codes \in SUBSET Codes, CreateRefuse(r, codes) PROVE IInv'
  BY <1>4, FailStep DEF CreateRefuse
<1>5. CASE UNCHANGED vars
  <2>1. TypeOK'
    BY <1>5 DEF IInv, TypeOK, vars
  <2>2. \A q \in Requests : DraftOK(q)'
    BY <1>5, RequestKept DEF vars
  <2> QED
    BY <2>1, <2>2 DEF IInv
<1> QED
  BY <1>1, <1>2, <1>3, <1>4, <1>5, TagStep, ObjectStep DEF Next

LEMMA Inductive == Spec => []IInv
  BY InitIInv, IInvStep, PTL DEF Spec

-----------------------------------------------------------------------------
(* Collections, requests in progress and histories have their type.        *)
THEOREM TypeCorrect == Spec => []TypeOK
<1>1. IInv => TypeOK
  BY DEF IInv
<1> QED
  BY <1>1, Inductive, PTL

(* The writes: what a step does to tags and to the documents that use them.*)
LEMMA WritingStep ==
  ASSUME [Next]_vars
  PROVE  \/ UNCHANGED <<tags, objects>>
         \/ \E r \in Requests :
              \/ RenameReplace(r) \/ DeleteTag(r) \/ CreateInsert(r) \/ Replace(r)
              \/ \E c \in Codes, n \in Names : CreateTag(r, c, n)
BY DEF Next, vars, Fail, Asked, RenameRefuse, DeleteScanProfiles, DeleteScanRefuse, DeleteMiss,
       CreateDuplicate, PatchCheck, PatchRefuse, Conflict, NoTag, DeleteScanCategories, DeleteRefuse,
       CreateTagRefuse, RenameRead, TouchRead, CreateRefuse, CreateCheck, PatchRead

(* A rename writes the tag it read, never one created in its place.        *)
THEOREM IdentityTheorem == Spec => TagKeepsIdentity
<1> USE DistinctAssumption
<1>1. ASSUME IInv, [Next]_vars, NEW c \in Codes, tags[c] # Nil, tags'[c] # Nil
      PROVE  tags'[c].id = tags[c].id
  <2>t. tags \in [Codes -> Tag \cup {Nil}]
    BY <1>1 DEF IInv, TypeOK
  <2>1. ASSUME NEW r \in Requests, RenameReplace(r) PROVE tags'[c].id = tags[c].id
    <3>1. draft[r] \in Tag
      BY <1>1, <2>1 DEF RenameReplace, IInv, DraftOK
    <3>2. [draft[r] EXCEPT !.rev = r].id = draft[r].id
      BY <3>1 DEF Tag
    <3> QED
      BY <2>t, <2>1, <3>2 DEF RenameReplace, TagMatches
  <2>2. ASSUME NEW r \in Requests, DeleteTag(r) PROVE tags'[c].id = tags[c].id
    BY <1>1, <2>t, <2>2 DEF DeleteTag
  <2>3. ASSUME NEW r \in Requests, NEW d \in Codes, NEW n \in Names, CreateTag(r, d, n)
        PROVE  tags'[c].id = tags[c].id
    BY <1>1, <2>t, <2>3 DEF CreateTag
  <2> QED
    BY <1>1, <2>1, <2>2, <2>3, WritingStep DEF CreateInsert, Replace
<1>2. IInv /\ [Next]_vars =>
        [\A c \in Codes : tags[c] # Nil /\ tags'[c] # Nil => tags'[c].id = tags[c].id]_vars
  BY <1>1
<1> QED
  BY <1>2, Inductive, PTL DEF Spec, TagKeepsIdentity

(* Requests that do not overlap leave every reference intact: of the       *)
(* request whose write leaves o with a missing tag c, one of the two was   *)
(* written or deleted by another since its last query.                     *)
LEMMA DanglingStep ==
  ASSUME IInv, [Next]_vars, NEW o \in Objects, NEW c \in Codes, ~ Dangles(o, c), Dangles(o, c)'
  PROVE  \E r \in Requests : pc'[r] # pc[r] /\ {o, c} \cap since[r] # {}
<1> USE DistinctAssumption
<1>t. /\ tags \in [Codes -> Tag \cup {Nil}] /\ objects \in [Objects -> Object \cup {Nil}]
      /\ \A r \in Requests : DraftOK(r)
      /\ \A r \in Requests : Answer(r, "ok") => pc'[r] = "ok"
  BY DEF IInv, TypeOK, Answer, Step
<1>d. /\ ~ (tags[c] = Nil /\ objects[o] # Nil /\ c \in objects[o].tags)
      /\ tags'[c] = Nil /\ objects'[o] # Nil /\ c \in objects'[o].tags
  BY DEF Dangles, Users
<1>1. ASSUME NEW r \in Requests, DeleteTag(r)
      PROVE  pc'[r] # pc[r] /\ {o, c} \cap since[r] # {}
  <2>1. target[r] = c /\ objects' = objects
    BY <1>t, <1>d, <1>1 DEF DeleteTag
  <2>2. Clear(r, Objects)
    BY <1>t, <1>1 DEF DeleteTag, DraftOK
  <2>3. o \in since[r]
    BY <1>d, <2>1, <2>2 DEF Clear, Users
  <2> QED
    BY <1>t, <1>1, <2>3 DEF DeleteTag
<1>2. ASSUME NEW r \in Requests, CreateInsert(r) \/ Replace(r)
      PROVE  pc'[r] # pc[r] /\ {o, c} \cap since[r] # {}
  <2>1. target[r] = o /\ tags' = tags /\ tags[c] = Nil
    BY <1>t, <1>d, <1>2 DEF CreateInsert, Replace
  <2>2. draft[r] \in Object /\ Reckoned(r)
    BY <1>t, <1>2 DEF CreateInsert, Replace, DraftOK
  <2>3. c \in draft[r].tags
    <3>1. objects'[o] = [draft[r] EXCEPT !.rev = r]
      BY <1>t, <1>2, <2>1 DEF CreateInsert, Replace
    <3> QED
      BY <1>d, <2>2, <3>1 DEF Object
  <2>4. {o, c} \cap since[r] # {}
    BY <1>d, <2>1, <2>2, <2>3 DEF Reckoned
  <2> QED
    BY <1>t, <1>2, <2>4 DEF CreateInsert, Replace
<1>3. ASSUME NEW r \in Requests, RenameReplace(r) PROVE FALSE
  <2>1. draft[r] \in Tag
    BY <1>t, <1>3 DEF RenameReplace, DraftOK
  <2>2. [draft[r] EXCEPT !.rev = r] # Nil
    BY <2>1 DEF Tag
  <2> QED
    BY <1>t, <1>d, <1>3, <2>2 DEF RenameReplace
<1>4. ASSUME NEW r \in Requests, NEW d \in Codes, NEW n \in Names, CreateTag(r, d, n) PROVE FALSE
  <2>1. [id |-> r, name |-> n, rev |-> r] # Nil
    BY DEF Tag
  <2> QED
    BY <1>t, <1>d, <1>4, <2>1 DEF CreateTag
<1> QED
  BY <1>d, <1>1, <1>2, <1>3, <1>4, WritingStep

(* A reference to a missing tag comes about by a race, and in no other way.*)
THEOREM DanglingTheorem == Spec => DanglingOnlyByRace
<1>1. IInv /\ [Next]_vars =>
        [\A o \in Objects, c \in Codes : ~ Dangles(o, c) /\ Dangles(o, c)' =>
           \E r \in Requests : pc'[r] # pc[r] /\ {o, c} \cap since[r] # {}]_vars
  BY DanglingStep
<1> QED
  BY <1>1, Inductive, PTL DEF Spec, DanglingOnlyByRace
=============================================================================
