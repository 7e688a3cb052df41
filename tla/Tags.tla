-------------------------------- MODULE Tags --------------------------------
(***************************************************************************)
(* Tags and the categories and profiles that name them (handlers/tags.py,  *)
(* the tag section of db.py, and what state/category.py, state/profile.py  *)
(* and their handlers do about tags).                                      *)
(*                                                                         *)
(* No collection refers to another inside the database: a category's or a  *)
(* profile's tags are checked by a query before the document is written,   *)
(* and the deletion of a tag looks for its users by two queries before     *)
(* delete_one.  Everything may happen between these calls.                 *)
(*                                                                         *)
(* A tag's _id is a uuid, named after the request that created it; so is a *)
(* revision after the request that wrote it (see the module Documents).    *)
(***************************************************************************)
EXTENDS Naturals

CONSTANTS Codes,       \* tag codes
          Names,       \* tag names (name and name_en are alike)
          Categories,  \* _id's of categories
          Profiles,    \* _id's of profiles
          Requests,    \* API requests; each one is handled once
          Nil

Tag     == [id : Requests \cup {Nil}, name : Names, rev : Requests \cup {Nil}]
Object  == [tags : SUBSET Codes, rev : Requests \cup {Nil}]
Objects == Categories \cup Profiles

ASSUME DistinctAssumption ==
  /\ Categories \cap Profiles = {} /\ Codes \cap Objects = {}
  /\ Nil \notin Requests \cup Codes \cup Objects /\ Nil \notin Tag /\ Nil \notin Object

VARIABLES tags,     \* tags[c]: the tag whose code is c, or Nil
          objects,  \* objects[o]: the category or profile, or Nil
          pc,       \* where each request is
          target,   \* the code or the object it works on
          draft,    \* the document it is going to write
          since     \* history: what others deleted or wrote since its last query

vars == <<tags, objects, pc, target, draft, since>>

Users(c, kind) == {o \in kind : objects[o] # Nil /\ c \in objects[o].tags}

Dangles(o, c) == tags[c] = Nil /\ o \in Users(c, Objects)

(* The unique indexes on code and on the names.                            *)
Duplicates(tag, c) == \E d \in Codes \ {c} : tags[d] # Nil /\ tags[d].name = tag.name

Init ==
  /\ tags \in [Codes -> {Nil} \cup [id : {Nil}, name : Names, rev : {Nil}]]
  /\ objects \in [Objects -> {Nil} \cup [tags : SUBSET Codes, rev : {Nil}]]
  /\ \A c \in Codes : tags[c] # Nil => ~ Duplicates(tags[c], c)
  /\ \A o \in Objects, c \in Codes : ~ Dangles(o, c)
  /\ pc = [r \in Requests |-> "idle"]
  /\ target = [r \in Requests |-> Nil]
  /\ draft = [r \in Requests |-> Nil]
  /\ since = [r \in Requests |-> {}]

-----------------------------------------------------------------------------
Step(r, x, document, state) ==
  /\ pc' = [pc EXCEPT ![r] = state]
  /\ target' = [target EXCEPT ![r] = x]
  /\ draft' = [draft EXCEPT ![r] = document]

(* A query of r that keeps from what happened before it only the events in *)
(* kept; a write of r that every other request in progress has to reckon   *)
(* with.                                                                   *)
Asked(r, kept) ==
  /\ since' = [since EXCEPT ![r] = @ \cap kept]
  /\ UNCHANGED <<tags, objects>>

Changed(r, x) ==
  since' = [q \in Requests |->
              IF q = r THEN {} ELSE IF target[q] = Nil THEN since[q] ELSE since[q] \cup {x}]

Answer(r, answer) == Step(r, Nil, Nil, answer)
Fail(r)           == Answer(r, "failed") /\ Asked(r, {})

(* POST /tags.                                                             *)
CreateTag(r, c, n) ==
  LET tag == [id |-> r, name |-> n, rev |-> r] IN
  /\ pc[r] = "idle"
  /\ tags[c] = Nil /\ ~ Duplicates(tag, c)
  /\ tags' = [tags EXCEPT ![c] = tag]
  /\ Answer(r, "ok")
  /\ UNCHANGED <<objects, since>>

CreateTagRefuse(r, c, n) ==
  /\ pc[r] = "idle"
  /\ tags[c] # Nil \/ Duplicates([id |-> r, name |-> n, rev |-> r], c)
  /\ Fail(r)

(* PATCH /tags/{code}: code is not a field of the body.                    *)
RenameRead(r, c, n) ==
  /\ pc[r] = "idle"
  /\ tags[c] # Nil
  /\ Step(r, c, [tags[c] EXCEPT !.name = n], "rename")
  /\ Asked(r, {})

(* No tag with that code: the tag is read, or deleted, by it (404).        *)
NoTag(r, c) ==
  /\ pc[r] = "idle"
  /\ tags[c] = Nil
  /\ Fail(r)

(* Mutant: the tag is replaced by its code.                                *)
TagMatchesByCode(r) == tags[target[r]] # Nil

(* The filter of find_one_and_replace: _id and _rev.                       *)
TagMatches(r) ==
  /\ tags[target[r]] # Nil
  /\ tags[target[r]].id = draft[r].id /\ tags[target[r]].rev = draft[r].rev

RenameReplace(r) ==
  /\ pc[r] = "rename"
  /\ TagMatches(r) /\ ~ Duplicates(draft[r], target[r])
  /\ tags' = [tags EXCEPT ![target[r]] = [draft[r] EXCEPT !.rev = r]]
  /\ Answer(r, "ok")
  /\ UNCHANGED <<objects, since>>

RenameRefuse(r) ==
  /\ pc[r] = "rename"
  /\ ~ TagMatches(r) \/ Duplicates(draft[r], target[r])
  /\ Fail(r)

(* DELETE /tags/{code}: find_objects_with_tag queries the categories, then *)
(* the profiles; then delete_one, by the code.                             *)
DeleteScanCategories(r, c) ==
  /\ pc[r] = "idle"
  /\ Users(c, Categories) = {}
  /\ Step(r, c, Nil, "delete: profiles")
  /\ Asked(r, {})

DeleteRefuse(r, c) ==
  /\ pc[r] = "idle"
  /\ Users(c, Categories) # {}
  /\ Fail(r)

(* Mutant: a profile does not hold its tags.                               *)
DeleteScanNothing(r) ==
  /\ pc[r] = "delete: profiles"
  /\ Step(r, target[r], Nil, "delete")
  /\ Asked(r, Categories)

DeleteScanProfiles(r) ==
  /\ pc[r] = "delete: profiles"
  /\ Users(target[r], Profiles) = {}
  /\ Step(r, target[r], Nil, "delete")
  /\ Asked(r, Categories)

DeleteScanRefuse(r) ==
  /\ pc[r] = "delete: profiles"
  /\ Users(target[r], Profiles) # {}
  /\ Fail(r)

DeleteTag(r) ==
  /\ pc[r] = "delete"
  /\ tags[target[r]] # Nil
  /\ tags' = [tags EXCEPT ![target[r]] = Nil]
  /\ Answer(r, "ok")
  /\ Changed(r, target[r])
  /\ UNCHANGED objects

DeleteMiss(r) ==
  /\ pc[r] = "delete"
  /\ tags[target[r]] = Nil
  /\ Fail(r)

-----------------------------------------------------------------------------
Missing(codes) == {c \in codes : tags[c] = Nil}

(* POST and PUT of a category or a profile: validate_tags_exist in on_put, *)
(* then the insert.                                                        *)
CreateCheck(r, o, codes) ==
  /\ pc[r] = "idle"
  /\ Missing(codes) = {}
  /\ Step(r, o, [tags |-> codes, rev |-> Nil], "insert")
  /\ Asked(r, {})

CreateRefuse(r, codes) ==
  /\ pc[r] = "idle"
  /\ Missing(codes) # {}
  /\ Fail(r)

CreateInsert(r) ==
  /\ pc[r] = "insert"
  /\ objects[target[r]] = Nil
  /\ objects' = [objects EXCEPT ![target[r]] = [draft[r] EXCEPT !.rev = r]]
  /\ Answer(r, "ok")
  /\ Changed(r, target[r])
  /\ UNCHANGED tags

CreateDuplicate(r) ==
  /\ pc[r] = "insert"
  /\ objects[target[r]] # Nil
  /\ Fail(r)

(* PATCH of a category or a profile that changes it, its tags perhaps: the *)
(* document as it will be written has all its tags checked.                *)
PatchRead(r, o, codes) ==
  /\ pc[r] = "idle"
  /\ objects[o] # Nil
  /\ Step(r, o, [objects[o] EXCEPT !.tags = codes], "check tags")
  /\ Asked(r, {})

(* A PATCH that changes nothing, and the writes of criteria and            *)
(* requirements: the tags are written back as read.                        *)
TouchRead(r, o) ==
  /\ pc[r] = "idle"
  /\ objects[o] # Nil
  /\ Step(r, o, objects[o], "replace")
  /\ Asked(r, {})

PatchCheck(r) ==
  /\ pc[r] = "check tags"
  /\ Missing(draft[r].tags) = {}
  /\ Step(r, target[r], draft[r], "replace")
  /\ Asked(r, Objects)

PatchRefuse(r) ==
  /\ pc[r] = "check tags"
  /\ Missing(draft[r].tags) # {}
  /\ Fail(r)

ObjectMatches(r) == objects[target[r]].rev = draft[r].rev

Replace(r) ==
  /\ pc[r] = "replace"
  /\ ObjectMatches(r)
  /\ objects' = [objects EXCEPT ![target[r]] = [draft[r] EXCEPT !.rev = r]]
  /\ Answer(r, "ok")
  /\ Changed(r, target[r])
  /\ UNCHANGED tags

Conflict(r) ==
  /\ pc[r] = "replace"
  /\ ~ ObjectMatches(r)
  /\ Fail(r)

Next ==
  \/ \E r \in Requests :
       \/ RenameReplace(r) \/ RenameRefuse(r)
       \/ DeleteScanProfiles(r) \/ DeleteScanRefuse(r) \/ DeleteTag(r) \/ DeleteMiss(r)
       \/ CreateInsert(r) \/ CreateDuplicate(r)
       \/ PatchCheck(r) \/ PatchRefuse(r) \/ Replace(r) \/ Conflict(r)
  \/ \E r \in Requests, c \in Codes :
       NoTag(r, c) \/ DeleteScanCategories(r, c) \/ DeleteRefuse(r, c)
  \/ \E r \in Requests, c \in Codes, n \in Names :
       CreateTag(r, c, n) \/ CreateTagRefuse(r, c, n) \/ RenameRead(r, c, n)
  \/ \E r \in Requests, o \in Objects : TouchRead(r, o)
  \/ \E r \in Requests, codes \in SUBSET Codes : CreateRefuse(r, codes)
  \/ \E r \in Requests, o \in Objects, codes \in SUBSET Codes :
       CreateCheck(r, o, codes) \/ PatchRead(r, o, codes)

Spec == Init /\ [][Next]_vars

-----------------------------------------------------------------------------
(* Type invariant.                                                         *)
TypeOK ==
  /\ tags \in [Codes -> Tag \cup {Nil}]
  /\ objects \in [Objects -> Object \cup {Nil}]
  /\ pc \in [Requests -> {"idle", "rename", "delete: profiles", "delete", "insert",
                          "check tags", "replace", "ok", "failed"}]
  /\ target \in [Requests -> Codes \cup Objects \cup {Nil}]
  /\ draft \in [Requests -> Tag \cup Object \cup {Nil}]
  /\ since \in [Requests -> SUBSET (Codes \cup Objects)]

(* A reference to a missing tag comes about in one way: between the query  *)
(* of a request (the last look for missing tags, or for users of the tag)  *)
(* and its write, another request deleted the tag or wrote the document.   *)
(* Requests that do not overlap leave every reference intact.              *)
DanglingOnlyByRace ==
  [][\A o \in Objects, c \in Codes : ~ Dangles(o, c) /\ Dangles(o, c)' =>
       \E r \in Requests : pc'[r] # pc[r] /\ {o, c} \cap since[r] # {}]_vars

(* A tag stays the one that was created under its code until it is deleted:*)
(* a rename prepared before a deletion does not bring the old tag back in  *)
(* the place of one created since.                                         *)
TagKeepsIdentity ==
  [][\A c \in Codes :
       tags[c] # Nil /\ tags'[c] # Nil => tags'[c].id = tags[c].id]_vars

(* A tag can be deleted only when no category and no profile uses it, says *)
(* docs/tags/README.md.  Violated by a deletion that overlaps with a write.*)
NoDanglingTag == \A o \in Objects, c \in Codes : ~ Dangles(o, c)
=============================================================================
