----------------------------- MODULE Migrating -----------------------------
(***************************************************************************)
(* A migration runs beside the API.  A script reads the documents of one   *)
(* collection after another, computes what to set and to unset (module     *)
(* Migrations), collects such changes into a bulk and writes the bulk by   *)
(* _id alone: it neither compares nor advances _rev.  The scripts differ   *)
(* in where their transaction begins and whether the cursor reads in it.   *)
(*                                                                         *)
(* Meanwhile a request of the API reads a document and later replaces it,  *)
(* if _rev is still the one it read (update_object); and a client reads a  *)
(* feed, page after page, by dateModified (paginated_result).              *)
(*                                                                         *)
(* The script may die anywhere; it is then started again.                  *)
(***************************************************************************)
EXTENDS Migrations

CONSTANTS Worlds,   \* Worlds[s]: the databases on which the script s is run
          Feed,     \* Feed[s]: the kind of documents the client follows
          BulkSize, \* changes in a full bulk
          MaxRuns,  \* bound: how often the script is started
          MaxEdits, \* bound: requests of the API
          Copies    \* Copies[run]: _id's (uuid4) for the copies of a category

VARIABLES m,     \* the script
          docs,  \* docs[d]: the document d and its _rev
          clock, \* the last moment that is the dateModified of something
          job,   \* where the script is
          runs,  \* how often it was started
          edit,  \* the API's request, or None
          edits, \* how many there were
          feed,  \* what the client knows
          alone  \* the run was not disturbed since it began

vars == <<m, docs, clock, job, runs, edit, edits, feed, alone>>

Scripts    == DOMAIN Worlds
Bodies     == [d \in DOMAIN docs |-> docs[d].body]
Off        == [at |-> "off", pass |-> 0, left |-> {}, bulk |-> << >>, snap |-> << >>,
               dirty |-> << >>, group |-> None, seen |-> None, since |-> 0, count |-> 0]
First(S, R(_, _)) == CHOOSE d \in S : \A e \in S : R(d, e)

-----------------------------------------------------------------------------
(* The passes of a script: the collection, how its changes are written and *)
(* how many are collected.  A batch is a transaction of its own, plain     *)
(* writes are in none, those of a txn are in the script's; again and skip  *)
(* say what is done with a group after a conflict.                         *)
Pass(kind, how, size) == [kind |-> kind, how |-> how, size |-> size]
All                   == 1000
Batches(kinds)        == [i \in DOMAIN kinds |-> Pass(kinds[i], "batch", BulkSize)]
InTxn(kinds)          == [i \in DOMAIN kinds |-> Pass(kinds[i], "txn", BulkSize)]

Copying               == {"cs_18006", "cs_19979", "cs_20381_copies"}

Passes(s) ==
  CASE s \in {"cs_16903", "cs_17668", "cs_20538", "cs_20827", "cs_21185"} ->
         Batches(<<"category", "profile", "product">>)
    [] s \in {"cs_16972", "cs_17676", "cs_17793", "cs_18810", "cs_18855", "cs_20866", "cs_21351"} ->
         Batches(<<"category", "profile">>)
    [] s \in {"cs_17864", "cs_20828_hide"} -> Batches(<<"category">>)
    [] s \in {"cs_17989", "cs_18606"}      -> Batches(<<"profile">>)
    [] s = "cs_20381"                      -> Batches(<<"category", "product">>)
    [] s \in {"cs_18834", "cs_18906", "cs_18917", "cs_19049", "cs_20083", "cs_20491", "cs_20824",
              "cs_20838", "cs_20892"}      -> Batches(<<"product">>)
    [] s = "cs_18827"                      -> Batches(<<"vendor">>)
    [] s \in {"cs_15202", "cs_16971"}      -> InTxn(<<"category", "profile", "product">>)
    [] s = "cs_16302"                      -> InTxn(<<"category", "profile">>)
    [] s = "cs_16303"                      -> InTxn(<<"category", "product">>)
    [] s \in {"cs_16982", "cs_17177", "cs_18012"} -> InTxn(<<"product">>)
    [] s \in {"cs_17332", "cs_18754"}      -> InTxn(<<"category">>)
    [] s \in {"cs_15522", "cs_16542", "cs_18454", "cs_19077"} -> InTxn(<<"profile">>)
    [] s = "cs_13375"                      -> <<Pass("profile", "txn", All)>>
    [] s = "cs_15349" -> <<Pass("category", "plain", 1), Pass("profile", "txn", All)>>
    [] s = "cs_18143" -> <<Pass("category", "txn", 1), Pass("profile", "txn", 1)>>
                         \o Batches(<<"product", "product">>)
    [] s = "cs_20828_patch" -> <<Pass("category", "txn", 1)>> \o Batches(<<"product">>)
    [] s = "cs_11945"               -> <<Pass("profile", "document", 1)>>
    [] s = "cs_12110"               -> <<Pass("profile", "plain", All), Pass("product", "plain", All)>>
    [] s = "cs_13101"               -> <<Pass("product", "plain", All)>>
    [] s = "cs_13713"               -> <<Pass("offer", "plain", BulkSize)>>
    [] s = "squash"                 -> <<Pass("profile", "plain", 1)>>
    [] s \in {"cs_12095", "cs_12300"} -> <<Pass("profile", "again", All)>>
    [] s \in {"cs_13182", "cs_13265"} -> <<Pass("profile", "skip", All)>>
    [] s = "cs_13762"               -> <<Pass("category", "skip", All)>>
    [] s \in Copying                -> <<Pass("category", "copies", All)>>

(* Mutant: the cursor reads outside the transaction.                       *)
InSessionNever(s) == FALSE

(* find is given the session of the transaction, which begins with it.     *)
InSession(s) == s \in {"cs_13375", "cs_15349", "cs_15522", "cs_18454"}

(* The transaction ends with the pass, and not with the script.            *)
EndsWithPass(s) == s \in {"cs_18143", "cs_20828_patch"}

(* A group's members; and whether the outer cursor, and not the group's    *)
(* transaction, has read its head.                                         *)
Members(s, w, g) ==
  CASE s = "cs_13762" -> {d \in DOMAIN w : w[d].kind = "profile" /\ w[d].relatedCategory = g}
    [] s \in {"cs_12095", "cs_12300"} ->
         {g} \cup {d \in DOMAIN w : w[d].kind = "product" /\ w[d].relatedProfile = g}
    [] OTHER -> {d \in DOMAIN w : w[d].kind = "product" /\ g \in w[d].relatedProfiles}
HeadReadBefore(s) == s \in {"cs_13265", "cs_13762"}

GroupChange(s, w, g, d) ==
  CASE s = "cs_12095" -> cs_12095(w, g, d)
    [] s = "cs_12300" -> cs_12300(w, g, d)
    [] s = "cs_13182" -> cs_13182(w, g, d)
    [] s = "cs_13265" -> cs_13265(w, g, d)
    [] s = "cs_13762" -> cs_13762(w, g, d)

(* dateModified becomes the earliest of the moments after its own: one     *)
(* more for each document that is moved.                                   *)
cs_20892(w, d, count) == PutIf(Shares(w, d), [dateModified |-> w[d].dateModified + count + 1])

Change(s, pass, w, d, count) ==
  CASE s = "cs_11945" -> cs_11945(w, d)      [] s = "cs_12110" -> cs_12110(w, d)
    [] s = "cs_13101" -> cs_13101(w, d)      [] s = "cs_13375" -> cs_13375(w, d)
    [] s = "cs_13713" -> cs_13713(w, d)      [] s = "cs_15202" -> cs_15202(w, d)
    [] s = "cs_15349" -> cs_15349(w, d)      [] s = "cs_15522" -> cs_15522(w, d)
    [] s = "cs_16302" -> cs_16302(w, d)      [] s = "cs_16303" -> cs_16303(w, d)
    [] s = "cs_16542" -> cs_16542(w, d)      [] s = "cs_16903" -> cs_16903(w, d)
    [] s = "cs_16971" -> cs_16971(w, d)      [] s = "cs_16972" -> cs_16972(w, d)
    [] s = "cs_16982" -> cs_16982(w, d)      [] s = "cs_17177" -> cs_17177(w, d)
    [] s = "cs_17332" -> cs_17332(w, d)
    [] s = "cs_17668" -> IF w[d].kind = "product" THEN cs_17668_products(w, d) ELSE cs_17668(w, d)
    [] s = "cs_17676" -> cs_17676(w, d)      [] s = "cs_17793" -> cs_17793(w, d)
    [] s = "cs_17864" -> cs_17864(w, d)      [] s = "cs_17989" -> cs_17989(w, d)
    [] s = "cs_18012" -> cs_18012(w, d)
    [] s = "cs_18143" -> (CASE pass = 1 -> cs_18143_categories(w, d)
                            [] pass = 2 -> cs_18143_profiles(w, d)
                            [] pass = 3 -> cs_18143_classes(w, d)
                            [] pass = 4 -> cs_18143_products(w, d))
    [] s = "cs_18454" -> cs_18454(w, d)      [] s = "cs_18606" -> cs_18606(w, d)
    [] s = "cs_18754" -> cs_18754(w, d)      [] s = "cs_18810" -> cs_18810(w, d)
    [] s = "cs_18827" -> cs_18827(w, d)      [] s = "cs_18834" -> cs_18834(w, d)
    [] s = "cs_18855" -> cs_18855(w, d)      [] s = "cs_18906" -> cs_18906(w, d)
    [] s = "cs_18917" -> cs_18917(w, d)      [] s = "cs_19049" -> cs_19049(w, d)
    [] s = "cs_19077" -> cs_19077(w, d)      [] s = "cs_20083" -> cs_20083(w, d)
    [] s = "cs_20381" -> cs_20381(w, d)
    [] s = "cs_20491" -> cs_20491(w, d)      [] s = "cs_20538" -> cs_20538(w, d)
    [] s = "cs_20827" -> cs_20827(w, d)      [] s = "cs_21185" -> cs_21185(w, d)
    [] s = "cs_20824" -> cs_20824(w, d)      [] s = "cs_20828_hide"  -> cs_20828_hide(w, d)
    [] s = "cs_20838" -> cs_20838(w, d)      [] s = "cs_20828_patch" -> cs_20828_patch(w, d)
    [] s = "cs_20866" -> cs_20866(w, d)      [] s = "cs_20892" -> cs_20892(w, d, count)
    [] s = "cs_21351" -> cs_21351(w, d)      [] s = "squash" -> squash_profile_criteria(w, d)

(* The category that is copied.                                            *)
Origins(s, w) ==
  {c \in DOMAIN w : /\ w[c].kind = "category"
                    /\ IF s = "cs_18006" THEN c \in Listed ELSE w[c].classification.id = "old"}
Copy(s, category) ==
  CASE s = "cs_18006"        -> cs_18006(category)
    [] s = "cs_19979"        -> cs_19979(category)
    [] s = "cs_20381_copies" -> cs_20381_copies(category)

(* An exception ends the script: 20381 finds no category with the new      *)
(* classification; 12300, a response without value to a requirement that   *)
(* is still in the old form.  A request of the API that puts an old        *)
(* document back leads there.  And 15349 iterates over criteria that it has*)
(* itself made None, before it gets to any profile.                        *)
Raises(s, w, d) ==
  \/ /\ s = "cs_20381" /\ w[d].kind = "product" /\ w[d].relatedCategory \in Listed
     /\ \A c \in DOMAIN w : w[c].kind = "category" => w[c].classification.id # NewClass
  \/ /\ s = "cs_12300"
     /\ \E p \in Members(s, w, d) \ {d} : \E i \in DOMAIN w[p].responses :
          /\ ~ Has(w[p].responses[i], "value")
          /\ \E q \in Requirements(w[d]) :
               /\ q.id = w[p].responses[i].requirement
               /\ \E f \in {"anyOf", "allOf", "oneOf"} : Get(q, f, {}) # {}
  \/ /\ s = "cs_15349" /\ w[d].kind = "category" /\ d \in Listed
     /\ Get(w[d], "criteria", << >>) = None

-----------------------------------------------------------------------------
(* dateModified.  Most scripts give a change the moment at which they read *)
(* the document.  Some leave it alone; some put every moment into the one  *)
(* dict that all changes of the bulk refer to, or take a moment per group, *)
(* so that documents share it; and 12110 counts back from its start.       *)
Unstamped(s, kind, change) ==
  \/ s \in {"cs_11945", "cs_18754", "cs_18827"}
  \/ s = "cs_20381" /\ kind = "category" /\ "status" \in DOMAIN change.set
OneMoment(s, kind) == s \in {"cs_20491", "cs_20538"} \/ (s = "cs_20381" /\ kind = "category")

Stamp(change, at) == [change EXCEPT !.set = [dateModified |-> at] @@ @]
Stamped(kind, change) ==
  IF Unstamped(m, kind, change) \/ m = "cs_20892" THEN change
  ELSE Stamp(change, IF m = "cs_12110" THEN job.since - job.count ELSE clock + 1)

(* The bulk with the change c of d.                                        *)
Collect(d, c) ==
  LET pass  == Passes(m)[job.pass]
      entry == [d |-> d, rev |-> docs[d].rev, change |-> Stamped(pass.kind, c)]
      old   == IF OneMoment(m, pass.kind)
               THEN [i \in DOMAIN job.bulk |->
                       IF Unstamped(m, pass.kind, job.bulk[i].change) THEN job.bulk[i]
                       ELSE [job.bulk[i] EXCEPT !.change = Stamp(@, clock + 1)]]
               ELSE job.bulk
  IN Append(old, entry)

Written(bulk, bodies) ==
  [d \in DOMAIN bodies |->
     IF \E i \in DOMAIN bulk : bulk[i].d = d
     THEN Apply(bodies[d], bulk[CHOOSE i \in DOMAIN bulk : bulk[i].d = d].change) ELSE bodies[d]]
Stored(bodies) ==
  [d \in DOMAIN bodies |-> [body |-> bodies[d], rev |-> IF d \in DOMAIN docs THEN docs[d].rev ELSE 1]]

(* History: what the client will not be shown by the rule that a page has  *)
(* the documents after the offset.                                         *)
Followed == {d \in DOMAIN docs : docs[d].body.kind = Feed[m]}
Hides(bodies) ==
  LET Changed(d) == d \in DOMAIN docs => bodies[d] # docs[d].body
      at(d)      == bodies[d].dateModified
      listed     == {d \in DOMAIN bodies : bodies[d].kind = Feed[m]}
  IN {d \in listed : \/ Changed(d) /\ at(d) <= feed.offset
                     \/ \E e \in listed \ {d} : at(e) = at(d) /\ (Changed(d) \/ Changed(e))}
Store(bodies) ==
  /\ docs' = Stored(bodies)
  /\ feed' = [feed EXCEPT !.missed = @ \cup Hides(bodies)]
NothingStored == UNCHANGED <<docs, feed>>

-----------------------------------------------------------------------------
Init ==
  /\ m \in Scripts
  /\ \E w \in Worlds[m] :
       LET stamps == {w[d].dateModified : d \in DOMAIN w}
           last   == First(stamps, LAMBDA a, b : a >= b)
       IN /\ docs = [d \in DOMAIN w |-> [body |-> w[d], rev |-> 1]]
          /\ clock = last
          /\ feed = [offset |-> last, missed |-> {},
                     known |-> [d \in {e \in DOMAIN w : w[e].kind = Feed[m]} |-> w[d]]]
  /\ job = Off /\ runs = 0
  /\ edit = None /\ edits = 0
  /\ alone = TRUE

OfKind(kind) == {d \in DOMAIN docs : docs[d].body.kind = kind}
Entering(pass, run) ==
  [Off EXCEPT !.at = "pass", !.pass = pass, !.since = clock + 1,
              !.left = IF m \in Copying THEN Copies[run] ELSE OfKind(Passes(m)[pass].kind),
              !.seen = IF m = "cs_20381" THEN Bodies ELSE None,
              !.snap = IF InSession(m) THEN (IF pass = 1 THEN Bodies ELSE job.snap)
                       ELSE IF pass = 1 \/ EndsWithPass(m) THEN << >> ELSE job.snap,
              !.dirty = IF pass = 1 \/ EndsWithPass(m) THEN << >> ELSE job.dirty]

Start ==
  /\ job.at = "off" /\ runs < MaxRuns
  /\ runs' = runs + 1
  /\ job' = Entering(1, runs + 1)
  /\ clock' = clock + 1
  /\ alone' = TRUE
  /\ NothingStored
  /\ UNCHANGED <<m, edit, edits>>

Now      == Passes(m)[job.pass]
Grouped  == Now.how \in {"again", "skip"}
Full     == Len(job.bulk) = Now.size

(* Mutant: the last bulk, which is not full, is not written.               *)
OverUnflushed == job.left = {} /\ job.group = None
Over == job.left = {} /\ job.bulk = << >> /\ job.group = None
Flushing == job.at = "pass" /\ ~ Grouped /\ job.bulk # << >> /\ (Full \/ job.left = {})

(* What the script sees: 20381 has looked for the category that products   *)
(* move to at the beginning.                                               *)
Seen ==
  IF InSession(m) THEN job.dirty @@ job.snap
  ELSE IF m = "cs_20381"
  THEN [d \in DOMAIN docs |-> IF Now.kind = "product" /\ docs[d].body.kind = "category"
                              THEN job.seen[d] ELSE docs[d].body]
  ELSE Bodies

Fail ==
  /\ job.at = "pass"
  /\ IF m \in Copying THEN job.seen = None /\ Origins(m, Bodies) = {}
     ELSE IF Grouped THEN job.group # None /\ job.snap = << >> /\ Raises(m, Bodies, job.group)
     ELSE ~ Full /\ \E d \in job.left : Raises(m, Seen, d)
  /\ job' = Off
  /\ NothingStored
  /\ UNCHANGED <<m, clock, runs, edit, edits, alone>>

(* The script reads the next document.  17668 stops reading at an answer   *)
(* that it cannot convert; 18143 makes the category of a profile active,   *)
(* outside its transaction.                                                *)
ReadNext(d) ==
  LET w       == Seen
      change  == Change(m, job.pass, w, d, job.count)
      breaks  == m = "cs_17668" /\ Now.kind # "product" /\ Breaks(w, d)
      skipped == Empty(change) \/ breaks
  IN /\ job.at = "pass" /\ ~ Grouped /\ m \notin Copying /\ ~ Full /\ d \in job.left
     /\ ~ Raises(m, w, d)
     /\ job' = [job EXCEPT !.left  = IF breaks THEN {} ELSE @ \ {d},
                           !.bulk  = IF skipped THEN @ ELSE Collect(d, change),
                           !.count = IF skipped THEN @ ELSE @ + 1]
     /\ clock' = IF skipped THEN clock ELSE clock + 1
     /\ alone' = (alone /\ ~ breaks)
     /\ IF m = "cs_18143" /\ job.pass = 2 /\ d \notin Listed /\ Target \in DOMAIN docs
        THEN Store([Bodies EXCEPT ![Target].status = "active"])
        ELSE NothingStored
     /\ UNCHANGED <<m, runs, edit, edits>>

FlushBatch ==
  /\ Flushing /\ Now.how = "batch"
  /\ Store(Written(job.bulk, Bodies))
  /\ job' = [job EXCEPT !.bulk = << >>]
  /\ UNCHANGED <<m, clock, runs, edit, edits, alone>>

FlushOne ==
  /\ Flushing /\ Now.how = "plain"
  /\ Store(Written(<<Head(job.bulk)>>, Bodies))
  /\ job' = [job EXCEPT !.bulk = Tail(@)]
  /\ UNCHANGED <<m, clock, runs, edit, edits, alone>>

(* update_object; its 409 is caught and the profile passed over.           *)
ReplaceWhole ==
  LET entry == Head(job.bulk) IN
  /\ Flushing /\ Now.how = "document"
  /\ IF docs[entry.d].rev = entry.rev
     THEN LET body == Apply(docs[entry.d].body, entry.change) IN
          /\ docs' = [docs EXCEPT ![entry.d] = [body |-> body, rev |-> @.rev + 1]]
          /\ feed' = [feed EXCEPT !.missed = @ \cup Hides([Bodies EXCEPT ![entry.d] = body])]
     ELSE NothingStored
  /\ job' = [job EXCEPT !.bulk = << >>]
  /\ UNCHANGED <<m, clock, runs, edit, edits, alone>>

(* The first operation with the session begins the transaction.  A document*)
(* that was written since is a conflict, and the script ends.              *)
Conflict(snap) == \E i \in DOMAIN job.bulk : docs[job.bulk[i].d].body # snap[job.bulk[i].d]
FlushInTxn ==
  LET snap == IF job.snap = << >> THEN Bodies ELSE job.snap IN
  /\ Flushing /\ Now.how = "txn"
  /\ job' = IF Conflict(snap) THEN Off
            ELSE [job EXCEPT !.snap = snap, !.bulk = << >>,
                             !.dirty = [d \in {job.bulk[i].d : i \in DOMAIN job.bulk} |->
                                          Written(job.bulk, snap)[d]] @@ @]
  /\ NothingStored
  /\ UNCHANGED <<m, clock, runs, edit, edits, alone>>

(* A group: the cursor's document, the transaction's reads, its writes.    *)
PickGroup(g) ==
  /\ job.at = "pass" /\ Grouped /\ g \in job.left /\ job.group = None
  /\ job' = [job EXCEPT !.left = @ \ {g}, !.group = g, !.seen = docs[g].body]
  /\ NothingStored
  /\ UNCHANGED <<m, clock, runs, edit, edits, alone>>

ReadGroup ==
  LET g          == job.group
      w          == IF HeadReadBefore(m) THEN [Bodies EXCEPT ![g] = job.seen] ELSE Bodies
      members    == {d \in Members(m, w, g) : ~ Empty(GroupChange(m, w, g, d))}
      own        == HeadReadBefore(m)
      place      == CHOOSE f \in [members -> 1..Cardinality(members)] :
                      \A d, e \in members : f[d] = f[e] => d = e
      Entry(d)   == [d |-> d, rev |-> docs[d].rev,
                     change |-> Stamp(GroupChange(m, w, g, d), clock + (IF own THEN place[d] ELSE 1))]
  IN /\ job.at = "pass" /\ Grouped /\ job.group # None /\ job.snap = << >>
     /\ ~ Raises(m, w, g)
     /\ job' = [job EXCEPT !.snap = Bodies,
                           !.bulk = [i \in 1..Cardinality(members) |->
                                       Entry(CHOOSE d \in members : place[d] = i)]]
     /\ clock' = clock + Cardinality(members)
     /\ NothingStored
     /\ UNCHANGED <<m, runs, edit, edits, alone>>

WriteGroup ==
  /\ job.at = "pass" /\ Grouped /\ job.snap # << >>
  /\ \/ /\ ~ Conflict(job.snap)
        /\ Store(Written(job.bulk, Bodies))
        /\ job' = [job EXCEPT !.snap = << >>, !.bulk = << >>, !.group = None, !.seen = None]
     \/ /\ Conflict(job.snap) /\ NothingStored
        /\ job' = IF Now.how = "again" THEN [job EXCEPT !.snap = << >>, !.bulk = << >>]
                  ELSE [job EXCEPT !.snap = << >>, !.bulk = << >>, !.group = None, !.seen = None]
  /\ UNCHANGED <<m, clock, runs, edit, edits, alone>>

(* The category is read, and hidden by 18006: outside the transaction in   *)
(* which the copies are inserted.                                          *)
ReadOrigin ==
  /\ job.at = "pass" /\ m \in Copying /\ job.seen = None
  /\ \E c \in Origins(m, Bodies) :
       /\ job' = [job EXCEPT !.seen = docs[c].body]
       /\ IF m = "cs_18006" THEN Store([Bodies EXCEPT ![c].status = "hidden"]) ELSE NothingStored
  /\ UNCHANGED <<m, clock, runs, edit, edits, alone>>

InsertCopy(d) ==
  /\ job.at = "pass" /\ m \in Copying /\ job.seen # None /\ d \in job.left
  /\ job' = [job EXCEPT !.left = @ \ {d},
                        !.dirty = (d :> ([dateModified |-> clock + 1] @@ Copy(m, job.seen))) @@ @]
  /\ clock' = clock + 1
  /\ NothingStored
  /\ UNCHANGED <<m, runs, edit, edits, alone>>

(* The pass is over, and with it or with the script the transaction.       *)
EndPass ==
  LET last == job.pass = Len(Passes(m)) IN
  /\ job.at = "pass" /\ Over
  /\ IF last \/ EndsWithPass(m) THEN Store(job.dirty @@ Bodies) ELSE NothingStored
  /\ job' = IF last THEN [Off EXCEPT !.at = "done"] ELSE Entering(job.pass + 1, runs)
  /\ clock' = IF last THEN clock ELSE clock + 1
  /\ UNCHANGED <<m, runs, edit, edits, alone>>

(* Before its last run.                                                    *)
Die ==
  /\ job.at = "pass" /\ runs < MaxRuns
  /\ job' = Off
  /\ NothingStored
  /\ UNCHANGED <<m, clock, runs, edit, edits, alone>>

-----------------------------------------------------------------------------
(* A request of the API: it notes something in the document, and in each of*)
(* its requirements and responses.                                         *)
Edited(body, at) ==
  LET Noted(seq) == [i \in DOMAIN seq |-> [note |-> 1] @@ seq[i]]
  IN [f \in DOMAIN body \cup {"note"} |->
        CASE f = "note"         -> 1
          [] f = "dateModified" -> at
          [] f = "responses"    -> Noted(body[f])
          [] f = "criteria" /\ body[f] # None ->
                                   [i \in DOMAIN body[f] |->
                                      [body[f][i] EXCEPT !.requirements = Noted(@)]]
          [] OTHER              -> body[f]]

ApiRead(d) ==
  /\ edit = None /\ edits < MaxEdits
  /\ edit' = [d |-> d, body |-> docs[d].body, rev |-> docs[d].rev, at |-> clock + 1]
  /\ clock' = clock + 1 /\ edits' = edits + 1
  /\ NothingStored
  /\ UNCHANGED <<m, job, runs, alone>>

(* It waits for the script's uncommitted write of the document.            *)
ApiReplace ==
  /\ edit # None /\ edit.d \notin DOMAIN job.dirty
  /\ IF docs[edit.d].rev = edit.rev
     THEN LET body == Edited(edit.body, edit.at) IN
          /\ docs' = [docs EXCEPT ![edit.d] = [body |-> body, rev |-> edit.rev + 1]]
          /\ feed' = [feed EXCEPT !.missed = @ \cup Hides([Bodies EXCEPT ![edit.d] = body])]
          /\ alone' = FALSE
     ELSE UNCHANGED <<docs, feed, alone>>
  /\ edit' = None
  /\ UNCHANGED <<m, clock, job, runs, edits>>

(* Mutant: the page is not sorted.                                         *)
PageUnsorted ==
  \E d \in Followed :
    /\ docs[d].body.dateModified > feed.offset
    /\ feed' = [offset |-> docs[d].body.dateModified, missed |-> feed.missed \ {d},
                known |-> (d :> docs[d].body) @@ feed.known]
    /\ UNCHANGED <<m, docs, clock, job, runs, edit, edits, alone>>

(* A page of one document: the first after the offset, which is next.      *)
Page ==
  \E d \in Followed :
    LET at(e) == docs[e].body.dateModified IN
    /\ at(d) > feed.offset
    /\ \A e \in Followed : at(e) > feed.offset => at(d) <= at(e)
    /\ feed' = [offset |-> at(d), missed |-> feed.missed \ {d},
                known |-> (d :> docs[d].body) @@ feed.known]
    /\ UNCHANGED <<m, docs, clock, job, runs, edit, edits, alone>>

Next ==
  \/ Start \/ FlushBatch \/ FlushOne \/ ReplaceWhole \/ FlushInTxn
  \/ ReadGroup \/ WriteGroup \/ ReadOrigin \/ EndPass \/ Fail \/ Die \/ ApiReplace \/ Page
  \/ \E d \in job.left : InsertCopy(d)
  \/ \E d \in DOMAIN docs : ReadNext(d) \/ PickGroup(d) \/ ApiRead(d)

Spec == Init /\ [][Next]_vars

-----------------------------------------------------------------------------
(* Type invariant.  A response keeps a value or values, whatever the       *)
(* scripts and the API make of it in whatever order; and a requirement does*)
(* not get both an expected value and a list of them.                      *)
TypeOK ==
  /\ m \in Scripts /\ clock \in Nat /\ runs \in 0..MaxRuns /\ edits \in 0..MaxEdits
  /\ job.at \in {"off", "pass", "done"} /\ job.left \subseteq DOMAIN docs \cup UNION {Copies[run] : run \in 1..MaxRuns}
  /\ edit # None => edit.d \in DOMAIN docs
  /\ feed.offset <= clock + 2 /\ feed.missed \subseteq Followed
  /\ \A d \in DOMAIN docs : \A i \in DOMAIN Get(docs[d].body, "responses", << >>) :
       {"value", "values"} \cap DOMAIN docs[d].body.responses[i] # {}
  /\ \A d \in DOMAIN docs : \A r \in Requirements(docs[d].body) :
       ~ ({"expectedValue", "expectedValues"} \subseteq DOMAIN r)

(* Squash, 20892 and 13182 do not leave what they would leave alone: squash*)
(* makes a list of lists of its own result, 20892 may make new duplicates, *)
(* and 13182 removes the responses whose titles, which it has put there,   *)
(* are written like ids.  And copies are made again.                       *)
NotRepeatable == {"squash", "cs_20892", "cs_13182"} \cup Copying

(* A script that has finished, maybe after it died and was started again,  *)
(* has finished the job: when nothing disturbed its last run, no pass of it*)
(* would change a document.  It says nothing of a script that does not get *)
(* to its end: 15349 does not, once it has made a category's criteria None,*)
(* and if it died after that its profiles stay as they were.  The ids of a *)
(* new criterion, which 16971 and 18143 make at each run, are left out of  *)
(* the model: of these two it says that nothing else would change.         *)
Settled ==
  job.at = "done" /\ alone /\ m \notin NotRepeatable =>
    \A i \in DOMAIN Passes(m) : \A d \in OfKind(Passes(m)[i].kind) :
      IF Passes(m)[i].how \in {"again", "skip"}
      THEN \A e \in Members(m, Bodies, d) :
             Apply(Bodies[e], GroupChange(m, Bodies, d, e)) = Bodies[e]
      ELSE Apply(Bodies[d], Change(m, i, Bodies, d, 0)) = Bodies[d]

(* A script that reads in the transaction in which it writes never         *)
(* overwrites what the API wrote in between: what it makes of a document is*)
(* its change of the document as it is at that moment.                     *)
NothingOverwritten ==
  [][\A d \in DOMAIN docs :
       LET new == docs'[d].body
           Same(change) == new = Apply(docs[d].body, Stamp(change, new.dateModified))
       IN new # docs[d].body /\ docs'[d].rev = docs[d].rev =>
            /\ m \in {"cs_12095", "cs_12300", "cs_13182"} =>
                 Same(GroupChange(m, Bodies, job.group, d))
            /\ (m \in {"cs_13375", "cs_15522", "cs_18454"} \/ (m = "cs_15349" /\ new.kind = "profile")) =>
                 Same(Change(m, job.pass, Bodies, d, 0))]_vars

(* The client of the feed gets every document as it is now, or will get it *)
(* from a later page; but for changes with a dateModified that it has      *)
(* passed, or that two documents share.  Only the scripts named here make  *)
(* such changes while the API is idle.                                     *)
FeedShowsTheRest ==
  /\ \A d \in Followed : \/ Has(feed.known, d) /\ feed.known[d] = docs[d].body
                         \/ docs[d].body.dateModified > feed.offset
                         \/ d \in feed.missed
  /\ feed.missed # {} /\ edits = 0 =>
       m \in {"cs_11945", "cs_18754", "cs_18827", "cs_18143", "cs_18006", \* no dateModified
              "cs_12110", "cs_20892",                              \* one in the past
              "cs_20381", "cs_20491", "cs_20538",                  \* one for a bulk
              "cs_12095", "cs_12300", "cs_13182"}                  \* one for a group
=============================================================================
