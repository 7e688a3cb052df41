# Prozorro catalog: a verification project

TLA+ models of the market catalog (`src/src/catalog`, `src/src/cron`), model-checked with TLC, and
theorems about them checked by TLAPS. Paths in this file are relative to the repository unless they
begin with `tla/`.

The catalog is an aiohttp service over MongoDB. Several processes of it, and the nightly tasks, write
to one database with no transactions around a request: a handler is a coroutine that reads documents,
awaits other queries, and writes one document, or sometimes two. All that orders these steps is the
`_rev` of a document, a few unique indexes, and checks made by queries before a write. That is what
the models are about. Requests are taken to be handled by a single primary (the default
`READ_PREFERENCE`), where every database call is one atomic step.

## Inventory

| component | state | operations | hard behaviour | what makes it correct |
|---|---|---|---|---|
| document store (`db.py`, `utils.get_next_rev`) | a collection of documents with `_rev` | `read_object`, `insert_object`, `update_object`, `delete_one`, `bulk_write` of `$set` | read-modify-write over awaits; bulk writes that ignore `_rev`; documents without `_rev` | a request is atomic; no acknowledged change is lost; 409 only when another change won |
| vendors, their bans and documents (`handlers/vendor*.py`, `state/vendor*.py`) | vendor: identifier, `isActivated`, `status`, bans with a dueDate | POST, PATCH (activate), POST ban, uploads | identifier checked, then inserted; two administrators; uploads racing with the task; a ban starting on a leap day | bans are kept, one is in force at a time, status and activation agree |
| task `activate_banned_vendors` | the open cursor, the queued updates | nightly scan, then bulk write by `_id` | stale decisions; death half-way | an expired ban ends; a ban in force is shown |
| tags (`handlers/tags.py`) | tags by code; `tags` of categories and profiles | POST, PATCH, DELETE | deletion looks for users and then deletes; the code is reused by new tags | no reference to a missing tag; a tag keeps its identity |
| categories (`handlers/category.py`, `state/category.py`) | category: agreementID, status, unit, criteria, tags | POST, PUT, PATCH | the agreement is propagated to profiles before the category is written | profiles and category agree |
| profiles (`handlers/profile.py`, `state/profile.py`) | profile: fields copied from the category | POST, PUT, PATCH | copies of a category read earlier | as above |
| criteria, groups, requirements (`handlers/base_criteria.py`, `validations.py`) | nested in categories and profiles | POST, PATCH (DELETE in profiles) | rules across siblings: one of a classification, one group | a product that answers the requirements passes, no other does |
| products and vendor products (`handlers/product*.py`, `handlers/vendor_product*.py`, `state/product.py`) | product: status, expirationDate, responses | POST, PATCH, uploads | validated against a category read earlier; tasks that write by `_id` | an inactive product stays inactive |
| tasks `inactivate_products_task`, `related_profiles_task` | cursors, queued updates | nightly | as for the vendors' task | expired products become inactive; relatedProfiles converge |
| contributors and their bans (`handlers/crowd_sourcing/contributor*.py`) | contributor: identifier, bans per administrator | POST, POST ban, uploads | administrators competing; bans with and without dueDate | bans are kept, one in force per administrator |
| product requests (`handlers/crowd_sourcing/product_request.py`) | request: product, acception or rejection | submit, accept, reject | accepting writes two collections; competing reviews; a ban given meanwhile | reviewed once; the product of an accepted request, and no other, is on the market |
| bids crawler, prices (`crawler.py`, `prices.py`, `cron/calculate_price.py`) | product bids, prices per day | delivery, nightly calculation | duplicated and late bids; a day that is not over | a day's price stands for its bids |
| feeds (`db.paginated_result`) | dateModified of every collection | list with offset | commits later than their dateModified; equal dates | a reader sees every change |
| migrations (`migrations/*.py`) | the cursor, the bulk, the transaction | one script at a time, run by hand, beside the API | reads before and outside the transaction; `$set` by `_id`; death and a second run | the job is done, nobody's edit is lost, the feed shows it |
| sessions, auth, images, documents, search, offers, models, serializers | | | | not modelled, see below |

Interaction: handlers call `state/*` and `validations.py`, which query other collections (a profile
its category, a product its category and vendor, a product request its contributor and category);
nothing is locked, and no callback or message connects the processes, only the database does. The
nightly tasks are processes of their own.

The hazards, each at its line, are in `PROJECT.json` under `hazards`, with the properties that
would catch them, or a note that says why none does.

## Modules

| module | what it models |
|---|---|
| `Documents` | one collection, requests (`Read`, `Replace`, `Conflict`, `Insert`, ...) and bulk jobs (`JobScan`, `JobWrite`); a document is the set of requests whose changes it carries |
| `AtomicDocuments` | what the store promises: each request is one atomic step on one document, or none |
| `DocumentsProofs`, `VendorsProofs`, `TagsProofs`, `CrowdsourcingProofs`, `ProductsProofs`, `RelatedProfilesProofs`, `CatalogueProofs`, `PricesProofs` | the theorems about the module each is named after, with their inductive invariants |
| `Vendors` | vendors, activation, bans, uploads, the clock, and the task that ends bans |
| `Tags` | tags and the references to them in categories and profiles |
| `Crowdsourcing` | contributors, bans, product requests, and the products inserted for them |
| `Moderation` | what moderation promises: absent, submitted, then rejected, or accepted and published, each once |
| `Products` | products and vendor products, their expirationDate, PATCH, uploads, the vendor's bans, the clock, and the task that closes expired products |
| `RelatedProfiles` | the task that fills in relatedProfiles, among requests that move and change products and edit profiles |
| `Requirements` | no state: the validators of requirements (`models/criteria.py`), of answers and of a profile's requirements against its category's (`validations.py`), and the matching of products with profiles (`cron/related_profiles_task.py`) |
| `Catalogue` | a category, its profiles and products: the requests that edit criteria, groups and requirements, the answers of products and of product requests, which become products' when they are accepted, and the agreement a category hands on to its profiles |
| `Prices` | the crawler's deliveries, and the nightly task that prices the products' bids day by day |
| `Migrations` | no state: what each script of `migrations/` sets and unsets in a document |
| `Migrating` | a script on its way through its passes, bulks and transactions, a request of the API, and a reader of the feed |
| `MCDocuments`, `MCVendors`, `MCTags`, `MCCrowdsourcing`, `MCProducts`, `MCRelatedProfiles`, `MCCatalogue`, `MCPrices`, `MCMigrating` | the instances TLC checks |

`Catalogue` and `MCRelatedProfiles` compose with `Requirements`: the first validates with it, the second
computes from it which answers fit which profile, so that `RelatedProfiles` runs the task's own rule.
`Migrating` composes with `Migrations`. No module has all of the system in it: what one has of another
is said below.

How actions follow the code: a database call and what the coroutine does until the next await is one
action. `read_and_update_x` becomes a reading action that prepares the document the handler is going
to write, and `Replace` or `Conflict` when `update_object` runs; a validation by a query between them
(`validate_vendor_identifier`, `validate_tags_exist`) is an action of its own, since others may write
before and after it. Each request is handled once, so request names serve as uuids: of documents, of
the revisions written, of bans and products. That a revision may be so named is what `Documents`
establishes: `Documents` has revisions as the code makes them, a number and a uuid, and the other
modules rely on `RevisionNamesContent`. Requests that are refused for reasons outside a module (a
token, an accreditation, a missing document) end in `Reject`, or are left out where they would
change nothing.

Choices worth knowing:

- *Time*. A request uses two clocks: `context.get_now`, the start of the request, and `utils.get_now`,
  now. In `Vendors` a ban's dueDate counts from the tick in which the vendor was read. dateModified is
  in `Migrating` only, where its order decides what a reader of the feed is shown; every moment that
  becomes a dateModified is a number of its own there, unless the code uses one moment twice.
- *Python values*. In `Requirements` a value is a type and a number: `True` is an `int` to `isinstance`,
  `1` is no `bool`, `1 == 1.0 == True`, and a bound of `0` is false. A dict is a record whose DOMAIN is
  its keys. A pattern is the set of the values whose text it matches, and a moment (`datetime`) is a
  text.
- *Criteria*. A tree is a function from criterion ids to groups to requirements, named after the
  requests that made them (uuid4). `Catalogue` has the agreement and the criteria of a category or a
  profile, whose status, unit and images are in none of its rules, so that a PATCH of them is `Touch`;
  and the answers and the status of a product, since `ProductState.on_patch` validates the answers only
  of one that stays on the market.
- *Bids*. A bid is usable or not (hryvnias, no VAT, the category's unit); a date is a number, of which
  `PerDay` make a day; amounts are integers and quartiles are kept times four, so that they stay
  integers.
- *Migrations*. The tables of a script (ids of categories, titles, classifications, texts) are
  constants: `Listed`, `Target`, `NewClass`. A criterion has one group there: the scripts that look into
  groups treat each alike. What a script does to documents is an operator of its name in `Migrations`;
  how it gets there (`Passes`, `InSession`, `EndsWithPass`, `HeadReadBefore`) is in `Migrating`. A
  cursor's read of a document and the queries the script makes for it (its category, its profile) are
  one step.
- *Revisions of bulk writes*. A `$set` of a task or of the agreement propagation changes the content and
  leaves `_rev`. `Documents` keeps such marks apart from the changes of requests, and promises nothing
  about them: a replace prepared earlier does write the old value back. `Vendors` follows what this does
  to `status`.
- *Legacy documents*. Documents stored without `_rev` (by `migration.py`, or before `_rev` was
  introduced) are replaced unconditionally the first time; `NoEditLost` excludes them and
  `RevisionNamesContent` does not.
- *History*. `Tags.since` is a history variable: what others wrote or deleted since the last query of a
  request. `Products.closed` and `Products.overtaken` are others: the products a request has closed, and
  those a request has written while the task had them queued. So are `own`, `late` and `excused` of
  `Catalogue`, which say whom `FollowersAgree` excepts, and `alone` and `feed.missed` of `Migrating`. What
  a night owes is one in each module of a task: `owed` of `Vendors` and `Products`, what had ended when
  the task began and no request has written since; `untouched` of `RelatedProfiles`, the products that
  no request, nor an edit of a profile of their category, has touched since; `owed` of `Prices`, the
  bids whose days the run has still to price. No guard reads them.
- *What one module sees of another*. `Products` has of a vendor only the dueDate of its last ban
  (`OneBanInForce` of `Vendors` says that one is enough). `RelatedProfiles` has editing a profile as one
  step, which `ImplementsAtomic` justifies: the task never writes profiles. That a profile fits a
  product is a relation there, which the instance computes with `Requirements!RelatedTo`. `Catalogue`
  has of a product request its answers; that it is reviewed once is a matter of `Crowdsourcing`. And it
  has neither the task that closes products, which changes no answers, nor a product's move to another
  category, whose requirements would then be the ones it is validated against. `Migrating` has of the
  API one request that reads a document and replaces it with a note in all its parts.

## Runs

| run | instance | states | what it shows |
|---|---|---|---|
| `documents` | 2 documents, 1 of them legacy; 3 requests; 1 job | 10151 | every request is atomic (`ImplementsAtomic`), no acknowledged edit is lost (`NoEditLost`), equal revisions mean equal contents (`RevisionNamesContent`), a 409 has a cause (`ConflictsJustified`) |
| `vendors` | 2 vendors, 1 identifier, 2 requests, 4 ticks, a ban of 1 tick, the task dies at most once | 58648 | `StatusMatchesActivation`, `OneBanInForce`, `BansKept`, `OnlyCronLiftsBan`, `NightLiftsBans`: a night leaves no ban that was over, unless a request wrote the vendor meanwhile; and `ExpiredBanLifted` (liveness) |
| `vendor_ban_shown` | the same | violated | `BanShownWhileInForce`: the task reads a vendor whose ban is over, the vendor is banned again, the task writes "active" |
| `tags` | 2 codes, 2 names, a category, a profile, 3 requests | 172472 | `DanglingOnlyByRace`: a reference to a missing tag takes a write or a deletion between another request's query and its write; `TagKeepsIdentity` |
| `tag_dangling` | the same | violated | `NoDanglingTag`: the race of the previous line happens |
| `crowdsourcing` | a contributor stored earlier, perhaps with a product request; 2 administrators and categories; 3 requests; 2 ticks | 88676 | `ImplementsModeration`, `ProductsOfAccepted`, `OneBanPerAdministrator`, `BansKept`, `NoSubmissionUnderKnownBan` |
| `products` | a product, stored earlier or created, a vendor's or not; 2 requests, 4 ticks, a year of 2 ticks, the task dies at most once | 181146 | `ClosedByRequestIsFinal`, `ClosedHasExpired`, `VendorTermKept`, `NightClosesExpired`: a night leaves nothing on the market that had expired, unless a request wrote it meanwhile; and `ExpiredProductClosed` (liveness) |
| `related_profiles` | a product, 2 categories, one with a profile; 2 answers, 2 demands, 2 requests, the task dies at most once | 203654 | `NightSettles`: a night leaves relatedProfiles right wherever nobody wrote; `NothingForNothing`: nothing right and untouched is written; `RelatedProfilesConverge` and `QuietNights` (liveness) |
| `catalogue` | a category with three requirements (a number with a pattern, texts from a list, a moment), a profile or none, a product or none, a product request or none, 3 requests, 2 agreements | 438738 | `ProfileNarrower`, `ArchivedNotAnsweredAnew`, `FollowersAgree` |
| `prices` | 2 products on pages of one, 4 bids with 8 contents, 4 days of 2 dates, windows of 3 days, a fault | 61037 | `WindowComplete`, `DaysIncrease`, `NightPrices`: a run that goes to its end has priced all days it began with, but of products that failed; and `BidPriced` (liveness) |
| `migrations` | each of the 57 scripts, on one or two databases made for it; bulks of 2, the script started twice, one request of the API | 596509 | `Settled`, `NothingOverwritten`, `FeedShowsTheRest` |
| `accepted_product` | that of `crowdsourcing` | violated | `AcceptedHasProduct`: the handler dies between its two writes, and the product is never inserted |

`vendors` (and so `vendor_ban_shown`), `products`, `related_profiles` and `prices` also show that there
is no deadlock: the tasks are started for ever. The other runs have `CHECK_DEADLOCK FALSE`: each request
of an instance is handled once, and a script finishes, so a state in which all is answered and done has
no successor.

`documents`, `catalogue`, `prices` and `migrations` also check `TypeOK`. The type invariants of `Vendors`,
`Tags`, `Crowdsourcing`, `Products` and `RelatedProfiles` say nothing but types; they are proved for
every instance (`TypeCorrect`), and the runs leave them out.

Why the bounds are enough for these questions: a lost update or a competing check needs two requests;
the third one lets a request meet what two others left (a revision two others fought over, a tag deleted
and created anew, a review after a submission). In `Vendors`, a ban lasts one tick of four, so that a
ban, its end, the task and a second ban fit, with a 29th of February among the ticks; one vendor could
not have its identifier taken by another, so there are two. `MaxNow`, `MaxDeaths` and `MaxFaults` are
guards that bound the clock and the deaths and failures of the tasks; beyond the names of `Migrating`
given below, nothing else is bounded. `Products` and `RelatedProfiles` say nothing that relates two
products, so one is enough, with two requests that compete for it; in `Products` the four ticks let its
date pass, the task close it, a stale write put it back and another night follow. `Terms` are the dates
a client may choose: one that passes and one that does not. In `RelatedProfiles` a category with and one
without a profile let a product move into either while the task is in either, and be queued twice. Where
requests are interchangeable (`documents`, `tags`, `crowdsourcing`, `catalogue`) the instances use their
symmetry; `vendors`, `products` and `related_profiles`, with their liveness properties, do not.

In `Catalogue` the instance posts and patches requirements of several kinds (bounds inside, outside and
dropped; texts listed or not; a title that is taken; an archived one), so that a PATCH of the category
can fall between any two reads of a request on the profile or the product; three requests make a
propagation, a profile's stale replace and a third write overlap. Narrowing is compared over `Probes`,
which has a value on either side of every bound and lists of two texts. In `Prices` the bids of one
product may come in any order on either side of a midnight and a priced day, with enough days for a
window to begin after the first of them; the second product makes the task turn a page. In `Migrating` a
script gets documents it must change, documents it must leave alone, more of them than a bulk holds, and
those it looks up; `MaxRuns` and `MaxEdits` are the bounds.

Fairness: only that of the nightly tasks, `Nightly` in `Vendors` and `Products`, `WF_vars(CronStep)` in
`RelatedProfiles` and `WF_vars(TaskStep)` in `Prices`. cron starts each task every night
(`src/src/cron/cron.txt`), its steps go on unless it dies, and it dies at most `MaxDeaths` times.
Nothing is assumed of clients: no request needs to be continued or answered, nor of the crawler; the
clock need not tick, but in `Prices`, whose days pass. `ExpiredBanLifted`, `ExpiredProductClosed` and
`RelatedProfilesConverge` hold because every request can write back what it read at most once. That a
night ends is all they need fairness for: what a night has done at its end is an invariant of its own
(`NightLiftsBans`, `NightClosesExpired`, `NightSettles`, `NightPrices`), under no fairness at all.

What `products` does not promise is worth knowing: a PATCH or an upload that read a product before the
task closed it, and is written after, puts it back on the market until the next night, since the task's
`$set` leaves `_rev` alone. `ClosedByRequestIsFinal` is therefore about products that a request closed.
Likewise `ClosedHasExpired` excepts the products a request wrote while the task had them queued: a new
expirationDate then does not save the product. In `RelatedProfiles`, a product may for a night name a
profile it never fitted, when both were edited between the task's two reads.

What `catalogue`, `prices` and `migrations` do not promise:

- `FollowersAgree` excepts the profiles that were given an agreement of their own, those that a PATCH of
  the category moved and then failed (its tags are validated, and its replace is made, after the
  profiles are written), and those that a request wrote which had read something before a propagation
  was done: the propagation's `$set` leaves `_rev` alone, so a profile's replace writes the old
  agreement back without a 409. Nothing mends such a profile later: the next propagation passes over
  profiles whose agreement is not the one the category had.
- `ProfileNarrower` speaks of the category as the request read it: the category may be patched
  afterwards, and its profiles are then wider than it. And it excepts what
  `validate_profile_requirements` (`src/src/catalog/validations.py:148-198`) does not compare: a pattern
  of the category's requirement, which a profile need not repeat, and whether a moment is one value or,
  in the profile, one of a list. `Narrower` names both; without either exception TLC finds a profile
  that is wider than its category.
- `ArchivedNotAnsweredAnew` speaks of products on the market and of product requests. A PATCH that takes
  a product off the market (`inactive` or `hidden`) is not validated (`src/src/catalog/state/product.py:40`)
  and may store any answers, to archived requirements and to titles the category does not have; the
  second part of the property is that no request puts such a product back. And a product request is
  validated when it is submitted, not when it is accepted: the product it becomes answers what the
  category asked for then, whatever was archived since. The property excepts this one way of gaining an
  answer, and what follows on it is validated again.
- `BidPriced` (again and again nothing is missing) excepts the bids of which some product had got a price
  of a later date before: the task goes by the last price of all. For the same reason `NightPrices` is
  about the bids from that date on. A day may be priced before it is over, if the product has an older bid
  too, and it is not priced again.
- `Settled` excepts `squash_profile_criteria` (a second run merges requirements of its own result),
  `cs_20892` (moving a dateModified may meet another one), the three scripts that insert copies of a
  category, and `cs_13182`: what its `check_uuid` takes for an id is any Latin text of up to 32
  characters, so that a title it has put into a response is removed with the response at the product's
  next profile, or when the script is run again. It speaks of a script that gets to its end.
  `cs_15349` may not: it writes the category outside the transaction, with None for criteria in which
  there is no minimum to change, and if it dies after that, every later run raises TypeError on that
  None before it reaches a profile. The ids that `cs_16971` and `cs_18143` make for a criterion, anew at
  each run, are left out of the model: of these two it says that nothing else would change.
- `NothingOverwritten` holds for the scripts that read in the transaction they write in: `cs_12095`,
  `cs_12300`, `cs_13182`, `cs_13375`, `cs_15349` (profiles), `cs_15522`, `cs_18454`. All the others may
  write an older content over an edit that the API acknowledged in between, since they write by `_id`
  alone: TLC finds it when the property is asked of them.
- `FeedShowsTheRest` lists the scripts whose changes a reader may never be shown although the API is
  idle: they set no dateModified, or one in the past, or one that several documents share (`$gt` then
  skips what a page boundary has cut off, which is why `cs_20892` was written).

## Findings

Three runs end in a violation of what the repository says of itself, listed in `PROJECT.json` under
`findings`: the ban hidden by the task, the tag deleted in use, and the accepted request without a
product. The first and the last would be mended by a condition in the task's filter (`_rev`, or
`bans` as read) and by inserting the product before the review is stored.

Met on the way and not stated by a document or a test that a run could refute, so the first two are only
told here and the others are hazards with a note: `cs_20381_update_loc_categories_fields.py:69` sends
one `UpdateOne` for three ids and hides one category; a localization criterion with two groups may be
given another classification, which nothing that reads the groups minds; a minimum or maximum of 0
escapes `validate_max_min_range`; a second run of a script that copies a category copies it again;
`cs_13182_product_requirements_id_to_title.py:119` removes responses whose Latin titles look like ids to
it, though it has put them there itself; `cs_15349_update_localization_2024.py:95` cannot be run again
after the None it may store for a category's criteria. Nor is it said anywhere whether a profile should
repeat the pattern of its category's requirement: `validate_profile_requirements` does not ask for it.

## Proofs

Eight modules hold theorems; every safety property of the runs is proved but those of `Migrating`. All
but `NarrowingTheorem` are of the form `Spec => []Inv` or `Spec => ActionProperty`, for any sets of
documents, requests and names, any clock and any bounds. What they assume is what the modules ASSUME,
which TLC evaluates on each run: that the bounds and lengths are numbers, that sets that name different
things are disjoint, and that `Nil` is none of the values it stands beside; and where named below, more.

Every module has an inductive invariant, `IInv`, and three lemmas: `InitIInv`, `IInvStep` (a step per
action), `Inductive`. The modules of the tasks have a second one on top of it, `NightOK`, for what a
night owes. TLC has checked each of them on the instance of the run. The theorems follow from them. In
each, the property itself is not inductive for the same reason: it speaks of what is stored, and what is
stored next is what a request, or the task, has prepared. So `IInv` says of each request in progress how
its draft stands to the stored document, in particular *as long as the revisions match*.

**Documents** (assumes also that legacy documents are documents): `TypeCorrect`; `RevisionTheorem`
(`RevisionNamesContent`); `NoEditLostTheorem` and `ConflictsTheorem`, action properties; `Refinement`
(`ImplementsAtomic`). `RevisionNamesContent` says nothing of how a document comes by its revision, so a
step could store a revision some copy has seen with other content. `IInv` adds that. Every stored
document and every copy held by a request is `Sound`: a revision that a request wrote comes with that
request's change, one that no request wrote comes with no change at all (`Headed`), every change in it
was answered "ok" (`Acknowledged`), and only a legacy document may lack a revision. Every copy `Agrees`
with the document it was read from: equal revisions mean equal changes, and a document that has no
change the copy lacks still has the copy's revision. `Acknowledged` is what makes a new token fresh (the
request writing it is not yet answered, so no stored document or copy holds its change). `StoreStep`
shows that a request's write keeps all this; `ReplaceKeepsEdits` derives that a replace that matches
adds to the edits it found, which gives both action properties and, with the types, the simulation step
of `StepRefinement`.

**Vendors** (a ban lasts at least a tick): `TypeCorrect`, `StatusTheorem` (`StatusMatchesActivation`),
`OneBanTheorem` (`OneBanInForce`), and the action properties `BansKeptTheorem`, `OnlyCronTheorem`. A
draft that matches `Extends` the stored vendor: it has its bans, its activation, and its status unless
the task lifted the ban meanwhile, by _id and under the same revision. That a vendor in the task's queue
is activated makes the task's "active" agree with `isActivated`; a draft between its activation and its
status ("verify") is the one place where the two may disagree. `NightLiftsTheorem` (`NightLiftsBans`):
whatever a night owes is active again, or queued, or not yet read, and no clock brings a ban back.

**Tags** (codes, categories and profiles are different things): `TypeCorrect`; the action properties
`IdentityTheorem` (`TagKeepsIdentity`) and `DanglingTheorem` (`DanglingOnlyByRace`). `IInv` bounds what
may have happened since a query: every user of a tag about to be deleted is in the history `since`
(`Clear`), and so is every missing tag about to be written, or the document that had it (`Reckoned`).

**Crowdsourcing** (each category has an administrator; contributors stored earlier are not named after
requests): `TypeCorrect`, `ProductsTheorem` (`ProductsOfAccepted`), `OneBanTheorem`
(`OneBanPerAdministrator`); the action properties `BansKeptTheorem`, `KnownBanTheorem`
(`NoSubmissionUnderKnownBan`); and `ModerationTheorem`, the refinement of `Moderation`. A revision is
the request that wrote it, and a request in progress has written none (`Settled`, `Unborn`), so that a
draft that matches is a draft of what is stored: it holds its bans, or it reviews a request that is not
reviewed (`ReviewDraft`), and a handler about to publish has its review stored (`Accepted`).

**Products** (terms, the year and bans are numbers): `TypeCorrect`, `ClosedFinalTheorem`
(`ClosedByRequestIsFinal`), `ClosedHasExpiredTheorem` (`ClosedHasExpired`), and `VendorTermTheorem`, an
action property. The task's writes leave the revision alone, so a matching draft need not be of the
stored status; `Continues` says what it still is of: it does not reopen what a request closed, nor
change the date of a vendor's product on the market. `QueueOK` says that what is queued has expired
unless a request has `overtaken` the task. `NightClosesTheorem` (`NightClosesExpired`) is the argument of
the vendors' task.

**RelatedProfiles** (a profile's category is one, the relation is between answers and demands):
`TypeCorrect`: what is queued and what requests prepared is of products that are still stored.
`NightsSettle` (`NightSettles`) and `NothingWrittenForNothing` (`NothingForNothing`) need to know where
the task is with each untouched product. It is right, or its category is still to be read, or it is in
the cursor, or it is queued (`OwedOK`); what the task knows of a category's profiles is still true for
the untouched products in its cursor (`ReadOK`); and one that is queued is not right yet, is queued once,
with what it should have, and is not to be read again (`QueuedOK`). The last is what makes the bulk
write of a night that took long harmless.

**Catalogue** (`FirstAssumption`: the criteria a database begins with are well formed, as the code's
validators leave them; `ProbesAssumption`: what narrowing is compared over are responses):
`TypeCorrect`, `FollowersTheorem` (`FollowersAgree`); the action properties `ArchivedTheorem`
(`ArchivedNotAnsweredAnew`), which needs that a draft of a product that still matches has the status of
what is stored, and `NarrowerTheorem` (`ProfileNarrower`); and `NarrowingTheorem`, which is
about `Requirements` alone: for every requirement of a profile that `validate_profile_requirements` lets
pass, and every response at all, what the profile's requirement accepts the category's accepts, but for
the two exceptions named above. TLC compares the two over a few probes; the theorem is by cases on the
bounds and lists as Python has them (a bound of 0, `True` equal to 1). The first part of the module
shows what the edits of a tree keep (`StaysWellFormed`): classifications unique, places named once.
`FollowersAgree` needs most of `IInv`: a document read has the stored revision only if it is the same
document, but for profiles, which propagations write (`ReaderOK`); a reader that is not `late` began
when nothing was being propagated and saw the agreement the category still has (`FreshOK`); and a
propagation that is alone and whose revision still matches has moved exactly the profiles that have left
its queue (`MoverOK`).

**Prices** (`BidsAssumption`: finitely many bids, of dates and amounts that are numbers): `TypeCorrect`,
with the order of the quartiles; the action properties `WindowTheorem` (`WindowComplete`) and
`DaysTheorem` (`DaysIncrease`). The quartiles need that `Amounts` sorts any finite sample
(`AmountsSorted`, from `Middle`: the least amount with i amounts up to it has fewer than i below it),
and that `statistics.quantiles` interpolates between neighbours (`Neighbours`, `Between`). The greatest
of a finite set is found with well-foundedness of the strict subset ordering (`Foremost`), since the
induction theorems cannot be used. `WindowRead` is the arithmetic of the window: a day after the last
priced one, less `DaysBack`, begins no earlier than the first bid that is read. `DaysIncrease` needs
that the whole plan, not only the next price, is later than all prices of its product and has one price
a day (`PlanOK`): `Insert` takes the earliest, and the rest stay later. `NightPricesTheorem`
(`NightPrices`) is about paging with an offset over a result that grows: a product that is owed a price
is on the rest of the page or at a place that no page has reached (`Awaited`), since deliveries and the
clock only move it back (`PlaceGrows`); a page with a product beyond it is full, so that another follows
(`PageFull`, which counts the places, `PlacesTaken`); and when its turn comes the day is in its plan
(`PlanReaches`), because at the beginning the last price of all was not later than the bid, so that the
product's own last price was of an earlier day.

Only model-checked: `TypeOK`, `Settled`, `NothingOverwritten` and `FeedShowsTheRest` of `Migrating`. They
are about 57 scripts one by one, each an operator that merges and cuts records of any shape (`@@`,
functions with a computed DOMAIN), and `Settled` composes several of them; the prover sees nothing in
such a record. And, as liveness under fairness is beyond the prover: `ExpiredBanLifted`,
`ExpiredProductClosed`, `RelatedProfilesConverge`, `QuietNights` and `BidPriced`. Of each of these the
part that is about one night is proved, as said above; what is left to TLC is that nights end, and that
requests stop undoing what a night has done.

## Not modelled

- *Sessions* (`middleware.py`, `wait_until_cluster_time_reached`): they matter when reads go to
  secondaries, which the default configuration does not do.
- *Authentication, accreditation, tokens*: decide only whether a request is refused.
- *Validation models and serializers* other than those of requirements: shapes of inputs and outputs.
- *Search, offers, images, general endpoints*: they only read, or write files outside the database.
- *The document service*: an external service; a failed call is a refusal.
- *Feeds backwards*: `descending` pages use `$lt`, and a reader of them does not follow changes.
- *A full recalculation of prices that overlaps the nightly task*: it is run by hand; two runs at once
  would insert prices twice, which the code has no guard against.
- *The creation of the tag* in `cs_21351`: a document of a collection that no pass reads.
- *Analyzers, seed, import*: an analyzer only reads; seed fills an empty database; the import's
  documents without `_rev` are the legacy ones of `Documents`.

## Plan

In this order, the most important behaviour first:

1. done: `Documents`, `AtomicDocuments`, `DocumentsProofs`; `Vendors`; `Tags`; `Crowdsourcing`,
   `Moderation`.
2. done: `Products` and `RelatedProfiles`.
3. done: `Requirements` and `Catalogue` (with the agreements), `Prices`, `Migrations` and `Migrating`
   (with the feed).
4. done: proofs of every invariant, action property and refinement of `Documents`, `Vendors`, `Tags`,
   `Crowdsourcing`, `Products`, `RelatedProfiles`, `Catalogue` and `Prices`.
5. done: what one night promises, as invariants of `Vendors`, `Products`, `RelatedProfiles` and `Prices`,
   and their proofs.

`Migrating` stays model-checked. What could be proved for any script is the first half of
`FeedShowsTheRest` (the client has a document, will get it, or `missed` names it) and
`NothingOverwritten` for the scripts whose pass reads in the transaction; the rest takes each script's
operator.
