------------------------------- MODULE Prices -------------------------------
(***************************************************************************)
(* Bids on products, which the crawler copies from tenders (crawler.py),   *)
(* and the prices that a nightly task derives from them (prices.py,        *)
(* cron/calculate_price.py).                                               *)
(*                                                                         *)
(* The task looks for the last price there is.  It goes through the        *)
(* products that have a bid from that date up to midnight, a page after    *)
(* another; for each it reads the bids since shortly before the last price *)
(* of the product and inserts a price for every later day that has bids,   *)
(* with the quartiles of the amounts of the last DaysBack days.  The       *)
(* crawler goes on meanwhile, and delivers tenders late or again.          *)
(*                                                                         *)
(* A date is a number; PerDay of them make a day.  Products are numbers, in*)
(* the order of their _id's.                                               *)
(***************************************************************************)
EXTENDS Integers, FiniteSets, Sequences

CONSTANTS Bids,       \* <<tender, bid, item>>: the key of a bid's item
          Products,   \* _id's that bids say they are about
          Contents,   \* Contents[k]: what a delivery may say of k
          PerDay,     \* dates in a day
          DaysBack,   \* days_back of calculate_price_for_product
          BatchSize,  \* batch_size of calculate_price
          MaxNow,     \* bound on the clock
          MaxFaults,  \* bound on the products that fail and the runs that die
          Nil

ASSUME NumbersAssumption ==
  /\ Products \subseteq Nat /\ MaxNow \in Nat /\ MaxFaults \in Nat
  /\ {PerDay, DaysBack, BatchSize} \subseteq Nat \ {0}

(* What product_bids keeps of a bid, with a date of the clock.             *)
ProductBid == [product : Products, date : Nat, amount : Int, usable : BOOLEAN]

ASSUME BidsAssumption ==
  IsFiniteSet(Bids) /\ \A k \in Bids : Contents[k] \subseteq ProductBid
ASSUME NilAssumption == Nil \notin Nat /\ \A k \in Bids : Nil \notin Contents[k]

VARIABLES now,     \* the time
          bids,    \* bids[k]: product_bids, what was stored of k, or Nil
          prices,  \* the collection of prices
          task,    \* the phase of the task
          start,   \* the date of the last price when it began, or Nil
          skip,    \* products it has paged over
          page,    \* products of the page that are still to be done
          full,    \* the page has BatchSize products: another will follow
          plan,    \* prices still to be inserted for the product at hand
          faults,  \* failures so far
          owed     \* history: bids whose days this run still has to price

taskVars == <<task, start, skip, page, full, plan>>
vars     == <<now, bids, prices, taskVars, faults, owed>>

Day(date) == date \div PerDay
Stored    == {k \in Bids : bids[k] # Nil}

(* The greatest of a set of dates, or Nil; the place of x in the order of S*)
Latest(dates) == IF dates = {} THEN Nil ELSE CHOOSE d \in dates : \A e \in dates : e <= d
Place(x, S)   == Cardinality({y \in S : y < x}) + 1

Init ==
  /\ now = 0 /\ faults = 0
  /\ bids = [k \in Bids |-> Nil]
  /\ prices = {}
  /\ task = "off" /\ start = Nil /\ skip = 0 /\ page = {} /\ full = FALSE /\ plan = {}
  /\ owed = {}

Tick ==
  /\ now < MaxNow
  /\ now' = now + 1
  /\ UNCHANGED <<bids, prices, taskVars, faults, owed>>

(* process_tender, for one item of one bid: the date is the beginning of   *)
(* the award period, however late the tender is delivered; and because of  *)
(* the unique index a bid that is there already stays as it is.            *)
Deliver(k, bid) ==
  /\ bid.date <= now
  /\ bids' = IF k \in Stored THEN bids ELSE [bids EXCEPT ![k] = bid]
  /\ UNCHANGED <<now, prices, taskVars, faults, owed>>

-----------------------------------------------------------------------------
(* statistics.quantiles(n=4), times four, of a sorted list of three at     *)
(* least; shorter lists have cases of their own.                           *)
Quantile(amounts, i) ==
  LET n     == Len(amounts)
      at    == i * (n + 1)
      j     == IF at \div 4 < 1 THEN 1 ELSE IF at \div 4 > n - 1 THEN n - 1 ELSE at \div 4
      delta == at - 4 * j
  IN amounts[j] * (4 - delta) + amounts[j + 1] * delta

(* Mutant: the longer rule for two amounts as well, from the wrong end.    *)
QuartilesSwapped(amounts) ==
  IF Len(amounts) = 1 THEN [i \in 1..3 |-> 4 * amounts[1]]
  ELSE [i \in 1..3 |-> Quantile(amounts, 4 - i)]

Quartiles(amounts) ==
  IF Len(amounts) = 1 THEN [i \in 1..3 |-> 4 * amounts[1]]
  ELSE IF Len(amounts) = 2 THEN <<4 * amounts[1], 4 * amounts[1], 4 * amounts[2]>>
  ELSE [i \in 1..3 |-> Quantile(amounts, i)]

(* The amounts of some bids, sorted: amount a is at i if fewer than i bids *)
(* are below it, and not fewer are not above.                              *)
Amounts(sample) ==
  [i \in 1..Cardinality(sample) |->
     CHOOSE a \in {bids[k].amount : k \in sample} :
       /\ Cardinality({k \in sample : bids[k].amount < a}) < i
       /\ Cardinality({k \in sample : bids[k].amount <= a}) >= i]

(* find_last_calculated_price and find_last_price_by_product.              *)
LastPrice   == Latest({x.date : x \in prices})
LastOf(p)   == Latest({x.date : x \in {y \in prices : y.product = p}})

(* Mutant: only the bids since the last price are read.                    *)
BidsOfSince(p) ==
  {k \in Stored : /\ bids[k].product = p /\ bids[k].usable
                  /\ LastOf(p) # Nil => bids[k].date >= Day(LastOf(p)) * PerDay}

(* find_product_bids_by_product: in hryvnias without VAT and in the        *)
(* category's unit, which makes a bid usable.                              *)
BidsOf(p) ==
  {k \in Stored : /\ bids[k].product = p /\ bids[k].usable
                  /\ LastOf(p) # Nil => bids[k].date >= (Day(LastOf(p)) - DaysBack) * PerDay}

Price(p, day) ==
  LET sample == {k \in BidsOf(p) : Day(bids[k].date) \in day - DaysBack + 1 .. day} IN
  [product   |-> p,
   date      |-> Latest({bids[k].date : k \in {l \in sample : Day(bids[l].date) = day}}),
   sample    |-> sample,
   quartiles |-> Quartiles(Amounts(sample))]

(* Mutant: the last priced day is priced again.                            *)
DaysToPriceAgain(p) ==
  {day \in {Day(bids[k].date) : k \in BidsOf(p)} : LastOf(p) # Nil => day >= Day(LastOf(p))}

DaysToPrice(p) ==
  {day \in {Day(bids[k].date) : k \in BidsOf(p)} : LastOf(p) # Nil => day > Day(LastOf(p))}

(* calculate_price_for_product, up to its first insert_price.              *)
PlanFor(p) == {Price(p, day) : day \in DaysToPrice(p)}

(* Mutant: the products with a bid after the last price.                   *)
SelectedAfter(end) ==
  {p \in Products : \E k \in Stored : /\ bids[k].product = p /\ bids[k].date < end
                                      /\ start # Nil => bids[k].date > start}

(* find_product_bids_group_products.                                       *)
Selected(end) ==
  {p \in Products : \E k \in Stored : /\ bids[k].product = p /\ bids[k].date < end
                                      /\ start # Nil => bids[k].date >= start}

(* There is a price of the day of a bid.                                   *)
Priced(k) == \E x \in prices : x.product = bids[k].product /\ Day(x.date) = Day(bids[k].date)

-----------------------------------------------------------------------------
NightStart ==
  /\ task = "off"
  /\ task' = "begin"
  /\ UNCHANGED <<now, bids, prices, start, skip, page, full, plan, faults, owed>>

(* full_recalculation, run by hand, never beside the nightly task.         *)
FullStart ==
  /\ task = "off"
  /\ prices' = {}
  /\ task' = "begin"
  /\ UNCHANGED <<now, bids, start, skip, page, full, plan, faults, owed>>

Begin ==
  /\ task = "begin"
  /\ task' = "page" /\ start' = LastPrice /\ skip' = 0
  /\ owed' = {k \in Stored : /\ bids[k].usable /\ bids[k].date < Day(now) * PerDay
                             /\ LastPrice # Nil => bids[k].date >= LastPrice
                             /\ ~ Priced(k)}
  /\ UNCHANGED <<now, bids, prices, page, full, plan, faults>>

(* The next page, up to the midnight before now.                           *)
Page ==
  LET all   == Selected(Day(now) * PerDay)
      found == {p \in all : Place(p, all) \in skip + 1 .. skip + BatchSize} IN
  /\ task = "page"
  /\ task' = "products" /\ page' = found /\ full' = (Cardinality(found) = BatchSize)
  /\ UNCHANGED <<now, bids, prices, start, skip, plan, faults, owed>>

Calculate ==
  /\ task = "products" /\ plan = {}
  /\ \E p \in page : /\ Place(p, page) = 1
                     /\ plan' = PlanFor(p) /\ page' = page \ {p}
  /\ UNCHANGED <<now, bids, prices, task, start, skip, full, faults, owed>>

(* insert_price, day after day.                                            *)
Insert ==
  /\ task = "products"
  /\ \E x \in plan : /\ \A y \in plan : x.date <= y.date
                     /\ prices' = prices \cup {x} /\ plan' = plan \ {x}
  /\ UNCHANGED <<now, bids, task, start, skip, page, full, faults>>
  /\ owed' = {k \in owed : ~ Priced(k)'}

PageEnd ==
  /\ task = "products" /\ plan = {} /\ page = {}
  /\ task' = IF full THEN "page" ELSE "off"
  /\ skip' = IF full THEN skip + BatchSize ELSE 0
  /\ start' = IF full THEN start ELSE Nil
  /\ owed' = IF full THEN owed ELSE {}
  /\ full' = FALSE
  /\ UNCHANGED <<now, bids, prices, page, plan, faults>>

(* An exception while a product is calculated: the next one follows.       *)
Failing == IF plan # {} THEN {x.product : x \in plan} ELSE {p \in page : Place(p, page) = 1}

ProductFails ==
  /\ task = "products" /\ faults < MaxFaults
  /\ plan # {} \/ page # {}
  /\ plan' = {} /\ page' = IF plan # {} THEN page ELSE page \ Failing
  /\ owed' = {k \in owed : bids[k].product \notin Failing}
  /\ faults' = faults + 1
  /\ UNCHANGED <<now, bids, prices, task, start, skip, full>>

Die ==
  /\ task # "off" /\ faults < MaxFaults
  /\ task' = "off" /\ start' = Nil /\ skip' = 0 /\ page' = {} /\ full' = FALSE /\ plan' = {}
  /\ owed' = {} /\ faults' = faults + 1
  /\ UNCHANGED <<now, bids, prices>>

TaskStep == NightStart \/ Begin \/ Page \/ Calculate \/ Insert \/ PageEnd

Next ==
  \/ Tick
  \/ \E k \in Bids : \E bid \in Contents[k] : Deliver(k, bid)
  \/ TaskStep
  \/ FullStart \/ ProductFails \/ Die

(* The days pass, and the task is started every night and goes on unless it*)
(* fails.  Nothing is assumed of the crawler.                              *)
Spec     == Init /\ [][Next]_vars
FairSpec == Spec /\ WF_vars(Tick) /\ WF_vars(TaskStep)

-----------------------------------------------------------------------------
InOrder(quartiles) == quartiles[1] <= quartiles[2] /\ quartiles[2] <= quartiles[3]

(* Type invariant; the quartiles of a price are in their order.            *)
TypeOK ==
  /\ now \in 0..MaxNow /\ faults \in 0..MaxFaults
  /\ \A k \in Stored : bids[k] \in Contents[k]
  /\ \A x \in prices \cup plan :
       /\ x.product \in Products /\ x.date \in 0..MaxNow
       /\ x.sample \in SUBSET Stored /\ x.sample # {}
       /\ InOrder(x.quartiles)
  /\ task \in {"off", "begin", "page", "products"}
  /\ start \in 0..MaxNow \cup {Nil}
  /\ skip \in Nat /\ full \in BOOLEAN
  /\ page \in SUBSET Products /\ owed \in SUBSET Stored

(* The bids that a price is made of are all there are of the product in its*)
(* days, although only those since shortly before its last price are read. *)
WindowComplete ==
  [][plan = {} =>
       \A x \in plan' :
         x.sample = {k \in Stored : /\ bids[k].product = x.product /\ bids[k].usable
                                    /\ Day(bids[k].date) <= Day(x.date)
                                    /\ Day(bids[k].date) > Day(x.date) - DaysBack}]_vars

(* A product gets one price a day and they come in the order of the days,  *)
(* also when the task dies between two of them, when bids come late and    *)
(* when a product is on two pages.                                         *)
DaysIncrease ==
  [][\A x \in prices' \ prices : \A y \in prices :
       y.product = x.product => Day(y.date) < Day(x.date)]_vars

Overtaken(k) == \E x \in prices : x.date > bids[k].date

(* A run that goes to its end has priced the day of every usable bid that  *)
(* it began with, from the date of the last price on, though products come *)
(* up between two of its pages and a page begins where the other ended; but*)
(* of products that failed.                                                *)
NightPrices ==
  task = "products" /\ page = {} /\ plan = {} /\ ~ full => owed = {}

(* Again and again there is a moment when every usable bid of a day that is*)
(* over has a price of its day, but for those of which some product had got*)
(* a price of a later date before: that the code passes over such bids is  *)
(* all that it loses.  The last day of the clock never ends.               *)
BidPriced ==
  []<>(\A k \in Stored :
         bids[k].usable /\ Day(bids[k].date) < Day(MaxNow) => Priced(k) \/ Overtaken(k))
=============================================================================
