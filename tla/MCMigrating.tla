---------------------------- MODULE MCMigrating ----------------------------
(* For each script small databases in which it has something to change,    *)
(* something to leave alone and, where it follows references, documents    *)
(* that refer to each other: categories c and k, profiles f and h,         *)
(* products p, q and r, vendors and offers.                                *)
EXTENDS Migrating

MCListed    == {"c", "h", "p"}
MCUnitNames == [PK |-> "package", KG |-> "kilogram"]
MCCopies    == <<{"n1", "n2"}, {"n3", "n4"}>>
MCLatin     == {"latin"}
MCIso       == {Py("text", 1), Py("text", 2)}

Kinds  == [k |-> "category", c |-> "category", f |-> "profile", h |-> "profile",
           p |-> "product", q |-> "product", r |-> "product", v |-> "vendor", u |-> "vendor",
           o |-> "offer", l |-> "offer"]
Order  == [k |-> 1, c |-> 2, f |-> 3, h |-> 4, p |-> 5, q |-> 6, r |-> 7, v |-> 1, u |-> 2, o |-> 1, l |-> 2]
Common == [status |-> "active", owner |-> "owner", classification |-> [id |-> "old"]]
Default(kind) ==
  (CASE kind = "category" -> [criteria |-> << >>]
     [] kind = "profile"  -> [criteria |-> << >>, relatedCategory |-> "c"]
     [] kind = "product"  -> [responses |-> << >>, relatedCategory |-> "c", relatedProfiles |-> {"f"}]
     [] OTHER             -> << >>) @@ Common
World(given) ==
  [d \in DOMAIN given |->
     given[d] @@ [kind |-> Kinds[d], dateModified |-> Order[d]] @@ Default(Kinds[d])]

Plain == [owner |-> "owner"]
Whole(n)   == Py("int", n)
Float(n)   == Py("float", n)
Bool(n)    == Py("bool", n)
Str(n)     == Py("text", n)
NumText(n) == Py("strInt", n)
Req(name, type)  == [id |-> Name("", name), title |-> Name("title", name), dataType |-> type]
In(class, reqs)  == [criteria |-> <<[class |-> class, requirements |-> reqs]>>]
One(class, r)    == In(class, <<r>>)
Value(name, v)   == [requirement |-> Name("title", name), value |-> v]
Values(name, vs) == [requirement |-> Name("title", name), values |-> vs]
ById(response)   == [response EXCEPT !.requirement.of = ""]
Says(responses)  == [responses |-> responses]
Unit(code)       == [unit |-> [code |-> code, name |-> "text"]]
Vendor(year)     == [vendor |-> "v", dateCreated |-> year]
Files(n)         == [documents |-> [i \in 1..n |-> IF i = 1 THEN "sign.p7s" ELSE "file"]]

(* Requirements and responses of every form that 17668 and 17989 tell      *)
(* apart.                                                                  *)
Forms ==
  <<Req("a", "integer") @@ [expectedValues |-> {Whole(1), Whole(2)}],
    Req("b", "integer") @@ [maxValue |-> Float(5), minValue |-> Whole(1)] @@ Unit("KG"),
    Req("d", "integer") @@ [maxValue |-> Str(5), minValue |-> Whole(1)],
    Req("e", "integer") @@ [minValue |-> Float(1)],
    Req("g", "integer") @@ [expectedValue |-> Bool(1)],
    Req("i", "integer"),
    Req("j", "number")  @@ [maxValue |-> Whole(5)],
    Req("l", "number")  @@ [expectedValue |-> Whole(1), minValue |-> Whole(1)],
    Req("m", "string")  @@ [minValue |-> Whole(1)] @@ Unit("KG"),
    Req("n", "string"),
    Req("o", "string")  @@ [expectedMinItems |-> 0],
    Req("s", "boolean") @@ [expectedValues |-> {Bool(0), Bool(1)}],
    Req("t", "boolean") @@ [expectedValue |-> Str(1)],
    Req("u", "boolean") @@ [expectedValues |-> {Str(1)}]>>
Said == <<Value("i", NumText(3)), Values("n", {Whole(2)}), Value("m", Whole(4)), Value("b", Whole(2)),
          Value("s", Str(1)), Value("z", Whole(1))>>
Theirs == <<Req("a", "integer") @@ Unit("KG"), Req("b", "boolean") @@ [expectedValue |-> Bool(1)],
            Req("d", "string"), Req("e", "number") @@ Unit("KG"), Req("g", "string")>>
Ours   == <<Req("a", "string") @@ [expectedValues |-> {NumText(2)}], Req("b", "string") @@ Unit("KG"),
            Req("d", "integer") @@ [minValue |-> Whole(1), maxValue |-> Whole(3)],
            Req("e", "integer") @@ [minValue |-> Whole(1)],
            Req("g", "number") @@ [expectedValue |-> Whole(1)], Req("z", "integer")>>

LocalReq   == Req("local", "number") @@ [minValue |-> Whole(10)]
Coloured   == Req("colour", "string") @@ [expectedValues |-> {Str(1), Str(2)}]
Sized      == Req("size", "integer") @@ [minValue |-> Whole(1)] @@ Unit("KG")
Special    == One("LOC", LocalReq) @@
              [classification |-> [id |-> "new"], agreementID |-> "a", status |-> "hidden"]
MCWorlds ==
  [cs_11945 |-> {[f |-> [agreements |-> <<{}, {"a"}>>], h |-> [agreements |-> <<{"a", "b"}>>]]},
   cs_12095 |-> {[f |-> One("TECH", Coloured), h |-> Plain,
                  p |-> Says(<<ById(Value("colour", Str(1)))>>) @@ [relatedProfile |-> "f"],
                  q |-> Says(<<ById(Value("colour", Str(1)))>>) @@ [relatedProfile |-> "h"]]},
   cs_12110 |-> {[f |-> [code |-> 1], h |-> [code |-> 1], p |-> [code |-> 1]]},
   cs_12300 |-> {[f |-> One("TECH", Req("colour", "string") @@ [anyOf |-> {Str(1), Str(2)}]),
                  p |-> Says(<<ById(Value("colour", Str(1)))>>) @@ [relatedProfile |-> "f"]]},
   cs_13101 |-> {[p |-> [relatedProfile |-> "f"], q |-> Plain, r |-> [relatedProfile |-> "h"]]},
   cs_13182 |-> {[f |-> One("TECH", Coloured),
                  p |-> Says(<<ById(Value("colour", Str(1))), ById(Value("gone", Str(1)))>>),
                  q |-> Says(<<Value("colour", Str(1))>>)],
                 [f |-> One("TECH", Req("latin", "string")), h |-> One("TECH", Coloured),
                  p |-> Says(<<ById(Value("latin", Str(1))), Value("colour", Str(1))>>)
                        @@ [relatedProfiles |-> {"f", "h"}]]},
   cs_13265 |-> {[f |-> Plain, h |-> [relatedCategory |-> "k"],
                  p |-> [relatedCategory |-> "none"],
                  q |-> [relatedCategory |-> "none", relatedProfiles |-> {"h"}]]},
   cs_13375 |-> {[f |-> One("LOC", LocalReq) @@ [owner |-> "local"], h |-> One("LOC", LocalReq)]},
   cs_13713 |-> {[o |-> Plain, l |-> [status |-> "hidden"]]},
   cs_13762 |-> {[c |-> [agreementID |-> "a"], k |-> Plain, f |-> Plain, h |-> [relatedCategory |-> "k"]]},
   cs_15202 |-> {[c |-> One("TECH", Req("size", "integer") @@ [expectedValue |-> Whole(1)]),
                  f |-> One("TECH", Req("size", "integer") @@ [expectedValue |-> Whole(1)]),
                  p |-> Says(<<Value("size", Whole(1)), Values("colour", {Str(1)})>>)]},
   cs_15349 |-> {[c |-> cat, f |-> One("LOC", LocalReq), h |-> [status |-> "hidden"]] :
                   cat \in {One("LOC", LocalReq), One("LOC", Coloured)}},
   cs_15522 |-> {[f |-> Plain, h |-> [dateCreated |-> 1]]},
   cs_16302 |-> {[k |-> Unit("KG"), c |-> Unit("RM"), f |-> Unit("RM")]},
   cs_16303 |-> {[c |-> In("TECH", <<Req("standard", "string") @@ [expectedValues |-> {Str(1)}], Sized>>),
                  p |-> Says(<<Values("standard", {Str(1)}), Value("size", Whole(1))>>)]},
   cs_16542 |-> {[f |-> One("TECH", Req("standard", "string")), h |-> [relatedCategory |-> "k"]]},
   cs_16903 |-> {[c |-> [procuringEntity |-> "e"], f |-> Plain, p |-> Plain]},
   cs_16971 |-> {[c |-> Plain, f |-> Plain, p |-> Says(<<Value("old", Whole(1))>>)]},
   cs_16972 |-> {[k |-> One("TECH", Coloured), f |-> One("TECH", Coloured) @@ [relatedCategory |-> "k"],
                  h |-> One("TECH", Coloured)]},
   cs_16982 |-> {[p |-> Vendor(2024), q |-> Vendor(2023), r |-> Vendor(2024)]},
   cs_17177 |-> {[p |-> Vendor(2024) @@ Files(2), q |-> Vendor(2024) @@ Files(3), r |-> Plain]},
   cs_17332 |-> {[k |-> One("TECH", Coloured @@ [expectedMaxItems |-> 2]), c |-> One("TECH", Coloured)]},
   cs_17668 |-> {[c |-> In("TECH", Forms), f |-> In("TECH", <<Req("z", "string"), Forms[7]>>), p |-> Says(Said)],
                 [k |-> In("TECH", Forms), c |-> In("TECH", <<Req("y", "integer")>>),
                  q |-> Says(<<Value("y", Str(1))>>)]},
   cs_17676 |-> {[c |-> [description |-> "text"], f |-> [description |-> "text"], h |-> Plain]},
   cs_17793 |-> {[k |-> One("TECH", Sized), c |-> In("TECH", <<Coloured @@ Unit("KG"), Sized>>),
                  f |-> One("TECH", Coloured @@ Unit("KG"))]},
   cs_17864 |-> {[k |-> One("TECH", Coloured), c |-> In("TECH", <<Coloured, [isArchived |-> TRUE] @@ Sized>>)]},
   cs_17989 |-> {[c |-> In("TECH", Theirs), f |-> In("TECH", Ours), h |-> Plain]},
   cs_18006 |-> {[c |-> One("LOC", LocalReq)]},
   cs_18012 |-> {[p |-> Vendor(2023), q |-> Vendor(2024), r |-> Vendor(2024) @@ [status |-> "hidden"]]},
   cs_18143 |-> {[k |-> Special, f |-> One("LOC", LocalReq), p |-> Plain],
                 [k |-> One("LOC", LocalReq), h |-> Plain]},
   cs_18454 |-> {[f |-> [status |-> "general"], h |-> [status |-> "general"]]},
   cs_18606 |-> {[c |-> One("TECH", Sized), f |-> One("TECH", Req("size", "number")), h |-> One("TECH", Coloured)]},
   cs_18754 |-> {[k |-> [owner |-> "cpb", token |-> "old"], c |-> [token |-> "old"]]},
   cs_18810 |-> {[c |-> One("LOC", Coloured), f |-> One("LOC", Coloured), h |-> One("TECH", Coloured)]},
   cs_18827 |-> {[v |-> [categories |-> {"c"}], u |-> Plain]},
   cs_18834 |-> {[c |-> In("TECH", <<Req("a", "boolean"), Sized>>),
                  p |-> Says(<<Values("a", {Bool(1)}), Values("size", {Whole(1)})>>),
                  q |-> Says(<<Values("a", {Whole(0)})>>), r |-> Says(<<Values("a", {Bool(0), Bool(1)})>>)]},
   cs_18855 |-> {[c |-> In("TECH", <<Sized, Req("d", "number") @@ Unit("XX")>>) @@ Unit("PK"),
                  f |-> In("TECH", <<Req("size", "integer"), Req("b", "number")>>)]},
   cs_18906 |-> {[c |-> In("TECH", <<Coloured, Sized>>),
                  p |-> Says(<<Value("colour", Whole(1)), Value("size", Whole(1))>>),
                  q |-> Says(<<Values("colour", {Str(1)})>>)]},
   cs_18917 |-> {[c |-> One("TECH", Sized), p |-> Says(<<Values("size", {Whole(1)})>>),
                  q |-> Says(<<Values("size", {}) @@ [value |-> Whole(1)]>>),
                  r |-> Says(<<Values("size", {Whole(1), Whole(2)})>>)]},
   cs_19049 |-> {[k |-> [classification |-> [id |-> "new"]], p |-> [relatedCategory |-> "old"],
                  q |-> [relatedCategory |-> "old"]]},
   cs_19077 |-> {[f |-> One("TECH", Coloured), h |-> One("TECH", [expectedMinItems |-> 2] @@ Coloured)]},
   cs_19979 |-> {[k |-> Plain], [k |-> [classification |-> [id |-> "other"]]]},
   cs_20083 |-> {[p |-> [classification |-> [id |-> "new", schema |-> "s"]], q |-> Plain]},
   cs_20381 |-> {[k |-> Plain, c |-> Plain, p |-> Plain]},
   cs_20381_copies |-> {[k |-> Plain]},
   cs_20491 |-> {[p |-> Plain, q |-> Plain, r |-> Plain]},
   cs_20538 |-> {[c |-> Plain, f |-> Plain, h |-> Plain]},
   cs_20824 |-> {[p |-> Vendor(2023) @@ Files(6), q |-> Vendor(2023) @@ Files(7), r |-> Vendor(2024)]},
   cs_20827 |-> {[c |-> Plain, f |-> Plain, p |-> Plain]},
   cs_20828_hide  |-> {[k |-> Plain, c |-> Plain]},
   cs_20828_patch |-> {[k |-> Plain, p |-> Plain, q |-> [relatedCategory |-> "k"]]},
   cs_20838 |-> {[p |-> Vendor(2023) @@ [expirationDate |-> 2024], q |-> Vendor(2023) @@ [expirationDate |-> 2025]]},
   cs_20866 |-> {[c |-> One("LOC", LocalReq), f |-> One("LOC", LocalReq), h |-> One("TECH", Sized)]},
   cs_20892 |-> {[p |-> [dateModified |-> 1], q |-> [dateModified |-> 1], r |-> [dateModified |-> 3]]},
   cs_21185 |-> {[c |-> Plain, h |-> Plain, p |-> [relatedCategory |-> "k"]]},
   cs_21351 |-> {[c |-> One("LOC", LocalReq) @@ [tags |-> {"t"}], f |-> One("LOC", LocalReq), h |-> Plain]},
   squash   |-> {[f |-> In("TECH", <<Req("a", "integer") @@ [expectedValue |-> Whole(1)],
                                     Req("b", "integer") @@ [expectedValue |-> Whole(2)]>>),
                  h |-> One("TECH", Sized)]}]
AllWorlds == [s \in DOMAIN MCWorlds |-> {World(w) : w \in MCWorlds[s]}]

(* The feed of the collection that a script changes last, or most.         *)
MCFeed ==
  [s \in DOMAIN MCWorlds |->
     CASE s \in {"cs_13713"} -> "offer"
       [] s = "cs_18827" -> "vendor"
       [] s \in {"cs_16302", "cs_17332", "cs_17864", "cs_18754", "cs_20828_hide", "cs_20381",
                 "cs_18006", "cs_19979", "cs_20381_copies"} -> "category"
       [] s \in {"cs_13101", "cs_13182", "cs_13265", "cs_15202", "cs_16303", "cs_16903", "cs_16971",
                 "cs_16982", "cs_17177", "cs_18012", "cs_18834", "cs_18906", "cs_18917", "cs_19049",
                 "cs_20083", "cs_20491", "cs_20824", "cs_20828_patch", "cs_20838", "cs_20892"} -> "product"
       [] OTHER -> "profile"]
=============================================================================
