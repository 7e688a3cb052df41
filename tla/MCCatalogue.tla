---------------------------- MODULE MCCatalogue ----------------------------
(* A category whose technical criterion asks for a number within bounds and*)
(* a text from a list, with a pattern for the number, and for a moment; one*)
(* profile, which has the number without the pattern or nothing, one       *)
(* product and one product request.  Requirements of every kind are posted *)
(* and patched: bounds that are inside, outside or zero, texts that are or *)
(* are not listed.                                                         *)
EXTENDS Catalogue, TLC

CONSTANTS k1, f1, p1, q1, r1, r2, r3, a1, a2

MCRequests   == {r1, r2, r3}
Symmetry     == Permutations(MCRequests)
MCIsoMapping == [ISO_639 |-> {Py("str", 1), Py("str", 2)}]

Num(t, low)      == [title |-> t, dataType |-> "integer", unit |-> "kg", minValue |-> Py("int", low)]
Moment(t)        == [title |-> t, dataType |-> "datetime", unit |-> "hour"]
Like(q, S)       == q @@ [pattern |-> S]
UpTo(q, high)    == q @@ [maxValue |-> Py("int", high)]
Text(t, S, min)  == [title |-> t, dataType |-> "string", expectedMinItems |-> Py("int", min),
                     expectedValues |-> {Py("str", n) : n \in S}]
Archived(q, is)  == q @@ [isArchived |-> is]
Id(n)            == <<"first", n>>
In(class, q)     == Id(0) :> [class |-> class, groups |-> Id(0) :> q]

MCFirstCriteria ==
  {In("TECH", (Id(0) :> Archived(Like(UpTo(Num("size", 0), 2), {Py("int", 1)}), FALSE)) @@
                 (Id(1) :> Archived(Text("colour", {1, 2}, 1), FALSE)) @@
                 (Id(2) :> Archived(Moment("since"), FALSE)))}
MCFirstProfiles == {In("TECH", Id(0) :> UpTo(Num("size", 1), 2))}

MCCategoryPosts == {<<Archived(Text("size", {1}, 1), FALSE)>>}
MCProfilePosts  ==
  {<<Text("colour", {1}, 1)>>, <<Text("colour", {1, 3}, 1)>>,
   <<Moment("since") @@ [expectedValues |-> {Py("str", 1)}]>>}
MCPatches ==
  {[set |-> [isArchived |-> TRUE], drop |-> {}],
   [set |-> [title |-> "colour"], drop |-> {}],
   [set |-> [minValue |-> Py("int", 2)], drop |-> {"maxValue"}],
   [set |-> [expectedValue |-> Py("int", 1)], drop |-> {"minValue", "maxValue"}]}

Size(n)     == "size" :> [value |-> Py("int", n)]
Colour(ns)  == "colour" :> [values |-> [i \in DOMAIN ns |-> Py("str", ns[i])]]
MCResponses == {Size(1), Colour(<<1>>), Size(1) @@ Colour(<<1, 2>>)}
MCProbes    ==
  {[value |-> v] : v \in {Py("int", n) : n \in 0..3} \cup {Py("bool", 1), Py("str", 1)}}
    \cup {[values |-> <<Py("str", m), Py("str", n)>>] : m, n \in 1..3}
    \cup {[values |-> <<Py("str", n)>>] : n \in 1..3}
=============================================================================
