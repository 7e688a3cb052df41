------------------------- MODULE MCRelatedProfiles -------------------------
(* Two categories, one with a profile and one without, and a product that  *)
(* can move between them while the task is in either.  Whether answers fit *)
(* demands is what the task computes from them: the strict demand, with a  *)
(* bound and a choice of two localization groups, is met by one of the two *)
(* answers, the lax one, for which an overlap of the values is enough, by  *)
(* both.                                                                   *)
EXTENDS RelatedProfiles, TLC

CONSTANTS p1, c1, c2, f1, r1, r2

MCIds        == {p1}
MCCategories == {c1, c2}
MCProfiles   == {f1}
MCHome       == f1 :> c1
MCRequests   == {r1, r2}

Rules == INSTANCE Requirements WITH IsoMapping <- << >>, Localization <- "LOC"

Size   == [title |-> "size", dataType |-> "integer", unit |-> "kg",
           minValue |-> Rules!Py("int", 1), maxValue |-> Rules!Py("int", 2)]
Text(t) == [title |-> t, dataType |-> "string", expectedMinItems |-> Rules!Py("int", 1),
            expectedValues |-> {Rules!Py("str", 1)}]
Group(requirement) == 1 :> requirement

Strict == (1 :> [class |-> "TECH", groups |-> 1 :> Group(Size)]) @@
          (2 :> [class |-> "LOC", groups |-> (1 :> Group(Text("code"))) @@ (2 :> Group(Text("share")))])
Lax    == 1 :> [class |-> "TECH", groups |-> 1 :> Group(Text("code"))]

Gives(size, codes) ==
  ("size" :> [value |-> Rules!Py("int", size)]) @@
  ("code" :> [values |-> [i \in DOMAIN codes |-> Rules!Py("str", codes[i])]])

MCAnswers == {Gives(2, <<1>>), Gives(3, <<1, 2>>)}
MCDemands == {Strict, Lax}
MCFit     == {x \in MCAnswers \X MCDemands : Rules!RelatedTo(x[2], x[1])}
=============================================================================
