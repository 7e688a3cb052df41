---------------------------- MODULE Requirements ----------------------------
(***************************************************************************)
(* What a requirement may look like and which answers meet it: the         *)
(* validators of models/criteria.py, the checks of validations.py, and the *)
(* rules by which cron/related_profiles_task.py matches a product with a   *)
(* profile.  There is no state here; Catalogue and Migrations have it.     *)
(*                                                                         *)
(* A requirement and a response are Python dicts, so they are records whose*)
(* DOMAIN is the fields that are present: the handlers store no None       *)
(* (dict_without_none).  A value keeps its Python type, since isinstance   *)
(* tells True from 1 in one direction only and 1 == 1.0 == True.           *)
(* A pattern is the set of the values whose text it matches.               *)
(***************************************************************************)
EXTENDS Integers, FiniteSets, Sequences

CONSTANTS IsoMapping,   \* IsoMapping[s]: the codes of the data schema s
          Localization  \* the class of the localization criterion

(* A Python value: type in "int", "float", "str", "bool", and n, the number*)
(* it stands for or the place of the text in an order.                     *)
Py(type, n) == [type |-> type, n |-> n]

Has(r, field)    == field \in DOMAIN r
Flag(r, field)   == Has(r, field) /\ r[field]
Numeric(v)       == v.type # "str"
Same(v, w)       == v.n = w.n /\ Numeric(v) = Numeric(w)
TYPEMAP          == [string |-> {"str"}, integer |-> {"int", "bool"},
                     number |-> {"float", "int", "bool"}, boolean |-> {"bool"},
                     datetime |-> {"str"}]
IsA(v, dataType) == v.type \in TYPEMAP[dataType]

-----------------------------------------------------------------------------
(* models/criteria.py: the types of the fields (BaseRequirementCreateData, *)
(* Requirement), and what CategoryRequirementCreateData narrows them to.   *)
Value == [type : {"int", "float", "str", "bool"}, n : Int]

Fields(r) ==
  /\ {"title", "dataType"} \subseteq DOMAIN r
  /\ r.dataType \in DOMAIN TYPEMAP
  /\ \A f \in {"expectedValue", "maxValue", "minValue"} \cap DOMAIN r : r[f] \in Value
  /\ \A f \in {"expectedValues", "pattern"} \cap DOMAIN r : r[f] \subseteq Value
  /\ \A f \in {"expectedMinItems", "expectedMaxItems"} \cap DOMAIN r :
       r[f] \in Value /\ r[f].type = "int" /\ r[f].n > 0

CategoryFields(r) ==
  /\ Has(r, "expectedValue") => r.expectedValue.type # "str"
  /\ \A f \in {"maxValue", "minValue"} \cap DOMAIN r : r[f].type \in {"int", "float"}

(* models/criteria.py: RequirementBaseValidators.                          *)
check_types(r) ==
  /\ \A f \in {"expectedValue", "maxValue", "minValue"} \cap DOMAIN r : IsA(r[f], r.dataType)
  /\ Has(r, "expectedValues") =>
       \A v \in r.expectedValues : IsA(v, r.dataType) /\ v.type = "str"

validate_available_values(r) ==
  /\ Has(r, "expectedValue") => {"minValue", "maxValue", "expectedValues"} \cap DOMAIN r = {}
  /\ Has(r, "expectedValues") => {"minValue", "maxValue"} \cap DOMAIN r = {}

(* A bound of 0 is false in Python: no order is asked of it.               *)
validate_max_min_range(r) ==
  {"minValue", "maxValue"} \subseteq DOMAIN r =>
    \/ r.minValue.n = 0 \/ r.maxValue.n = 0
    \/ ~ Numeric(r.minValue) \/ ~ Numeric(r.maxValue)
    \/ r.minValue.n < r.maxValue.n

(* A moment may have a unit or not.                                        *)
validate_unit_exist_to_data_type(r) ==
  IF Has(r, "unit") THEN r.dataType \notin {"string", "boolean"}
                    ELSE r.dataType \notin {"integer", "number"}

validate_data_schema(r) ==
  Has(r, "dataSchema") =>
    /\ r.dataType = "string"
    /\ Has(r, "expectedValues") => r.expectedValues \subseteq IsoMapping[r.dataSchema]

BaseValid(r) ==
  /\ Fields(r)
  /\ check_types(r) /\ validate_available_values(r) /\ validate_max_min_range(r)
  /\ validate_unit_exist_to_data_type(r) /\ validate_data_schema(r)

(* CategoryRequirementValidators.                                          *)
CategoryItems(r) ==
  IF Has(r, "expectedValues")
  THEN /\ Has(r, "expectedMinItems") /\ r.expectedMinItems.n = 1
       /\ Has(r, "expectedMaxItems") => r.expectedMaxItems.n = 1
       /\ r.expectedValues # {}
  ELSE {"expectedMinItems", "expectedMaxItems"} \cap DOMAIN r = {} /\ r.dataType # "string"

validate_number_requirements(r) ==
  r.dataType \in {"integer", "number"} => Has(r, "expectedValue") \/ Has(r, "minValue")

CategoryRequirement(r) ==
  BaseValid(r) /\ CategoryFields(r) /\ CategoryItems(r) /\ validate_number_requirements(r)

(* ProfileRequirementValidators: absent expectedValues count as none.      *)
ProfileItems(r) ==
  LET listed == IF Has(r, "expectedValues") THEN Cardinality(r.expectedValues) ELSE 0 IN
  /\ \A f \in {"expectedMinItems", "expectedMaxItems"} \cap DOMAIN r : r[f].n <= listed
  /\ {"expectedMinItems", "expectedMaxItems"} \subseteq DOMAIN r =>
       r.expectedMinItems.n <= r.expectedMaxItems.n

ProfileRequirement(r) == BaseValid(r) /\ ProfileItems(r)

-----------------------------------------------------------------------------
(* validations.py: a product's response to a category's requirement.       *)
validate_req_response_values(r, values) ==
  /\ values # <<>>
  /\ \A i \in DOMAIN values :
       LET v == values[i] IN
       /\ IsA(v, r.dataType) /\ ~ (r.dataType = "number" /\ v.type = "bool")
       /\ Has(r, "expectedValue") => Same(v, r.expectedValue)
       /\ Has(r, "minValue") => v.n >= r.minValue.n
       /\ Has(r, "maxValue") => v.n <= r.maxValue.n
       /\ \A f \in {"pattern", "expectedValues"} \cap DOMAIN r : v \in r[f]
  /\ Has(r, "expectedMinItems") => Len(values) >= r.expectedMinItems.n
  /\ Has(r, "expectedMaxItems") => Len(values) <= r.expectedMaxItems.n

(* A product's response: a value, a list of values, both or nothing.       *)
IsResponse(x) ==
  /\ DOMAIN x \subseteq {"value", "values"}
  /\ Has(x, "value") => x.value \in Value
  /\ Has(x, "values") => x.values \in Seq(Value)

validate_req_response(r, response) ==
  /\ IF Has(r, "expectedValues") THEN ~ Has(response, "value") ELSE ~ Has(response, "values")
  /\ DOMAIN response # {}
  /\ validate_req_response_values(r, IF Has(response, "value") THEN <<response.value>>
                                                               ELSE response.values)

(* Mutant of the range below: a bound that the profile leaves out is right.*)
RangeIfGiven(r, parent, low, high) ==
  /\ Has(parent, low) /\ Has(r, low) /\ Numeric(r[low]) /\ Numeric(parent[low]) =>
       r[low].n >= parent[low].n
  /\ Has(parent, high) /\ Has(r, high) /\ Numeric(r[high]) /\ Numeric(parent[high]) =>
       r[high].n <= parent[high].n

(* validations.py: a profile's requirement against the category's.         *)
validate_requirement_values_range(r, parent, low, high) ==
  /\ Has(parent, low) => /\ Has(r, low)
                         /\ Numeric(r[low]) /\ Numeric(parent[low]) => r[low].n >= parent[low].n
  /\ Has(parent, high) => /\ Has(r, high)
                          /\ Numeric(r[high]) /\ Numeric(parent[high]) => r[high].n <= parent[high].n

SameField(r, parent, field) ==
  /\ Has(r, field) = Has(parent, field)
  /\ Has(r, field) => r[field] = parent[field]

validate_profile_requirement(r, parent) ==
  /\ ~ Flag(parent, "isArchived")
  /\ r.dataType = parent.dataType
  /\ r.dataType = "boolean" => {"minValue", "maxValue", "expectedValues"} \cap DOMAIN r = {}
  /\ Has(parent, "expectedValue") => Has(r, "expectedValue") /\ Same(r.expectedValue, parent.expectedValue)
  /\ Has(parent, "expectedValues") /\ parent.expectedValues # {} =>
       /\ Has(r, "expectedValues") /\ r.expectedValues # {}
       /\ r.expectedValues \subseteq parent.expectedValues
       /\ SameField(r, parent, "dataSchema")
       /\ validate_requirement_values_range(r, parent, "expectedMinItems", "expectedMaxItems")
  /\ Has(parent, "minValue") \/ Has(parent, "maxValue") =>
       IF Has(r, "expectedValue")
       THEN /\ Has(parent, "minValue") => r.expectedValue.n >= parent.minValue.n
            /\ Has(parent, "maxValue") => r.expectedValue.n <= parent.maxValue.n
       ELSE validate_requirement_values_range(r, parent, "minValue", "maxValue")

-----------------------------------------------------------------------------
(* A document's criteria: a function from criterion ids to records with the*)
(* classification and the groups, a function from group ids to functions   *)
(* from requirement ids to requirements.  Slots are the places of          *)
(* requirements in that tree.                                              *)
Slots(criteria) ==
  UNION {UNION {{<<c, g, q>> : q \in DOMAIN criteria[c].groups[g]}
                  : g \in DOMAIN criteria[c].groups} : c \in DOMAIN criteria}

At(criteria, s)  == criteria[s[1]].groups[s[2]][s[3]]
Titles(criteria) == {At(criteria, s).title : s \in Slots(criteria)}
SlotOf(criteria, title) == CHOOSE s \in Slots(criteria) : At(criteria, s).title = title
Titled(criteria, title) == At(criteria, SlotOf(criteria, title))

validate_requirement_title_uniq(criteria) ==
  \A s, u \in Slots(criteria) : At(criteria, s).title = At(criteria, u).title => s = u

validate_criteria_classification_uniq(criteria) ==
  \A c, d \in DOMAIN criteria : criteria[c].class = criteria[d].class => c = d

validate_profile_requirements(new, categoryCriteria) ==
  \A r \in new :
    /\ r.title \in Titles(categoryCriteria)
    /\ validate_profile_requirement(r, Titled(categoryCriteria, r.title))

(* validations.py: the responses of a product, a function from titles, with*)
(* the titles it had answered before.                                      *)
validate_product_req_responses_to_category(criteria, responses, before, required) ==
  LET class(t) == criteria[SlotOf(criteria, t)[1]].class IN
  /\ Slots(criteria) # {} => DOMAIN responses # {}
  /\ \A t \in DOMAIN responses :
       /\ t \in Titles(criteria)
       /\ t \in before \/ ~ Flag(Titled(criteria, t), "isArchived")
       /\ validate_req_response(Titled(criteria, t), responses[t])
  /\ \A t, u \in DOMAIN responses :
       class(t) = Localization /\ class(u) = Localization =>
         SlotOf(criteria, t)[2] = SlotOf(criteria, u)[2]
  /\ \A t \in Titles(criteria) :
       class(t) \in required => \E u \in DOMAIN responses : class(u) = class(t)

-----------------------------------------------------------------------------
(* cron/related_profiles_task.py.                                          *)
get_value(response)  == IF Has(response, "value") THEN response.value ELSE response.values[1]
get_values(response) == IF Has(response, "value") THEN <<response.value>> ELSE response.values

(* float() turns a text that is a number into it; the texts here are none. *)
is_valid_req_response_value(r, v) ==
  /\ IsA(v, r.dataType)
  /\ Has(r, "expectedValue") => Same(v, r.expectedValue)
  /\ Has(r, "minValue") => Numeric(v) /\ Numeric(r.minValue) /\ v.n >= r.minValue.n
  /\ Has(r, "maxValue") => Numeric(v) /\ Numeric(r.maxValue) /\ v.n <= r.maxValue.n
  /\ Has(r, "pattern") => v \in r.pattern

(* An overlap is enough: the response may hold values that are not         *)
(* expected.                                                               *)
is_valid_req_response_values(r, values) ==
  /\ values # <<>>
  /\ Has(r, "expectedMinItems") =>
       Cardinality(r.expectedValues \cap {values[i] : i \in DOMAIN values}) >= r.expectedMinItems.n
  /\ Has(r, "expectedMaxItems") => Len(values) <= r.expectedMaxItems.n

MeetsRequirement(r, response) ==
  IF {"expectedValue", "minValue", "maxValue", "pattern"} \cap DOMAIN r # {}
  THEN is_valid_req_response_value(r, get_value(response))
  ELSE IF Has(r, "expectedValues") THEN is_valid_req_response_values(r, get_values(response))
  ELSE IsA(get_value(response), r.dataType)

check_profile_criteria_meets_requirements(criteria, answered) ==
  \A c \in DOMAIN criteria :
    LET groups == criteria[c].groups
        met == {g \in DOMAIN groups : {groups[g][q].title : q \in DOMAIN groups[g]} \subseteq answered} IN
    IF criteria[c].class = Localization THEN Cardinality(met) = 1 ELSE met = DOMAIN groups

(* get_product_relatedProfiles, for one profile.                           *)
RelatedTo(criteria, responses) ==
  LET common == Titles(criteria) \cap DOMAIN responses IN
  /\ Slots(criteria) # {}
  /\ check_profile_criteria_meets_requirements(criteria, DOMAIN responses)
  /\ common # {}
  /\ \A t \in common : MeetsRequirement(Titled(criteria, t), responses[t])
=============================================================================
