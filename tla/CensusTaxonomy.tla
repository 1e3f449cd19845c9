--------------------------- MODULE CensusTaxonomy ---------------------------
(***************************************************************************)
(* warehouse_v2/census_taxonomy.py and census_codes.py: which native       *)
(* Census items are part of direct general expenditure, and the one public *)
(* category each of them is shown under.                                   *)
(*                                                                         *)
(* An item code is a prefix and a function, <<"E", "24">>; a row spells it *)
(* in some way, <<code, spelling>>.                                        *)
(***************************************************************************)
EXTENDS Integers, Sequences, FiniteSets, SequencesExt

SupportedYears == {2022, 2024}

FunctionCodes ==
    {"01", "03", "04", "05", "12", "16", "18", "21", "22", "23", "24", "25", "26", "29",
     "31", "32", "36", "44", "45", "50", "52", "55", "56", "59", "60", "61", "62", "66",
     "77", "79", "80", "81", "85", "87", "89"}

DirectGeneralCodes == ({"E", "F"} \X FunctionCodes) \cup {<<"I", "89">>, <<"J", "19">>}

Category(key, functions, special) == [key |-> key, functions |-> functions, special |-> special]

Categories ==
    << Category("general_government", {"23", "26", "29", "31"}, {}),
       Category("education_libraries", {"12", "16", "18", "21", "52"}, {<<"J", "19">>}),
       Category("public_welfare_human_services", {"22", "77", "79", "85"}, {}),
       Category("health", {"32"}, {}),
       Category("hospitals", {"36"}, {}),
       Category("fire_protection", {"24"}, {}),
       Category("police", {"62"}, {}),
       Category("corrections", {"04", "05"}, {}),
       Category("judicial_legal", {"25"}, {}),
       Category("protective_regulation", {"66"}, {}),
       Category("transportation", {"01", "44", "45", "60", "87"}, {}),
       Category("natural_resources_environment", {"55", "56", "59"}, {}),
       Category("parks_recreation", {"61"}, {}),
       Category("housing_community_development", {"50"}, {}),
       Category("sewerage_solid_waste", {"80", "81"}, {}),
       Category("interest_general_debt", {}, {<<"I", "89">>}),
       Category("other_unallocable", {"03", "89"}, {}) >>

---------------------------------------------------------------------------
NoCategory == [key |-> "none", functions |-> {}, special |-> {}]

\* Special items first, then the function of an E or F item; the first match.
CategoryOf(code) ==
    LET special  == SelectInSeq(Categories, LAMBDA c : code \in c.special)
        function == SelectInSeq(Categories,
                        LAMBDA c : code[1] \in {"E", "F"} /\ code[2] \in c.functions)
        k == IF special # 0 THEN special ELSE function
    IN  IF code \notin DirectGeneralCodes \/ k = 0 THEN NoCategory ELSE Categories[k]

Total(amount, S) == SumFunction([x \in S |-> amount[x]])

\* strip().upper(): only the code itself is left of the spelling.
ItemCode(row) == row.spelled[1]

\* Faulty variant of AmountOf: a repeated code replaces the earlier row.
AmountOfLast(rows, code) ==
    LET at == {i \in DOMAIN rows : ItemCode(rows[i]) = code}
    IN  rows[CHOOSE i \in at : \A j \in at : j <= i].amount

\* by_code: repeated rows of a code, however spelled, are combined.
AmountOf(rows, code) ==
    Total([i \in DOMAIN rows |-> rows[i].amount], {i \in DOMAIN rows : ItemCode(rows[i]) = code})

\* build_expenditure_partition; a year without a formula is refused.
Partition(rows, year) ==
    LET present  == {ItemCode(rows[i]) : i \in DOMAIN rows}
        included == present \cap DirectGeneralCodes
        byCode   == [c \in included |-> AmountOf(rows, c)]
        codesOf(key) == {c \in included : CategoryOf(c).key = key}
        amountOf == [key \in {Categories[k].key : k \in DOMAIN Categories} |->
                        Total(byCode, codesOf(key))]
    IN  IF year \notin SupportedYears THEN [refused |-> TRUE]
        ELSE [refused  |-> FALSE,
              parent   |-> Total(byCode, included),
              nodes    |-> {[key |-> key, amount |-> amountOf[key], codes |-> codesOf(key)] :
                               key \in {k \in DOMAIN amountOf : amountOf[k] # 0}},
              residual |-> Total(byCode, codesOf("none")),
              residualCodes |-> codesOf("none"),
              excluded |-> present \ included]

---------------------------------------------------------------------------
(* census_codes.py: the flow a native item belongs to.                     *)

IntergovPrefixes == {"L", "M", "N", "O", "P", "R", "S"}

\* Faulty variant of FlowType: assistance is an expenditure only under E.
FlowTypeNoAssistance(code) ==
    CASE code[1] \in {"E", "F", "G", "K"} \cup IntergovPrefixes -> "EXPENDITURE"
      [] OTHER -> "NONE"

FlowType(code) ==
    CASE code[1] \in {"E", "F", "G", "I", "J", "K"} \cup IntergovPrefixes -> "EXPENDITURE"
      [] code[1] \in {"A", "B", "C", "D", "T", "U"} -> "REVENUE"
      [] code[1] = "V" -> "INSURANCE"
      [] code[1] \in {"W", "Z"} -> "ASSET"
      [] code[1] \in {"X", "Y"} -> "DEBT"
      [] OTHER -> "NONE"

=============================================================================
