-------------------------- MODULE MCSegmentSearch --------------------------
(* SegmentSearch with a single-valued integer field and a multi-valued     *)
(* string field.                                                           *)
EXTENDS SegmentSearch, TLC

CONSTANTS d1, d2, d3

MCAttr == d1 :> [year |-> <<1>>, tags |-> <<"a", "b">>]
       @@ d2 :> [year |-> <<>>,  tags |-> <<"b", "c">>]
       @@ d3 :> None

MCQueries == {d1 :> 2 @@ d2 :> 1 @@ d3 :> 1,
              d1 :> 0 @@ d2 :> 1 @@ d3 :> 2}

Tag(values)  == [kind |-> "leaf", field |-> "tags", values |-> values]
Year(values) == [kind |-> "leaf", field |-> "year", values |-> values]
Not(filter)  == [kind |-> "not", child |-> filter]

MCFilters == {Tag({"b"}), Not(Tag({"a"})),
              [kind |-> "or", children |-> <<Year({1, 2}), Tag({"d", "c"})>>],
              [kind |-> "and", children |-> <<Not(Year({2})), Tag({"a", "c"})>>]}
=============================================================================
