----------------------------- MODULE MCRespParser -----------------------------
(***************************************************************************)
(* RespParser for TLC: one or two values of every kind, with nesting, and  *)
(* values over the limits.                                                 *)
(***************************************************************************)
EXTENDS RespParser

One == Val("int", <<"1">>, <<>>)
A == Val("bulk", <<"a">>, <<>>)

Scalars ==
  {Val("simple", <<"a">>, <<>>), Val("error", <<"a">>, <<>>), Val("int", <<"-", "1">>, <<>>),
   Val("double", <<"1">>, <<>>), Val("big", <<"1">>, <<>>), Val("null", <<>>, <<>>),
   Val("bool", <<"t">>, <<>>), Val("bool", <<"f">>, <<>>), A, Val("bulk", <<>>, <<>>), NoneVal("bulk"),
   Val("bulkerror", <<"a">>, <<>>), Val("verbatim", <<"t", "x", "t", ":", "a">>, <<>>)}

Nested == Val("array", <<>>, <<Val("array", <<>>, <<One>>), A>>)

Aggregates ==
  {Nested, NoneVal("array"), Val("array", <<>>, <<>>), Val("set", <<>>, <<One, A>>),
   Val("push", <<>>, <<A>>), Val("map", <<>>, <<A, One, One, A>>)}

OverLimit ==
  {Val("bulk", <<"a", "a", "a", "a", "a", "a">>, <<>>), Val("set", <<>>, <<One, One, One>>),
   Val("array", <<>>, <<Nested>>)}

MCSendable == Scalars \cup Aggregates \cup OverLimit

=============================================================================
