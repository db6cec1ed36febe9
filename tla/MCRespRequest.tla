----------------------------- MODULE MCRespRequest -----------------------------
(***************************************************************************)
(* RespRequest for TLC: requests of every command, with words that need    *)
(* quotes or escapes, wrong names and arities, and arguments of other      *)
(* kinds.  Two users share the pool.                                       *)
(***************************************************************************)
EXTENDS RespRequest, TLC

W(text) == Val("bulk", text, <<>>)
N == Val("int", <<"1">>, <<>>)

Words ==
  {<<>>,
   <<W(<<"PING">>)>>, <<W(<<"PING">>), W(<<>>)>>, <<W(<<"PING">>), N>>,
   <<W(<<"PING">>), W(<<"a">>), W(<<"a">>)>>,
   <<W(<<"get">>), W(<<"a", SP, DQ, SQ>>)>>, <<W(<<"GET">>), NoneVal("bulk")>>, <<W(<<"GET">>)>>,
   <<W(<<"SET">>), W(<<NotUtf8>>), W(<<"a">>)>>, <<W(<<"SET">>), W(<<BS, "n">>), W(<<NL, BS>>)>>,
   <<W(<<"SET">>), W(<<"a">>), N>>,
   <<W(<<"DEL">>), W(<<"a">>), W(<<SQ>>)>>, <<W(<<"DEL">>)>>,
   <<W(<<"EXISTS">>), W(<<>>), W(<<TAB>>), W(<<"a">>)>>, <<W(<<"EXISTS">>), N>>,
   <<W(<<"FLUSH">>), W(<<"a">>)>>, <<N>>, <<W(<<NotUtf8>>)>>,
   <<Val("verbatim", <<"t", "x", "t", ":", "GET">>, <<>>), Val("simple", <<"a">>, <<>>)>>}

MCRequest ==
  {Val("array", <<>>, words) : words \in Words} \cup {NoneVal("array"), W(<<"PING">>)}

Symmetry == Permutations(User)

=============================================================================
