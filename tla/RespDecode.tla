------------------------------ MODULE RespDecode ------------------------------
(***************************************************************************)
(* RespParser::parse (resp/src/parser.rs) as a function of the parser's    *)
(* state, its nesting depth and the read buffer: one operator per          *)
(* ParseState, named after it.                                             *)
(***************************************************************************)
EXTENDS RespWire

CONSTANTS MaxBulkSize, MaxArrayLen, MaxDepth   \* max_bulk_size, max_array_len, max_depth

ASSUME LimitsAssumption == MaxBulkSize \in Nat /\ MaxArrayLen \in Nat /\ MaxDepth \in Nat

-----------------------------------------------------------------------------
\* ParseState: its name, the kind of value, the bytes held back (data, len_bytes),
\* the announced length or the elements still missing, and those collected.
\* current_key of a map is the last of an odd number of elements.

State(at, kind, data, n, elems) ==
  [at |-> at, kind |-> kind, data |-> data, n |-> n, elems |-> elems]

WaitingForType == State("WaitingForType", "none", <<>>, 0, <<>>)

\* The state a type marker leads to, and the one its length line leads to.
FirstState ==
  [simple |-> "SimpleString", error |-> "Error", int |-> "Integer", double |-> "Double",
   big |-> "BigNumber", bulk |-> "BulkStringLen", bulkerror |-> "BulkErrorLen",
   verbatim |-> "VerbatimStringLen", array |-> "ArrayLen", map |-> "MapLen",
   set |-> "SetLen", push |-> "PushLen"]

DataState ==
  [bulk |-> "BulkStringData", bulkerror |-> "BulkErrorData", verbatim |-> "VerbatimStringData",
   array |-> "ArrayData", map |-> "MapData", set |-> "SetData", push |-> "PushData"]

StateNames ==
  {"WaitingForType"} \cup {FirstState[k] : k \in DOMAIN FirstState} \cup {DataState[k] : k \in DOMAIN DataState}

\* What one call of parse leaves behind.
Returned(res, val, st, depth, rest) ==
  [res |-> res, val |-> val, state |-> st, depth |-> depth, buf |-> rest]

NoVal == NoneVal("none")
NeedMore(st, depth, rest) == Returned("more", NoVal, st, depth, rest)
Done(val, depth, rest) == Returned("value", val, WaitingForType, depth, rest)
Refuse(st, depth, rest) == Returned("error", NoVal, st, depth, rest)
Panic(st, depth, rest) == Returned("panic", NoVal, st, depth, rest)

\* find_crlf: the bytes before the first CRLF and those after it.
HasCrlf(s) == \E i \in 1..(Len(s) - 1) : s[i] = CR /\ s[i + 1] = LF
CrlfAt(s) == CHOOSE i \in 1..(Len(s) - 1) :
               /\ s[i] = CR /\ s[i + 1] = LF
               /\ \A j \in 1..(i - 1) : ~(s[j] = CR /\ s[j + 1] = LF)
Before(s) == SubSeq(s, 1, CrlfAt(s) - 1)
After(s) == SubSeq(s, CrlfAt(s) + 2, Len(s))
From(s, i) == SubSeq(s, i, Len(s))

RECURSIVE Parse(_, _, _)

-----------------------------------------------------------------------------
\* The type marker: rest is what follows it.

\* Too few bytes for the whole value: the state is unchanged, yet the marker is gone.
ParseNull(st, depth, rest) ==
  IF Len(rest) < 2 THEN NeedMore(st, depth, rest)
  ELSE IF SubSeq(rest, 1, 2) # CRLF THEN Refuse(st, depth, rest)
  ELSE Done(NullVal, depth, From(rest, 3))

\* Any letter but t is false.
ParseBoolean(st, depth, rest) ==
  IF Len(rest) < 3 THEN NeedMore(st, depth, rest)
  ELSE IF SubSeq(rest, 2, 3) # CRLF THEN Refuse(st, depth, rest)
  ELSE Done(Val("bool", IF rest[1] = "t" THEN <<"t">> ELSE <<"f">>, <<>>), depth, From(rest, 4))

\* Mutant: a byte that is no type marker is skipped.
ParseMarkerSkips(st, depth, s) ==
  IF s = <<>> THEN NeedMore(st, depth, s)
  ELSE IF ~\E k \in DOMAIN Marker : Marker[k] = Head(s) THEN Parse(st, depth, Tail(s))
  ELSE LET kind == CHOOSE k \in DOMAIN Marker : Marker[k] = Head(s)
       IN CASE kind = "null" -> ParseNull(st, depth, Tail(s))
            [] kind = "bool" -> ParseBoolean(st, depth, Tail(s))
            [] OTHER -> Parse(State(FirstState[kind], kind, <<>>, 0, <<>>), depth, Tail(s))

ParseMarker(st, depth, s) ==
  IF s = <<>> THEN NeedMore(st, depth, s)
  ELSE IF ~\E k \in DOMAIN Marker : Marker[k] = Head(s) THEN Refuse(st, depth, Tail(s))
  ELSE LET kind == CHOOSE k \in DOMAIN Marker : Marker[k] = Head(s)
       IN CASE kind = "null" -> ParseNull(st, depth, Tail(s))
            [] kind = "bool" -> ParseBoolean(st, depth, Tail(s))
            [] OTHER -> Parse(State(FirstState[kind], kind, <<>>, 0, <<>>), depth, Tail(s))

-----------------------------------------------------------------------------
\* Values of one line.

\* Mutant: a CR at the end of the buffer is taken for the end of the line.
HoldBackTrimsCr(st, depth, s) ==
  NeedMore([st EXCEPT !.data = st.data \o IF s # <<>> /\ Last(s) = CR THEN Front(s) ELSE s], depth, <<>>)

\* Without a CRLF in the buffer all of it is held back, a lone CR included.
HoldBack(st, depth, s) == NeedMore([st EXCEPT !.data = st.data \o s], depth, <<>>)

ParseLine(st, depth, s) ==
  IF ~HasCrlf(s) THEN HoldBack(st, depth, s)
  ELSE Done(Val(st.kind, st.data \o Before(s), <<>>), depth, After(s))

ParseSimpleString(st, depth, s) == ParseLine(st, depth, s)
ParseError(st, depth, s) == ParseLine(st, depth, s)
ParseBigNumber(st, depth, s) == ParseLine(st, depth, s)

\* A number's text is kept in the form the encoder gives it: a sign + is dropped.
\* words are the texts besides decimal ones that parse.
ParseNumber(st, depth, s, words) ==
  LET text == st.data \o Before(s)
  IN IF ~HasCrlf(s) THEN HoldBack(st, depth, s)
     ELSE IF text \notin words /\ ~IsNumber(text) THEN Refuse([st EXCEPT !.data = text], depth, After(s))
     ELSE Done(Val(st.kind, IF Head(text) = "+" THEN Tail(text) ELSE text, <<>>), depth, After(s))

ParseInteger(st, depth, s) == ParseNumber(st, depth, s, {})

\* Of the texts f64 parses, the integral ones; inf, -inf and nan are words of their own.
ParseDouble(st, depth, s) == ParseNumber(st, depth, s, {<<"inf">>, <<"-", "inf">>, <<"nan">>})

-----------------------------------------------------------------------------
\* Length lines.  nulls holds the value that length -1 stands for, if any.

\* A length line that is complete: refused, a null value, or the length n of what follows.
LengthOf(text, nulls, least, most) ==
  IF ~IsNumber(text) THEN [res |-> "refused", n |-> 0]
  ELSE IF Number(text) = -1 /\ nulls # {} THEN [res |-> "null", n |-> 0]
  ELSE IF Number(text) < least \/ Number(text) > most THEN [res |-> "refused", n |-> 0]
  ELSE [res |-> "length", n |-> Number(text)]

\* An empty value that is all there is returned at once.
ParseLen(st, depth, s, nulls, least) ==
  LET text == st.data \o Before(s)
      held == [st EXCEPT !.data = text]
      rest == After(s)
      len == LengthOf(text, nulls, least, MaxBulkSize)
      data == State(DataState[st.kind], st.kind, <<>>, len.n, <<>>)
  IN IF ~HasCrlf(s) THEN HoldBack(st, depth, s)
     ELSE IF len.res = "null" THEN Done(CHOOSE v \in nulls : TRUE, depth, rest)
     ELSE IF len.res = "refused" THEN Refuse(held, depth, rest)
     ELSE IF len.n > 0 THEN Parse(data, depth, rest)
     ELSE IF Len(rest) < 2 THEN NeedMore(data, depth, rest)
     ELSE IF SubSeq(rest, 1, 2) # CRLF THEN Refuse(held, depth, rest)
     ELSE Done(Val(st.kind, <<>>, <<>>), depth, From(rest, 3))

ParseBulkStringLen(st, depth, s) == ParseLen(st, depth, s, {NoneVal("bulk")}, 0)
ParseBulkErrorLen(st, depth, s) == ParseLen(st, depth, s, {NullVal}, 0)

\* A verbatim string begins with a format and a colon.
ParseVerbatimStringLen(st, depth, s) == ParseLen(st, depth, s, {NullVal}, 4)

\* Mutant: the nesting depth is not checked.
ParseCountAnyDepth(st, depth, s, nulls) ==
  LET text == st.data \o Before(s)
      rest == After(s)
      len == LengthOf(text, nulls, 0, MaxArrayLen)
  IN IF ~HasCrlf(s) THEN HoldBack(st, depth, s)
     ELSE IF len.res = "null" THEN Done(CHOOSE v \in nulls : TRUE, depth, rest)
     ELSE IF len.res = "refused" THEN Refuse([st EXCEPT !.data = text], depth, rest)
     ELSE IF len.n = 0 THEN Done(Val(st.kind, <<>>, <<>>), depth, rest)
     ELSE Parse(State(DataState[st.kind], st.kind, <<>>, len.n, <<>>), depth + 1, rest)

\* A value with elements is one level deeper.
ParseCount(st, depth, s, nulls) ==
  LET text == st.data \o Before(s)
      held == [st EXCEPT !.data = text]
      rest == After(s)
      len == LengthOf(text, nulls, 0, MaxArrayLen)
  IN IF ~HasCrlf(s) THEN HoldBack(st, depth, s)
     ELSE IF len.res = "null" THEN Done(CHOOSE v \in nulls : TRUE, depth, rest)
     ELSE IF len.res = "refused" THEN Refuse(held, depth, rest)
     ELSE IF len.n = 0 THEN Done(Val(st.kind, <<>>, <<>>), depth, rest)
     ELSE IF depth + 1 > MaxDepth THEN Refuse(held, depth, rest)
     ELSE Parse(State(DataState[st.kind], st.kind, <<>>, len.n, <<>>), depth + 1, rest)

ParseArrayLen(st, depth, s) == ParseCount(st, depth, s, {NoneVal("array")})
ParseMapLen(st, depth, s) == ParseCount(st, depth, s, {NullVal})
ParseSetLen(st, depth, s) == ParseCount(st, depth, s, {NullVal})
ParsePushLen(st, depth, s) == ParseCount(st, depth, s, {})

-----------------------------------------------------------------------------
\* The bytes of a counted value.

\* Mutant: the state waits for one byte more than the value has.
ParseBytesWaits(st, depth, s, colon) ==
  LET data_needed == st.n - Len(st.data)
  IN IF Len(s) <= data_needed + 2 THEN HoldBack(st, depth, s)
     ELSE IF data_needed < 0 THEN Panic(st, depth, s)
     ELSE Done(Val(st.kind, st.data \o SubSeq(s, 1, data_needed), <<>>), depth, From(s, data_needed + 3))

\* data may already hold the CR: then len - data.len() underflows.  colon is where a
\* verbatim string has its colon, 0 for the others.
ParseBytes(st, depth, s, colon) ==
  LET needed == st.n + 2 - Len(st.data)
      data_needed == st.n - Len(st.data)
      text == st.data \o SubSeq(s, 1, data_needed)
      held == [st EXCEPT !.data = text]
      rest == From(s, data_needed + 3)
  IN IF Len(s) < needed THEN HoldBack(st, depth, s)
     ELSE IF data_needed < 0 THEN Panic(st, depth, s)
     ELSE IF SubSeq(s, data_needed + 1, data_needed + 2) # CRLF THEN Refuse(held, depth, s)
     ELSE IF colon > 0 /\ text[colon] # ":" THEN Refuse(held, depth, rest)
     ELSE Done(Val(st.kind, text, <<>>), depth, rest)

ParseBulkStringData(st, depth, s) == ParseBytes(st, depth, s, 0)
ParseBulkErrorData(st, depth, s) == ParseBytes(st, depth, s, 0)
ParseVerbatimStringData(st, depth, s) == ParseBytes(st, depth, s, 4)

-----------------------------------------------------------------------------
\* The elements of an aggregate.

\* Mutant: the depth is not given back when an aggregate is complete.
ParseElemsLeaksDepth(st, depth, s, counts) ==
  LET r == Parse(WaitingForType, depth, s)
      elems == Append(st.elems, r.val)
      n == IF counts THEN st.n - 1 ELSE st.n
  IN CASE r.res \in {"error", "panic"} -> r
       [] r.res = "more" -> NeedMore(st, r.depth, r.buf)
       [] r.res = "value" ->
            IF n = 0 THEN Done(Val(st.kind, <<>>, elems), r.depth, r.buf)
            ELSE Parse([st EXCEPT !.n = n, !.elems = elems], r.depth, r.buf)

\* Parse one element; counts says whether it lowers remaining.  When it is
\* incomplete the state it left is dropped; its bytes are gone from the buffer.
ParseElems(st, depth, s, counts) ==
  LET r == Parse(WaitingForType, depth, s)
      elems == Append(st.elems, r.val)
      n == IF counts THEN st.n - 1 ELSE st.n
  IN CASE r.res \in {"error", "panic"} -> r
       [] r.res = "more" -> NeedMore(st, r.depth, r.buf)
       [] r.res = "value" ->
            IF n = 0 THEN Done(Val(st.kind, <<>>, elems), r.depth - 1, r.buf)
            ELSE Parse([st EXCEPT !.n = n, !.elems = elems], r.depth, r.buf)

ParseArrayData(st, depth, s) == ParseElems(st, depth, s, TRUE)
ParseSetData(st, depth, s) == ParseElems(st, depth, s, TRUE)
ParsePushData(st, depth, s) == ParseElems(st, depth, s, TRUE)

\* A key leaves remaining as it is: the value after it completes the pair.
ParseMapData(st, depth, s) == ParseElems(st, depth, s, Len(st.elems) % 2 = 1)

\* RespParser::parse.
Parse(st, depth, s) ==
  CASE st.at = "WaitingForType" -> ParseMarker(st, depth, s)
    [] st.at = "SimpleString" -> ParseSimpleString(st, depth, s)
    [] st.at = "Error" -> ParseError(st, depth, s)
    [] st.at = "Integer" -> ParseInteger(st, depth, s)
    [] st.at = "Double" -> ParseDouble(st, depth, s)
    [] st.at = "BigNumber" -> ParseBigNumber(st, depth, s)
    [] st.at = "BulkStringLen" -> ParseBulkStringLen(st, depth, s)
    [] st.at = "BulkErrorLen" -> ParseBulkErrorLen(st, depth, s)
    [] st.at = "VerbatimStringLen" -> ParseVerbatimStringLen(st, depth, s)
    [] st.at = "ArrayLen" -> ParseArrayLen(st, depth, s)
    [] st.at = "MapLen" -> ParseMapLen(st, depth, s)
    [] st.at = "SetLen" -> ParseSetLen(st, depth, s)
    [] st.at = "PushLen" -> ParsePushLen(st, depth, s)
    [] st.at = "BulkStringData" -> ParseBulkStringData(st, depth, s)
    [] st.at = "BulkErrorData" -> ParseBulkErrorData(st, depth, s)
    [] st.at = "VerbatimStringData" -> ParseVerbatimStringData(st, depth, s)
    [] st.at = "ArrayData" -> ParseArrayData(st, depth, s)
    [] st.at = "MapData" -> ParseMapData(st, depth, s)
    [] st.at = "SetData" -> ParseSetData(st, depth, s)
    [] st.at = "PushData" -> ParsePushData(st, depth, s)

=============================================================================
