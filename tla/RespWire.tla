------------------------------- MODULE RespWire -------------------------------
(***************************************************************************)
(* RESP values and their encoding (resp/src/types.rs, encoder.rs).  A byte *)
(* is a one-character string, CR or LF; a value keeps the bytes of its     *)
(* text, in the canonical form the encoder gives them, and its elements.   *)
(* The elements of a map are its keys and values in turn.                  *)
(***************************************************************************)
EXTENDS Integers, Sequences, SequencesExt

CR == "CR"
LF == "LF"
CRLF == <<CR, LF>>

Marker ==
  [simple |-> "+", error |-> "-", int |-> ":", bulk |-> "$", array |-> "*",
   null |-> "_", bool |-> "#", double |-> ",", big |-> "(", bulkerror |-> "!",
   verbatim |-> "=", map |-> "%", set |-> "~", push |-> ">"]

Line == {"simple", "error", "int", "double", "big"}
Fixed == {"null", "bool"}
Counted == {"bulk", "bulkerror", "verbatim"}
Aggregate == {"array", "map", "set", "push"}

\* none is TRUE for BulkString(None) and Array(None).
Val(kind, text, elems) == [kind |-> kind, none |-> FALSE, text |-> text, elems |-> elems]
NoneVal(kind) == [kind |-> kind, none |-> TRUE, text |-> <<>>, elems |-> <<>>]
NullVal == Val("null", <<>>, <<>>)

\* Decimal text: u64::to_string for one digit, and str::parse::<i64>.
Digits == <<"0", "1", "2", "3", "4", "5", "6", "7", "8", "9">>
DigitOf(n) == Digits[n + 1]
DigitValue(b) == (CHOOSE i \in DOMAIN Digits : Digits[i] = b) - 1

IsNumber(s) ==
  LET ds == IF s # <<>> /\ Head(s) \in {"-", "+"} THEN Tail(s) ELSE s
  IN ds # <<>> /\ \A i \in DOMAIN ds : ds[i] \in ToSet(Digits)

Number(s) ==
  LET ds == IF Head(s) \in {"-", "+"} THEN Tail(s) ELSE s
      n == FoldLeft(LAMBDA acc, b : 10 * acc + DigitValue(b), 0, ds)
  IN IF Head(s) = "-" THEN 0 - n ELSE n

\* A map counts pairs.
Count(v) == IF v.kind = "map" THEN Len(v.elems) \div 2 ELSE Len(v.elems)

RECURSIVE Encode(_)

EncodeAll(vs) == FoldLeft(LAMBDA acc, v : acc \o Encode(v), <<>>, vs)

Header(v) ==
  IF v.none THEN <<Marker[v.kind], "-", "1">> \o CRLF
  ELSE <<Marker[v.kind], DigitOf(IF v.kind \in Aggregate THEN Count(v) ELSE Len(v.text))>> \o CRLF

\* RespEncoder::encode.
Encode(v) ==
  CASE v.kind \in Line \cup Fixed -> <<Marker[v.kind]>> \o v.text \o CRLF
    [] v.none -> Header(v)
    [] v.kind \in Counted -> Header(v) \o v.text \o CRLF
    [] v.kind \in Aggregate -> Header(v) \o EncodeAll(v.elems)

=============================================================================
