------------------------------ MODULE RespCommand ------------------------------
(***************************************************************************)
(* Commands from values and from lines: RespCommand::from_value            *)
(* (resp/src/command.rs) and InlineCommandParser (resp/src/inline.rs).  A  *)
(* character is one symbol; a command name is a symbol of its own.         *)
(***************************************************************************)
EXTENDS RespWire

SP == " "
TAB == "\t"
DQ == "\""
SQ == "'"
BS == "\\"
NL == "\n"
NotUtf8 == "0xff"   \* a byte that is not UTF-8

IsUtf8(text) == NotUtf8 \notin ToSet(text)

\* A command, or the ProtocolError that refuses it.
Command(name, args) == [res |-> name, args |-> args]
Error(e) == [res |-> e, args |-> <<>>]

Commands == {"Get", "Set", "Del", "Exists", "Ping"}

-----------------------------------------------------------------------------
\* RespValue::as_bytes and into_array: the contents, in a singleton, or {}.

\* A verbatim string's bytes are those after its format.
AsBytes(v) ==
  IF v.none THEN {}
  ELSE IF v.kind \in {"simple", "bulk", "error", "big", "bulkerror"} THEN {v.text}
  ELSE IF v.kind = "verbatim" THEN {SubSeq(v.text, 5, Len(v.text))}
  ELSE {}

IntoArray(v) == IF v.kind = "array" /\ ~v.none THEN {v.elems} ELSE {}

The(S) == CHOOSE x \in S : TRUE

\* The arguments after the name, each of them a key.
Keys(elements) ==
  LET args == Tail(elements)
  IN IF \E i \in DOMAIN args : AsBytes(args[i]) = {} THEN {}
     ELSE {[i \in DOMAIN args |-> The(AsBytes(args[i]))]}

ParseGet(elements) ==
  IF Len(elements) # 2 THEN Error("WrongArity")
  ELSE IF Keys(elements) = {} THEN Error("InvalidKey")
  ELSE Command("Get", The(Keys(elements)))

ParseSet(elements) ==
  IF Len(elements) # 3 THEN Error("WrongArity")
  ELSE IF AsBytes(elements[2]) = {} THEN Error("InvalidKey")
  ELSE IF AsBytes(elements[3]) = {} THEN Error("InvalidValue")
  ELSE Command("Set", The(Keys(elements)))

ParseDel(elements) ==
  IF Len(elements) < 2 THEN Error("WrongArity")
  ELSE IF Keys(elements) = {} THEN Error("InvalidKey")
  ELSE Command("Del", The(Keys(elements)))

ParseExists(elements) ==
  IF Len(elements) < 2 THEN Error("WrongArity")
  ELSE IF Keys(elements) = {} THEN Error("InvalidKey")
  ELSE Command("Exists", The(Keys(elements)))

\* A message that is no string is no message.
ParsePing(elements) ==
  CASE Len(elements) = 1 -> Command("Ping", <<>>)
    [] Len(elements) = 2 ->
         Command("Ping", IF Keys(elements) = {} THEN <<>> ELSE The(Keys(elements)))
    [] OTHER -> Error("WrongArity")

\* str::to_uppercase, of the names the model uses.
Uppercase(text) == IF text = <<"get">> THEN <<"GET">> ELSE text

FromValue(value) ==
  IF IntoArray(value) = {} THEN Error("ExpectedArray")
  ELSE LET elements == The(IntoArray(value))
       IN IF elements = <<>> THEN Error("EmptyCommand")
          ELSE IF AsBytes(Head(elements)) = {} THEN Error("InvalidCommandName")
          ELSE LET name == The(AsBytes(Head(elements)))
               IN CASE ~IsUtf8(name) -> Error("InvalidCommandName")
                    [] Uppercase(name) = <<"GET">> -> ParseGet(elements)
                    [] Uppercase(name) = <<"SET">> -> ParseSet(elements)
                    [] Uppercase(name) = <<"DEL">> -> ParseDel(elements)
                    [] Uppercase(name) = <<"EXISTS">> -> ParseExists(elements)
                    [] Uppercase(name) = <<"PING">> -> ParsePing(elements)
                    [] OTHER -> Error("UnknownCommand")

-----------------------------------------------------------------------------
\* split_inline_command: a fold over the characters.  quote is the quote of the
\* region the split is in, escaped that a backslash was read there.

Bytes(text) == Val("bulk", text, <<>>)

SplitStart == [tokens |-> <<>>, current |-> <<>>, quote |-> "", escaped |-> FALSE]

Push(s) == [s EXCEPT !.tokens = Append(s.tokens, s.current), !.current = <<>>]
Keep(s, text) == [s EXCEPT !.current = s.current \o text]

Unescaped(ch) ==
  CASE ch = "n" -> <<NL>>
    [] ch = "t" -> <<TAB>>
    [] ch = "r" -> <<CR>>
    [] ch \in {BS, DQ, SQ} -> <<ch>>
    [] OTHER -> <<BS, ch>>

\* The quote that ends a region ends the token too, even an empty one.
SplitChar(s, ch) ==
  CASE s.escaped -> [Keep(s, Unescaped(ch)) EXCEPT !.escaped = FALSE]
    [] ch \in {SP, TAB} /\ s.quote = "" -> IF s.current = <<>> THEN s ELSE Push(s)
    [] ch \in {DQ, SQ} /\ s.quote = "" -> [s EXCEPT !.quote = ch]
    [] ch = s.quote -> [Push(s) EXCEPT !.quote = ""]
    [] ch = BS /\ s.quote # "" -> [s EXCEPT !.escaped = TRUE]
    [] OTHER -> Keep(s, <<ch>>)

\* The tokens of a line, or the error that refuses it.
SplitInlineCommand(line) ==
  LET s == FoldLeft(SplitChar, SplitStart, line)
      tokens == IF s.current = <<>> THEN s.tokens ELSE Append(s.tokens, s.current)
  IN IF s.quote # "" THEN Error("InvalidLength")
     ELSE IF tokens = <<>> THEN Error("EmptyCommand")
     ELSE Command("tokens", tokens)

\* InlineCommandParser::parse, then from_value.
InlineCommand(line) ==
  LET text == SubSeq(line, 1, Len(line) - 2)
      split == SplitInlineCommand(text)
  IN IF Len(line) < 2 \/ ~IsSuffix(CRLF, line) THEN Error("InvalidLength")
     ELSE IF ~IsUtf8(text) THEN Error("Utf8")
     ELSE IF split.res # "tokens" THEN split
     ELSE FromValue(Val("array", <<>>, [i \in DOMAIN split.args |-> Bytes(split.args[i])]))

=============================================================================
