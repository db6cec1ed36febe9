------------------------------ MODULE RespRequest ------------------------------
(***************************************************************************)
(* A request from its arguments to the command the other side reads, by    *)
(* both routes the resp crate offers: as an array, encoded into a buffer   *)
(* of the pool (examples/buffer_pool_usage.rs), parsed and given to        *)
(* RespCommand::from_value; or as a line, quoted where it must be, given   *)
(* to InlineCommandParser.  Reads here end between values; RespParser      *)
(* covers the others.                                                      *)
(***************************************************************************)
EXTENDS RespDecode, RespCommand, BufferPool

CONSTANT Request   \* bound: the values that are sent as requests

VARIABLES
  asked,   \* what each user asks, and by which route
  got      \* the command, or error, that came of it

vars == <<buffers, held, asked, got>>

Nothing == Error("none")
Asked(value, route) == [value |-> value, route |-> route]

\* Only an array of strings can be written as a line.
Strings(request) ==
  /\ request.kind = "array"
  /\ \A i \in DOMAIN request.elems : request.elems[i].kind = "bulk" /\ ~request.elems[i].none

-----------------------------------------------------------------------------
\* A line that stands for the same words.

Escape(ch) ==
  CASE ch = NL -> <<BS, "n">>
    [] ch = TAB -> <<BS, "t">>
    [] ch = CR -> <<BS, "r">>
    [] ch \in {BS, DQ, SQ} -> <<BS, ch>>
    [] OTHER -> <<ch>>

Quoted(text, q) == <<q>> \o FoldLeft(LAMBDA acc, ch : acc \o Escape(ch), <<>>, text) \o <<q>>

\* A word that needs no quotes; a backslash is an ordinary character there.
Bare(text) == text # <<>> /\ ToSet(text) \cap {SP, TAB, DQ, SQ, NL, CR} = {}

Word(text, q) == IF q = "" /\ Bare(text) THEN text ELSE Quoted(text, IF q = "" THEN DQ ELSE q)

LineOf(request, q, gap) ==
  FoldLeft(LAMBDA acc, v : acc \o gap \o Word(v.text, q), <<>>, request.elems) \o gap \o CRLF

-----------------------------------------------------------------------------

Init ==
  /\ PoolInit
  /\ asked = [u \in User |-> Asked(NullVal, "none")]
  /\ got = [u \in User |-> Nothing]

\* Bound: a user sends one request; the next user may get the buffer of the last.
Fresh(u) == asked[u].route = "none"

\* acquire, and then encode the request into the buffer.
SendArray(u, request) ==
  /\ Fresh(u)
  /\ Acquire(u)
  /\ asked' = [asked EXCEPT ![u] = Asked(request, "array")]
  /\ UNCHANGED got

EncodeRequest(u) ==
  /\ asked[u].route = "array"
  /\ held' = [held EXCEPT ![u] = Write(held[u], Encode(asked[u].value))]
  /\ asked' = [asked EXCEPT ![u].route = "encoded"]
  /\ UNCHANGED <<buffers, got>>

\* The bytes of the buffer are parsed, and the first value is read as a command.
Serve(bytes) ==
  LET r == Parse(WaitingForType, 0, bytes)
  IN IF r.res = "value" THEN FromValue(r.val) ELSE Error(r.res)

ReadArray(u) ==
  /\ asked[u].route = "encoded" /\ got[u] = Nothing
  /\ got' = [got EXCEPT ![u] = Serve(held[u].bytes)]
  /\ UNCHANGED <<buffers, held, asked>>

ReleaseBuffer(u, split) ==
  /\ got[u] # Nothing
  /\ Release(u, split)
  /\ UNCHANGED <<asked, got>>

\* A line needs no buffer of the pool; one that has lost its CRLF is refused.
SendLine(u, request, q, gap, whole) ==
  /\ Fresh(u)
  /\ Strings(request)
  /\ asked' = [asked EXCEPT ![u] = Asked(request, IF whole THEN "line" ELSE "cut line")]
  /\ got' = [got EXCEPT ![u] =
                LET line == LineOf(request, q, gap)
                IN InlineCommand(IF whole THEN line ELSE Front(line))]
  /\ UNCHANGED <<buffers, held>>

Next ==
  \E u \in User :
    \/ \E request \in Request : SendArray(u, request)
    \/ EncodeRequest(u)
    \/ ReadArray(u)
    \/ \E split \in BOOLEAN : ReleaseBuffer(u, split)
    \/ \E request \in Request, q \in {"", DQ, SQ}, gap \in {<<SP>>, <<SP, TAB>>}, whole \in BOOLEAN :
         SendLine(u, request, q, gap, whole)

Spec == Init /\ [][Next]_vars

-----------------------------------------------------------------------------

\* The command table: the names, and how many elements each takes.
Table == [Get |-> <<"GET", {2}>>, Set |-> <<"SET", {3}>>, Del |-> <<"DEL", 2..MaxArrayLen>>,
          Exists |-> <<"EXISTS", 2..MaxArrayLen>>, Ping |-> <<"PING", {1, 2}>>]

IsText(v) == AsBytes(v) # {}

\* The request asks for the command c of the table.
AsksFor(a, c) ==
  LET elems == a.value.elems
  IN /\ a.value.kind = "array" /\ elems # <<>>
     /\ IsText(elems[1]) /\ Uppercase(The(AsBytes(elems[1]))) = <<Table[c][1]>>
     /\ Len(elems) \in Table[c][2]
     /\ c = "Ping" \/ \A i \in DOMAIN elems : IsText(elems[i])
     /\ a.route # "cut line"
     /\ a.route = "line" => \A i \in DOMAIN elems : IsUtf8(elems[i].text)

\* By either route, and whatever the pool's buffer held before, a request becomes a
\* command exactly when its name, its arity and its arguments make it one (and a line
\* is UTF-8 and ends in CRLF), and the command carries every argument byte for byte.
\* The one argument that may vanish is a PING's that is no string (command.rs line 216).
CommandKept ==
  \A u \in User : got[u] # Nothing =>
    /\ \A c \in Commands : got[u].res = c <=> AsksFor(asked[u], c)
    /\ got[u].res \in Commands =>
         got[u].args = FoldLeft(LAMBDA acc, v : IF IsText(v) THEN Append(acc, The(AsBytes(v))) ELSE acc,
                                <<>>, Tail(asked[u].value.elems))

=============================================================================
