------------------------------ MODULE RespParser ------------------------------
(***************************************************************************)
(* RespParser behind RespCodec (resp/src/codec.rs): bytes of encoded       *)
(* values arrive in pieces, and the transport (tokio's Framed, external)   *)
(* calls decode after each piece until it asks for more.                   *)
(***************************************************************************)
EXTENDS RespDecode

CONSTANTS
  Sendable,    \* bound: the values a peer sends
  MaxFrames,   \* bound: values in one stream
  Cuts         \* where, besides safe places, the stream may be cut

ASSUME FramesAssumption == MaxFrames \in Nat
ASSUME CutsAssumption == Cuts \subseteq {"crlf", "marker", "nested"}

VARIABLES
  sent,           \* the values the peer encoded
  arrived,        \* how many bytes of them have arrived
  buf,            \* the transport's read buffer
  state, current_depth,
  out,            \* the values decode returned
  status,         \* "open", or how the stream ended
  cuts            \* history: the kinds of unsafe places a read has ended at

vars == <<sent, arrived, buf, state, current_depth, out, status, cuts>>

RECURSIVE DecodeAll(_, _, _, _)

\* Framed calls decode until it returns None, and ends the stream on an error.
DecodeAll(st, depth, s, values) ==
  LET r == Parse(st, depth, s)
  IN IF r.res = "value" THEN DecodeAll(r.state, r.depth, r.buf, Append(values, r.val))
     ELSE [r |-> r, values |-> values]

-----------------------------------------------------------------------------
\* Where the network may cut the stream.

ElementEnds(v) == {Len(Header(v)) + Len(EncodeAll(SubSeq(v.elems, 1, j))) : j \in DOMAIN v.elems}

\* The place after byte o of v's encoding, o < its length.
CutAfter(v, o) ==
  CASE v.kind \in Fixed -> "marker"
    [] v.kind \in Aggregate /\ o > Len(Header(v)) /\ o \notin ElementEnds(v) -> "nested"
    [] v.kind \in Aggregate /\ o \in ElementEnds(v) -> "safe"
    [] Encode(v)[o] = CR -> "crlf"
    [] OTHER -> "safe"

Wire == EncodeAll(sent)

\* Where a read that ends after byte p of the stream cuts it.
CutAt(p) ==
  LET i == CHOOSE j \in DOMAIN sent : /\ Len(EncodeAll(SubSeq(sent, 1, j - 1))) < p
                                     /\ p <= Len(EncodeAll(SubSeq(sent, 1, j)))
      o == p - Len(EncodeAll(SubSeq(sent, 1, i - 1)))
  IN IF o = Len(Encode(sent[i])) THEN "safe" ELSE CutAfter(sent[i], o)

Init ==
  /\ sent \in BoundedSeq(Sendable, MaxFrames)
  /\ arrived = 0
  /\ buf = <<>>
  /\ state = WaitingForType
  /\ current_depth = 0
  /\ out = <<>>
  /\ status = "open"
  /\ cuts = {}

\* The bytes up to p arrive and are decoded.
Receive(p) ==
  /\ status = "open"
  /\ arrived < p
  /\ CutAt(p) \in Cuts \cup {"safe"}
  /\ \E d \in {DecodeAll(state, current_depth, buf \o SubSeq(Wire, arrived + 1, p), out)} :
        /\ out' = d.values
        /\ buf' = d.r.buf
        /\ state' = d.r.state
        /\ current_depth' = d.r.depth
        /\ status' = IF d.r.res = "more" THEN "open" ELSE d.r.res
  /\ arrived' = p
  /\ cuts' = cuts \cup ({CutAt(p)} \ {"safe"})
  /\ UNCHANGED sent

Next == \E p \in 1..Len(Wire) : Receive(p)

Spec == Init /\ [][Next]_vars

-----------------------------------------------------------------------------

\* Type invariant.  The nesting depth stays within max_depth, and no more than
\* the announced bytes and the CR are held back.
TypeOK ==
  /\ arrived \in 0..Len(Wire)
  /\ state.at \in StateNames
  /\ \A k \in Counted : state.at = DataState[k] => Len(state.data) <= state.n + 1
  /\ current_depth \in 0..MaxDepth
  /\ status \in {"open", "error", "panic"}
  /\ cuts \subseteq Cuts

RECURSIVE Fits(_, _)

\* v may be parsed at this depth.
Fits(v, depth) ==
  IF v.kind \in Aggregate /\ v.elems # <<>>
  THEN /\ Count(v) <= MaxArrayLen
       /\ depth < MaxDepth
       /\ \A i \in DOMAIN v.elems : Fits(v.elems[i], depth + 1)
  ELSE v.kind \in Counted => Len(v.text) <= MaxBulkSize

\* "It handles incomplete data gracefully": however the bytes are cut, decode
\* returns the values that were encoded, in order, refuses none that is within
\* the limits, and has returned all of them when all bytes have arrived.
RoundTrip ==
  /\ IsPrefix(out, sent)
  /\ status = "error" => Len(out) < Len(sent) /\ ~Fits(sent[Len(out) + 1], 0)
  /\ status = "open" /\ arrived = Len(Wire) => out = sent /\ buf = <<>>

\* RoundTrip holds as long as every read ended at a safe place: between values,
\* between elements, or inside a value but neither after its CR, nor after the
\* marker of a null or a boolean, nor inside an element.
SafeCutsRoundTrip == cuts = {} => RoundTrip

\* A read that ends inside a null or a boolean loses the value, as the marker is
\* consumed before the length of the buffer is looked at (parser.rs line 211), but not
\* silently: no wrong value is returned, and a stream that has arrived in full and is
\* still open has given every value.
MarkerLossShows ==
  cuts = {"marker"} =>
    /\ IsPrefix(out, sent)
    /\ status # "panic"
    /\ status = "open" /\ arrived = Len(Wire) => out = sent

\* A line whose CR was held back swallows what follows it up to the next CRLF
\* (parser.rs line 286).  The damage shows: the first value decode returns that is
\* not the one sent in its place holds the CR.
SwallowedLinesShow ==
  cuts = {"crlf"} =>
    \A i \in DOMAIN out :
      IsPrefix(SubSeq(out, 1, i - 1), sent) /\ ~IsPrefix(SubSeq(out, 1, i), sent)
        => CR \in ToSet(out[i].text)

\* The length subtraction in the body of a counted value (parser.rs line 405) only
\* underflows after a read that ended between a CR and its LF.
PanicOnlyAtTerminator == status = "panic" => "crlf" \in cuts

\* No read pattern makes parse return a value over a limit: the depth a dropped
\* element had taken is never given back, so it is only ever counted too high.
LimitsEnforced == \A i \in DOMAIN out : Fits(out[i], 0)

=============================================================================
