--------------------------- MODULE MCHeaderParser ---------------------------
(***************************************************************************)
(* HeaderParser on every short text over the cells its loop tells apart,   *)
(* on the requests of one and two headers, and on the heads serve_file     *)
(* sends.                                                                  *)
(***************************************************************************)
EXTENDS HeaderParser, ResponseHead

Alphabet == {CR, LF, SP, COLON, "a"}
AnyText == {start \o rest : start \in {<<>>, <<"GET", CR, LF>>},
                            rest \in BoundedSeq(Alphabet, 5)}
AnySource == {[text |-> t, fields |-> <<>>, rendered |-> FALSE, starts |-> <<>>] : t \in AnyText}

\* Where the lines after the first one begin.
Starts(text) == SetToSortSeq({k + 1 : k \in {j \in 1..(Len(text) - 1) : text[j] = LF}}, <)
Rendering(text, fields) ==
  [text |-> text, fields |-> fields, rendered |-> TRUE, starts |-> Starts(text)]

\* Names and values with what could mislead the loop: a colon or a space in
\* the value, no value, names one of which begins the other.
Field == [key : {<<"a">>, <<"a", "b">>},
          value : {<<>>, <<"b">>, <<"b", SP, COLON>>, <<COLON, "a">>}]

\* A header that just fills its block, and one that does not fit.
Letters(n) == [k \in 1..n |-> "b"]
LongField == [key : {Letters(1), Letters(CAP), Letters(CAP + 1)},
              value : {Letters(2), Letters(CAP), Letters(CAP + 1)}]
Gap == {<<COLON>>, <<COLON, SP>>}
Text(fields, gap) ==
  <<"GET", SP, "/", CR, LF>>
  \o FlattenSeq([n \in DOMAIN fields |-> fields[n].key \o gap \o fields[n].value \o <<CR, LF>>])
  \o <<CR, LF>>
RequestSource == {Rendering(Text(fields, gap), fields) :
                    fields \in BoundedSeq(Field, 2) \union BoundedSeq(LongField, 1), gap \in Gap}

\* Zeroed memory; a block full of other bytes; the end of another name, left
\* where the key "a" will begin.
Uniform(c) == [k \in 0..(CAP - 1) |-> c]
Leftover == [Uniform("?") EXCEPT ![1] = "b", ![2] = NUL]
TheMemory == {[key |-> block, value |-> block] : block \in {Uniform(NUL), Uniform("?"), Leftover}}

Names == {<<"i", "n", "d", "e", "x">>, Image, FILES_FOLDER \o <<"/", "a">>,
          FILES_FOLDER \o <<"y", "s", "t", "e", "m">>, <<"f", "i", "l", "e">>}
Heads == {HeadOf(fname, found, <<"7">>) : fname \in Names, found \in BOOLEAN}
HeadSource == {Rendering(resptostr(resp), resp.headers) : resp \in Heads}

AllSources == AnySource \union RequestSource \union HeadSource
=============================================================================
