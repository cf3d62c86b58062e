--------------------------- MODULE MCHttpRequest ---------------------------
(***************************************************************************)
(* Header blocks for HttpRequest.                                          *)
(***************************************************************************)
EXTENDS HttpRequest

Lines ==
    { <<m, t, Word("HTTP/1.1", "upper")>> :
        m \in {Word("GET", "upper"), Word("GET", "lower"), Word("BREW", "upper")},
        t \in {Word("/a", "lower"), [text |-> "/a", case |-> "lower", query |-> "q=1"]} }
    \cup { <<Word("GET", "upper"), Word("", "lower"), Word("/a", "lower"), Word("HTTP/1.1", "upper")>> }

ShortLines ==
    { <<Word("", "lower")>>, <<Word("GET", "upper")>>, <<Word("GET", "upper"), Word("/a", "lower")>> }

Val(n, junk) == [digits |-> n, junk |-> junk]
Field(name, case, value) == [colon |-> TRUE, name |-> Word(name, case), value |-> value]

\* LengthMax is 3: 5 overflows.  Val(1, TRUE) is a value like "1x".
Fields ==
    { Field("content-length", "upper", Val(2, FALSE)),
      Field("content-length", "lower", Val(3, FALSE)),
      Field("content-length", "upper", Val(5, FALSE)),
      Field("content-length", "upper", Val(1, TRUE)),
      Field("content-length", "upper", Val(NoDigits, FALSE)),
      Field("content-length", "upper", Val(NoDigits, TRUE)),
      Field("host", "upper", Val(NoDigits, TRUE)),
      Field("", "lower", Val(2, FALSE)),
      [colon |-> FALSE, name |-> Word("host", "lower"), value |-> Val(1, FALSE)] }

FieldLists(F, n) == UNION {[1 .. k -> F] : k \in 0 .. n}

MCBlocks ==
    [crlf : {TRUE}, words : Lines \cup ShortLines, fields : FieldLists(Fields, 3)]
    \cup [crlf : {FALSE}, words : Lines, fields : {<<>>}]
=============================================================================
