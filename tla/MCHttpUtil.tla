----------------------------- MODULE MCHttpUtil -----------------------------
(***************************************************************************)
(* Inputs of HttpUtil.                                                     *)
(***************************************************************************)
EXTENDS UrlEncoding

Texts(alphabet, n) == UNION {[1 .. k -> alphabet] : k \in 0 .. n}
Arbitrary(texts)   == [text : texts, meant : {<<>>}]

\* % & + = 2 6 G: all short texts; %26 is an escaped '&'.
AnyInputs == Arbitrary(Texts({PERCENT, AMP, PLUS, EQUALS, 50, 54, 71}, 5))

\* Pairs over a & = % + and space, as an encoder may write them: letters as
\* they are, a space as '+' or as an escape, the rest as escapes.
Hex(n) == IF n < 10 THEN 48 + n ELSE 55 + n
Written(c) == {<<PERCENT, Hex(c \div 16), Hex(c % 16)>>}
              \cup (IF c = SPACE THEN {<<PLUS>>} ELSE IF c = 97 THEN {<<c>>} ELSE {})
Plain == {<<>>} \cup {<<c>> : c \in {97, AMP, EQUALS, PERCENT, PLUS, SPACE}}
Spelt(s) == IF s = <<>> THEN {<<>>} ELSE Written(s[1])
Encoded(k, v) == {a \o <<EQUALS>> \o b : a \in Spelt(k), b \in Spelt(v)}
Pair(k, v) == [key |-> k, value |-> v]

EncodedInputs ==
    UNION { {[text |-> x \o <<AMP>> \o y, meant |-> <<Pair(p[1], p[2]), Pair(p[3], p[4])>>] :
                x \in Encoded(p[1], p[2]), y \in Encoded(p[3], p[4])} :
            p \in Plain \X Plain \X Plain \X Plain }

AllInputs == AnyInputs \cup EncodedInputs

\* The hypotheses of DecodeRight and RoundTripRight (HttpUtilProofs).
ASSUME InputsUnsigned == NoSignedEscape
ASSUME InputsEncoded  == WellEncoded
=============================================================================
