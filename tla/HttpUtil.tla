------------------------------ MODULE HttpUtil ------------------------------
(***************************************************************************)
(* http_util.cpp and the query string of http_request.cpp: percent         *)
(* decoding and the two parsers of key=value lists.  Characters are their  *)
(* byte values.  url_decode exists twice in the source, word for word.     *)
(***************************************************************************)
EXTENDS Integers, Sequences, FiniteSets

CONSTANT Inputs  \* texts, and the pairs they were made from: [text, meant]

Byte == 0 .. 255

ASSUME InputsAssumption == \A x \in Inputs : x.text \in Seq(Byte)

SPACE   == 32
PERCENT == 37
AMP     == 38
PLUS    == 43
MINUS   == 45
EQUALS  == 61

VARIABLES
    fn,     \* "url_decode", "parse_form_urlencoded" or "parse_query_string"
    input,  \* its argument
    pos,    \* next character to be looked at
    out     \* what it has produced

utilVars == <<fn, input, pos, out>>

text == input.text
Done == pos > Len(text)

-----------------------------------------------------------------------------
(* url_decode.                                                             *)

HexDigits == 48 .. 57 \cup 65 .. 70 \cup 97 .. 102
HexValue(c) == CASE c \in 48 .. 57  -> c - 48
                 [] c \in 65 .. 70  -> c - 55
                 [] c \in 97 .. 102 -> c - 87

\* std::from_chars on two characters, base 16, into an int: it takes a
\* minus sign, and must use up both characters.
Number(c, d)     == c \in HexDigits \cup {MINUS} /\ d \in HexDigits
from_chars(c, d) == IF c = MINUS THEN 0 - HexValue(d) ELSE 16 * HexValue(c) + HexValue(d)

\* Mutant: the length check is one too strict.
EscapeAt_short(s, i) == s[i] = PERCENT /\ i + 2 < Len(s) /\ Number(s[i + 1], s[i + 2])

EscapeAt(s, i) == s[i] = PERCENT /\ i + 2 <= Len(s) /\ Number(s[i + 1], s[i + 2])

url_decode(s) ==
    LET from[i \in 1 .. Len(s) + 1] ==
            IF i > Len(s) THEN <<>>
            ELSE IF EscapeAt(s, i)
                 THEN <<from_chars(s[i + 1], s[i + 2]) % 256>> \o from[i + 3]
                 ELSE <<IF s[i] = PLUS THEN SPACE ELSE s[i]>> \o from[i + 1]
    IN  from[1]

-----------------------------------------------------------------------------
(* The loop both parsers share.                                            *)

\* The place of the first c at or after i; one past the end if there is none.
Find(s, c, i) ==
    CHOOSE k \in i .. Len(s) + 1 :
        /\ k = Len(s) + 1 \/ s[k] = c
        /\ \A j \in i .. k - 1 : s[j] # c

Token == SubSeq(text, pos, Find(text, AMP, pos) - 1)
HasEq == Find(Token, EQUALS, 1) <= Len(Token)
Key   == SubSeq(Token, 1, Find(Token, EQUALS, 1) - 1)
Value == SubSeq(Token, Find(Token, EQUALS, 1) + 1, Len(Token))

Put(f, key, value) == [k \in DOMAIN f \cup {key} |-> IF k = key THEN value ELSE f[k]]

NextToken == pos' = Find(text, AMP, pos) + 1 /\ UNCHANGED <<fn, input>>

Parsing == fn # "url_decode" /\ ~Done

\* Mutant: the token is decoded first and split at the first '=' then.
token_pair_decoded_first ==
    LET t == url_decode(Token)
        e == Find(t, EQUALS, 1)
    IN  /\ Parsing /\ HasEq
        /\ out' = Put(out, SubSeq(t, 1, e - 1), SubSeq(t, e + 1, Len(t)))
        /\ NextToken

token_pair ==
    /\ Parsing /\ HasEq
    /\ out' = Put(out, url_decode(Key), url_decode(Value))
    /\ NextToken

\* Mutant: an empty token counts as a key.
token_bare_empty ==
    /\ Parsing /\ ~HasEq
    /\ out' = IF fn = "parse_form_urlencoded" THEN Put(out, url_decode(Token), <<>>) ELSE out
    /\ NextToken

\* A token without '=': a key with an empty value in a form, nothing in a
\* query string.
token_bare ==
    /\ Parsing /\ ~HasEq
    /\ out' = IF fn = "parse_form_urlencoded" /\ Token # <<>>
              THEN Put(out, url_decode(Token), <<>>) ELSE out
    /\ NextToken

decode ==
    /\ fn = "url_decode" /\ ~Done
    /\ out' = url_decode(text)
    /\ pos' = Len(text) + 1
    /\ UNCHANGED <<fn, input>>

UtilInit ==
    /\ fn \in {"url_decode", "parse_form_urlencoded", "parse_query_string"}
    /\ input \in Inputs
    /\ pos = 1 /\ out = <<>>

UtilNext == token_pair \/ token_bare \/ decode

UtilSpec == UtilInit /\ [][UtilNext]_utilVars

-----------------------------------------------------------------------------
(* Properties.                                                             *)

\* '%' and two hexadecimal digits.
Escape(i) ==
    i + 2 <= Len(text) /\ text[i] = PERCENT
      /\ text[i + 1] \in HexDigits /\ text[i + 2] \in HexDigits

Covered(i) == \E k \in 1 .. i - 1 : i - k <= 2 /\ Escape(k)

\* Escapes become the byte they name, '+' becomes a space, every other
\* character, an incomplete escape at the end or a stray '%' included,
\* stands for itself ("MalformedPercentPassesThrough", util_test.cpp:25).
DecodeExact ==
    fn = "url_decode" /\ Done =>
        LET place(i) == Cardinality({j \in 1 .. i : ~Covered(j)})
        IN  /\ Len(out) = place(Len(text))
            /\ \A i \in 1 .. Len(text) :
                  ~Covered(i) =>
                     out[place(i)] =
                         CASE Escape(i) -> 16 * HexValue(text[i + 1]) + HexValue(text[i + 2])
                           [] ~Escape(i) /\ text[i] = PLUS -> SPACE
                           [] OTHER -> text[i]

\* What was encoded comes back: pairs whose keys and values hold '&', '=',
\* '%', '+' or spaces, in any mixture of escapes, are found again, the last
\* value of a key winning.
RoundTrip ==
    fn # "url_decode" /\ Done /\ input.meant # <<>> =>
        LET pairs == input.meant
        IN  /\ DOMAIN out = {pairs[i].key : i \in DOMAIN pairs}
            /\ \A i \in DOMAIN pairs :
                  (\A j \in i + 1 .. Len(pairs) : pairs[j].key # pairs[i].key)
                      => out[pairs[i].key] = pairs[i].value

\* Where a token starts: at the beginning and after every '&'.
Starts == {i \in 1 .. Len(text) : i = 1 \/ text[i - 1] = AMP}
Ends(i) == {k \in i .. Len(text) + 1 : k = Len(text) + 1 \/ text[k] = AMP}

\* Every non-empty token of a form is a key of the result, and of a query
\* string every token with a '='; there are no others.
KeysExact ==
    fn # "url_decode" /\ Done =>
        DOMAIN out =
            { url_decode(SubSeq(text, p[1], p[2] - 1)) :
                p \in { q \in Starts \X (1 .. Len(text) + 1) :
                    /\ q[1] <= q[2] /\ \A k \in q[1] .. q[2] - 1 : text[k] \notin {AMP, EQUALS}
                    /\ \/ q[2] <= Len(text) /\ text[q[2]] = EQUALS
                       \/ fn = "parse_form_urlencoded" /\ q[2] \in Ends(q[1]) /\ q[1] < q[2] } }
=============================================================================
