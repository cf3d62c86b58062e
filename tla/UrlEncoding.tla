---------------------------- MODULE UrlEncoding ----------------------------
(***************************************************************************)
(* What an encoder of pairs writes (application/x-www-form-urlencoded): a  *)
(* character as it is, a space as '+', anything as an escape; '=' after a  *)
(* key and '&' between two pairs.                                          *)
(***************************************************************************)
EXTENDS HttpUtil

\* s spells x after place a and up to b.
Spells(s, a, b, x) ==
    \/ b = a + 1 /\ s[b] = x /\ x \notin {PERCENT, AMP, PLUS, EQUALS}
    \/ b = a + 1 /\ s[b] = PLUS /\ x = SPACE
    \/ /\ b = a + 3 /\ s[a + 1] = PERCENT /\ s[a + 2] \in HexDigits /\ s[a + 3] \in HexDigits
       /\ x = 16 * HexValue(s[a + 2]) + HexValue(s[a + 3])

\* c[j] is where the j-th character of w ends.
Spelling(s, a, b, w, c) ==
    c[0] = a /\ c[Len(w)] = b /\ \A j \in 1 .. Len(w) : Spells(s, c[j - 1], c[j], w[j])

SpellsWord(s, a, b, w) == \E c \in [0 .. Len(w) -> a .. b] : Spelling(s, a, b, w, c)

\* e[j] is where the j-th pair ends.
PairLayout(s, pairs, e) ==
    /\ e[0] = 0 /\ e[Len(pairs)] = Len(s) + 1
    /\ \A j \in 1 .. Len(pairs) :
          \E q \in e[j - 1] + 1 .. e[j] - 1 :
             /\ s[q] = EQUALS
             /\ SpellsWord(s, e[j - 1], q - 1, pairs[j].key)
             /\ SpellsWord(s, q, e[j] - 1, pairs[j].value)

Borders(s) == {0, Len(s) + 1} \cup {i \in 1 .. Len(s) : s[i] = AMP}

Pairs == Seq([key : Seq(Byte), value : Seq(Byte)])

\* Whatever is said to mean pairs encodes them.
WellEncoded ==
    \A x \in Inputs :
        x.meant # <<>> =>
            /\ x.meant \in Pairs
            /\ \E e \in [0 .. Len(x.meant) -> Borders(x.text)] : PairLayout(x.text, x.meant, e)

\* "%-f" is a number to from_chars and no escape to anybody else: such texts
\* are outside what DecodeExact says of the code.
NoMinus(s) ==
    \A i \in 1 .. Len(s) - 2 : ~(s[i] = PERCENT /\ s[i + 1] = MINUS /\ s[i + 2] \in HexDigits)

NoSignedEscape == \A x \in Inputs : NoMinus(x.text)
=============================================================================
