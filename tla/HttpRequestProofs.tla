------------------------- MODULE HttpRequestProofs -------------------------
(***************************************************************************)
(* Theorems about HttpRequest, for header blocks with any number of fields *)
(* and any LengthMax.                                                        *)
(***************************************************************************)
EXTENDS HttpRequest, TLAPS

-----------------------------------------------------------------------------
(* The fields that count.                                                  *)

Good(b, i)   == b.fields[i].colon /\ b.fields[i].name.text # ""
NameOf(b, i) == b.fields[i].name.text

\* The last of the first k fields of b with its name.
LastOf(b, i, k) ==
    Good(b, i) /\ \A j \in i + 1 .. k : ~(Good(b, j) /\ NameOf(b, j) = NameOf(b, i))

\* The headers h are those of the first k fields of b.
HeadersUpTo(h, b, k) ==
    /\ DOMAIN h = {NameOf(b, i) : i \in {j \in 1 .. k : Good(b, j)}}
    /\ \A i \in 1 .. k : LastOf(b, i, k) => h[NameOf(b, i)] = b.fields[i].value

\* The inductive invariant.
Progress ==
    /\ block \in Blocks
    /\ next \in 0 .. Len(block.fields) + 1
    /\ HeadersUpTo(headers_, block, IF next = 0 THEN 0 ELSE next - 1)
    /\ ret = "true" => next = Len(block.fields) + 1

LEMMA FieldsTyped ==
    ASSUME NEW b \in Blocks
    PROVE  /\ Len(b.fields) \in Nat /\ DOMAIN b.fields = 1 .. Len(b.fields)
           /\ \A i \in 1 .. Len(b.fields) : b.fields[i] \in FieldLine
BY BlocksAssumption

LEMMA NoHeaders ==
    ASSUME NEW h, DOMAIN h = {}, NEW b
    PROVE  HeadersUpTo(h, b, 0)
<1>1. 1 .. 0 = {}
  OBVIOUS
<1> QED
  BY <1>1 DEF HeadersUpTo

\* A good field comes on top of the others, another one leaves them alone.
LEMMA FieldAdded ==
    ASSUME NEW b, NEW k \in Nat \ {0}, NEW h, HeadersUpTo(h, b, k - 1),
           NEW g, g = IF Good(b, k) THEN Store(h, NameOf(b, k), b.fields[k].value) ELSE h
    PROVE  HeadersUpTo(g, b, k)
<1>1. \A i \in 1 .. k : i \in 1 .. k - 1 \/ i = k
  OBVIOUS
<1>2. DOMAIN g = {NameOf(b, i) : i \in {j \in 1 .. k : Good(b, j)}}
  <2>1. {j \in 1 .. k : Good(b, j)} = {j \in 1 .. k - 1 : Good(b, j)} \cup (IF Good(b, k) THEN {k} ELSE {})
    BY <1>1
  <2>2. DOMAIN h = {NameOf(b, i) : i \in {j \in 1 .. k - 1 : Good(b, j)}}
    BY DEF HeadersUpTo
  <2>3. DOMAIN g = DOMAIN h \cup (IF Good(b, k) THEN {NameOf(b, k)} ELSE {})
    BY DEF Store
  <2> QED
    BY <2>1, <2>2, <2>3
<1>3. ASSUME NEW i \in 1 .. k, LastOf(b, i, k)
      PROVE  g[NameOf(b, i)] = b.fields[i].value
  <2>1. CASE i = k
    <3>1. Good(b, k)
      BY <1>3, <2>1 DEF LastOf
    <3> QED
      BY <2>1, <3>1 DEF Store
  <2>2. CASE i # k
    <3>1. i \in 1 .. k - 1 /\ k \in i + 1 .. k
      BY <2>2
    <3>2. Good(b, i) /\ LastOf(b, i, k - 1)
      BY <1>3, <3>1 DEF LastOf
    <3>3. h[NameOf(b, i)] = b.fields[i].value /\ NameOf(b, i) \in DOMAIN h
      BY <3>1, <3>2 DEF HeadersUpTo
    <3>4. ~(Good(b, k) /\ NameOf(b, k) = NameOf(b, i))
      BY <1>3, <3>1 DEF LastOf
    <3> QED
      BY <3>3, <3>4 DEF Store
  <2> QED
    BY <2>1, <2>2
<1> QED
  BY <1>2, <1>3 DEF HeadersUpTo

LEMMA InitProgress == RequestInit => Progress
<1> SUFFICES ASSUME RequestInit PROVE Progress
  OBVIOUS
<1>1. block \in Blocks /\ next = 0 /\ ret = "none" /\ headers_ = [n \in {} |-> <<>>]
  BY DEF RequestInit
<1>2. Len(block.fields) \in Nat
  BY <1>1, FieldsTyped
<1>3. HeadersUpTo(headers_, block, 0)
  BY <1>1, NoHeaders
<1> QED
  BY <1>1, <1>2, <1>3 DEF Progress

LEMMA FieldProgress ==
    ASSUME Progress, parse_field
    PROVE  Progress'
<1> DEFINE n == Len(block.fields)
<1>1. n \in Nat /\ DOMAIN block.fields = 1 .. n
  BY FieldsTyped DEF Progress
<1>2. next \in 1 .. n
  BY <1>1 DEF parse_field
<1>3. /\ headers_' = IF Good(block, next) THEN Store(headers_, NameOf(block, next), block.fields[next].value)
                     ELSE headers_
      /\ block' = block /\ next' = next + 1 /\ ret' = ret
  BY DEF parse_field, Good, NameOf
<1>4. HeadersUpTo(headers_, block, next - 1) /\ next \in Nat \ {0}
  BY <1>1, <1>2 DEF Progress
<1>5. HeadersUpTo(headers_', block, next)
  BY <1>3, <1>4, FieldAdded
<1>6. HeadersUpTo(headers_', block', IF next' = 0 THEN 0 ELSE next' - 1)
  BY <1>3, <1>4, <1>5
<1>7. ret' # "true" /\ next' \in 0 .. n + 1
  BY <1>1, <1>2, <1>3 DEF Progress
<1> QED
  BY <1>3, <1>6, <1>7 DEF Progress

LEMMA StepProgress == Progress /\ [RequestNext]_requestVars => Progress'
<1> SUFFICES ASSUME Progress, [RequestNext]_requestVars PROVE Progress'
  OBVIOUS
<1>1. Len(block.fields) \in Nat
  BY FieldsTyped DEF Progress
<1>2. CASE parse_header_no_crlf
  BY <1>2 DEF parse_header_no_crlf, request, Progress
<1>3. CASE parse_request_line
  BY <1>1, <1>3 DEF parse_request_line, Progress
<1>4. CASE parse_field
  BY <1>4, FieldProgress
<1>5. CASE parse_header_done
  BY <1>5 DEF parse_header_done, request, Progress
<1>6. CASE UNCHANGED requestVars
  BY <1>6 DEF requestVars, request, Progress
<1> QED
  BY <1>2, <1>3, <1>4, <1>5, <1>6 DEF RequestNext

THEOREM ProgressMade == RequestSpec => []Progress
BY InitProgress, StepProgress, PTL DEF RequestSpec

\* After the last field the headers are those of the whole block.
LEMMA WholeBlock ==
    ASSUME Progress, Parsed
    PROVE  /\ block \in Blocks /\ HeadersUpTo(headers_, block, Len(block.fields))
           /\ DOMAIN block.fields = 1 .. Len(block.fields) /\ Len(block.fields) \in Nat
<1>1. Len(block.fields) \in Nat /\ DOMAIN block.fields = 1 .. Len(block.fields) /\ block \in Blocks
  BY FieldsTyped DEF Progress
<1>2. next = Len(block.fields) + 1
  BY DEF Progress, Parsed
<1>3. (IF next = 0 THEN 0 ELSE next - 1) = Len(block.fields)
  BY <1>1, <1>2
<1> QED
  BY <1>1, <1>3 DEF Progress

\* Names are found in any spelling, lines that are no fields are skipped and
\* of several fields with one name the last counts.
THEOREM HeadersRight == RequestSpec => []HeadersExact
<1>1. ASSUME Progress, Parsed, NEW n
      PROVE  /\ has_header(n) <=> \E i \in DOMAIN block.fields : Good(block, i) /\ NameOf(block, i) = n.text
             /\ \A i \in DOMAIN block.fields :
                   /\ Good(block, i) /\ NameOf(block, i) = n.text
                   /\ \A j \in i + 1 .. Len(block.fields) : ~(Good(block, j) /\ NameOf(block, j) = n.text)
                   => header(n) = block.fields[i].value
  BY <1>1, WholeBlock DEF HeadersUpTo, LastOf, has_header, header
<1>2. Progress => HeadersExact
  BY <1>1 DEF HeadersExact, Good, NameOf
<1> QED
  BY <1>2, ProgressMade, PTL
=============================================================================
