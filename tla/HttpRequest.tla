---------------------------- MODULE HttpRequest ----------------------------
(***************************************************************************)
(* http_request.cpp: a header block becomes a request.                     *)
(*                                                                         *)
(* A block is [crlf, words, fields].  words is the request line cut at     *)
(* every single space, so that "GET  /" has an empty word in the middle;   *)
(* fields are the lines that follow.  Where the code folds case, a text is *)
(* [text, case]: what it says, and how it is spelt.  A field value is the  *)
(* number its leading digits make (NoDigits if it has none) and whether    *)
(* anything follows them.  White space around names and values is gone.    *)
(***************************************************************************)
EXTENDS Integers, Sequences

CONSTANTS Blocks,   \* header blocks clients send
          LengthMax   \* the largest size_t

ASSUME SizeAssumption == LengthMax \in Nat

\* The lines after the request line.
FieldLine ==
    [colon : BOOLEAN,
     name  : [text : STRING, case : {"upper", "lower"}, query : STRING],
     value : [digits : Int, junk : BOOLEAN]]

ASSUME BlocksAssumption == \A b \in Blocks : b.fields \in Seq(FieldLine)

VARIABLES
    block,  \* the argument of parse_header
    next,   \* 0 before the request line, then the number of the next field
    method_, path_, version_,
    query,  \* what parse_query_string was given, see HttpUtil
    headers_,
    ret     \* what parse_header returned; "none" until then

request     == <<method_, path_, version_, query, headers_>>
requestVars == <<block, next, request, ret>>

Method   == {"GET", "POST", "PUT", "DELETE", "PATCH", "HEAD", "OPTIONS"}
NoDigits == -1
Nothing  == "nothing"

Word(text, case) == [text |-> text, case |-> case, query |-> Nothing]

RequestInit ==
    /\ block \in Blocks /\ next = 0 /\ ret = "none"
    /\ method_ = "UNKNOWN" /\ path_ = "" /\ version_ = <<>> /\ query = Nothing
    /\ headers_ = [n \in {} |-> <<>>]

-----------------------------------------------------------------------------
(* parse_header.                                                           *)

toupper(word) == [word EXCEPT !.case = "upper"]

method_from_string(word) ==
    IF word.case = "upper" /\ word.text \in Method THEN word.text ELSE "UNKNOWN"

\* async_read_until never delivers such a block.
parse_header_no_crlf ==
    /\ ret = "none" /\ ~block.crlf
    /\ ret' = "false"
    /\ UNCHANGED <<block, next, request>>

\* Method, target and, after the second space, all the rest as version; a
\* line with fewer spaces leaves the request as it was constructed.  The
\* target is cut at its first '?'.
parse_request_line ==
    /\ next = 0 /\ block.crlf
    /\ IF Len(block.words) < 3
       THEN UNCHANGED <<method_, path_, version_, query>>
       ELSE /\ method_' = method_from_string(toupper(block.words[1]))
            /\ path_' = block.words[2].text /\ query' = block.words[2].query
            /\ version_' = SubSeq(block.words, 3, Len(block.words))
    /\ next' = 1
    /\ UNCHANGED <<block, headers_, ret>>

Store(f, name, value) == [n \in DOMAIN f \cup {name} |-> IF n = name THEN value ELSE f[n]]

\* Mutant: the first of two fields of one name is kept.
parse_field_first ==
    /\ next \in DOMAIN block.fields
    /\ LET f == block.fields[next]
       IN  headers_' = IF f.colon /\ f.name.text # "" /\ f.name.text \notin DOMAIN headers_
                       THEN Store(headers_, f.name.text, f.value) ELSE headers_
    /\ next' = next + 1
    /\ UNCHANGED <<block, method_, path_, version_, query, ret>>

\* parse_headers, line by line.  CiLess does not look at case.
parse_field ==
    /\ next \in DOMAIN block.fields
    /\ LET f == block.fields[next]
       IN  headers_' = IF f.colon /\ f.name.text # ""
                       THEN Store(headers_, f.name.text, f.value) ELSE headers_
    /\ next' = next + 1
    /\ UNCHANGED <<block, method_, path_, version_, query, ret>>

parse_header_done ==
    /\ ret = "none" /\ next = Len(block.fields) + 1
    /\ ret' = "true"
    /\ UNCHANGED <<block, next, request>>

RequestNext == parse_header_no_crlf \/ parse_request_line \/ parse_field \/ parse_header_done

RequestSpec == RequestInit /\ [][RequestNext]_requestVars

-----------------------------------------------------------------------------
(* Accessors.                                                              *)

has_header(name) == name.text \in DOMAIN headers_
header(name)     == headers_[name.text]

ContentLength == Word("content-length", "upper")

\* std::from_chars takes the leading digits, whatever follows them; none, or
\* too many, is an error.
content_length ==
    IF ~has_header(ContentLength) \/ header(ContentLength).digits \notin 0 .. LengthMax THEN 0
    ELSE header(ContentLength).digits

-----------------------------------------------------------------------------
(* Properties.                                                             *)

Parsed == ret = "true"

\* The names in the block, and one that need not be there, in any spelling.
Sought == {Word(t, c) : t \in {block.fields[i].name.text : i \in DOMAIN block.fields} \cup {"host"},
                        c \in {"upper", "lower"}}

\* Fields that are no fields are skipped, names are found in any spelling
\* ("Header lookup is case-insensitive (RFC 7230)", http_request.h:36) and
\* the last of several fields of one name is the one that counts.
HeadersExact ==
    Parsed =>
        LET named(i, n) == /\ block.fields[i].colon /\ block.fields[i].name.text # ""
                           /\ block.fields[i].name.text = n.text
        IN  \A n \in Sought :
               /\ has_header(n) <=> \E i \in DOMAIN block.fields : named(i, n)
               /\ \A i \in DOMAIN block.fields :
                     named(i, n) /\ (\A j \in i + 1 .. Len(block.fields) : ~named(j, n))
                         => header(n) = block.fields[i].value

\* "Returns Content-Length header value, or 0 if absent/invalid"
\* (http_request.h:53): the value of the field that counts, when it is a
\* number and nothing else and a size_t can hold it, and otherwise 0.
LengthExact ==
    Parsed =>
        LET F == {i \in DOMAIN block.fields : block.fields[i].colon
                                              /\ block.fields[i].name.text = "content-length"}
            v == block.fields[CHOOSE i \in F : \A j \in F : j <= i].value
        IN  content_length = IF F # {} /\ v.digits \in 0 .. LengthMax /\ ~v.junk THEN v.digits ELSE 0
=============================================================================
