---------------------------- MODULE HttpFraming ----------------------------
(***************************************************************************)
(* The HTTP/1.1 client at the other end of the socket, as far as message   *)
(* framing goes (RFC 7230, section 3.3.3).  It is not part of the library: *)
(* it is what http_response.cpp and connection.cpp write for, and it is    *)
(* the yardstick for "the client can frame the body" (connection.cpp:400). *)
(*                                                                         *)
(* The bytes of a response are abstracted to tokens: a header block, n     *)
(* bytes of raw payload, one chunk of n bytes, and the last-chunk.  A      *)
(* client is a record                                                      *)
(*   st     what it expects next                                           *)
(*            "quiet"      no response is outstanding                      *)
(*            "awaiting"   a request was taken up, no status line yet      *)
(*            "length"     left more body bytes (Content-Length)           *)
(*            "chunks"     another chunk or the last-chunk                 *)
(*            "tillclose"  body bytes until the server closes              *)
(*            "garbled"    bytes arrived that no framing accounts for      *)
(*   left   body bytes still missing in state "length"                     *)
(*   heads  status lines received for the current request                  *)
(*   status the status code of the last status line, 0 before the first    *)
(*   close  the header block of the current response said "Connection:     *)
(*          close"                                                         *)
(***************************************************************************)
EXTENDS Integers

\* Value of a header that was never inserted.
Absent == -1

ClientStates == {"quiet", "awaiting", "length", "chunks", "tillclose", "garbled"}

Client == [st : ClientStates, left : Nat, heads : Nat, status : Nat,
           close : BOOLEAN]

InitClient == [st |-> "quiet", left |-> 0, heads |-> 0, status |-> 0,
               close |-> FALSE]

Garble(c) == [c EXCEPT !.st = "garbled", !.left = 0]

\* The server takes up the next request of this client.
Expect(c) ==
    [c EXCEPT !.st = IF @ = "quiet" THEN "awaiting" ELSE "garbled",
              !.left = 0, !.heads = 0, !.status = 0, !.close = FALSE]

\* How a header block frames the body that follows it: Transfer-Encoding
\* wins over Content-Length, and with neither the body ends with the
\* connection.
Framing(te, cl) ==
    CASE te                       -> "chunks"
      [] ~te /\ cl = Absent       -> "tillclose"
      [] ~te /\ cl = 0            -> "quiet"
      [] ~te /\ cl \notin {Absent, 0} -> "length"

\* A status line with its headers arrives.
GetHead(c, status, te, cl, close) ==
    [st     |-> IF c.st = "awaiting" THEN Framing(te, cl) ELSE "garbled",
     left   |-> IF c.st = "awaiting" /\ Framing(te, cl) = "length"
                THEN cl ELSE 0,
     heads  |-> c.heads + 1,
     status |-> status,
     close  |-> close]

\* n > 0 bytes of payload arrive that are not chunk-framed.
GetData(c, n) ==
    CASE c.st = "tillclose" -> c
      [] c.st = "length" /\ n < c.left -> [c EXCEPT !.left = @ - n]
      [] c.st = "length" /\ n = c.left -> [c EXCEPT !.st = "quiet", !.left = 0]
      [] OTHER -> Garble(c)

\* One chunk arrives: size line, data, CRLF.
GetChunk(c) == IF c.st \in {"chunks", "tillclose"} THEN c ELSE Garble(c)

\* The last-chunk "0\r\n\r\n" arrives.
GetLastChunk(c) ==
    CASE c.st = "chunks"    -> [c EXCEPT !.st = "quiet"]
      [] c.st = "tillclose" -> c
      [] OTHER              -> Garble(c)
=============================================================================
