------------------------- MODULE ConnectionExchange -------------------------
(***************************************************************************)
(* Connection implements Exchange: the phase is read off the one task that *)
(* drives the connection, the answer off the client's parser.              *)
(***************************************************************************)
EXTENDS Connection

PhaseOf(s) ==
    IF s.k = "accept" THEN "accepting"
    ELSE IF s.k = "header" \/ (s.k = "run" /\ s.st \in {"start", "parse"})
         THEN "awaiting"
    ELSE IF s.k = "body" THEN "receiving"
    ELSE "serving"

\* The phase of the one task that drives the connection; two would tear it.
PhaseIn(f) ==
    LET drivers == {t \in Tasks : f[t] \notin {Free, Run("ret")}} IN
    IF drivers = {} THEN "over"
    ELSE IF \E t \in Tasks : drivers = {t} THEN PhaseOf(f[CHOOSE t \in drivers : TRUE])
    ELSE "torn"

phase == PhaseIn(task)

answer ==
    CASE client.st = "quiet"    -> "whole"
      [] client.st = "awaiting" -> "none"
      [] client.st \in {"length", "chunks", "tillclose"} -> "partial"
      [] client.st = "garbled"  -> "garbled"

E == INSTANCE Exchange WITH heads <- client.heads, told <- client.close,
                            lost <- (peer = "gone")

\* A connection goes from request to request as Exchange allows, whatever
\* client, timer and handlers do.
ImplementsLifeCycle == E!LifeCycle

\* With handlers that follow the documentation it keeps every promise of
\* Exchange: each request is answered once and whole, by bytes the client
\* can frame, before the next is read, and never after the connection was
\* given up.
ImplementsExchange == E!Spec
=============================================================================
