------------------------------ MODULE Exchange ------------------------------
(***************************************************************************)
(* What a connection promises to whoever looks at it from outside: a       *)
(* series of exchanges, each a request that is received and then served,   *)
(* with one response.                                                      *)
(*                                                                         *)
(* Nothing is sent except while a request is served.  A response only      *)
(* grows, from nothing over a status line to its last byte, and no byte    *)
(* comes that its framing does not account for.  The next request is       *)
(* awaited only if the response is whole and did not announce that the     *)
(* connection will close.  A connection may be given up at any point, but  *)
(* once it is, that is final.  A client that is lost sees nothing more.    *)
(***************************************************************************)
EXTENDS Naturals

VARIABLES
    phase,   \* of the exchange
    answer,  \* how much of the current response the client has
    heads,   \* status lines in it
    told,    \* it said "Connection: close"
    lost     \* the client is gone

view == <<answer, heads, told>>
vars == <<phase, view, lost>>

Phases == {"accepting", "awaiting", "receiving", "serving", "over"}

\* The life of a connection.
Edges == {<<"accepting", "awaiting">>, <<"awaiting", "receiving">>,
          <<"awaiting", "serving">>, <<"receiving", "serving">>,
          <<"serving", "awaiting">>}
         \cup {<<p, "over">> : p \in Phases \ {"over"}}

Edge == <<phase, phase'>> \in Edges

Move(from, to) == phase \in from /\ phase' \in to /\ Edge

LifeCycle == phase = "accepting" /\ [][Edge]_phase

Init ==
    /\ phase = "accepting" /\ lost = FALSE
    /\ answer = "whole" /\ heads = 0 /\ told = FALSE

Open == Move({"accepting"}, {"awaiting"}) /\ UNCHANGED <<view, lost>>

\* A request is taken up; the last response was whole.
Begin ==
    /\ Move({"awaiting"}, {"receiving", "serving"})
    /\ IF lost THEN UNCHANGED view
               ELSE answer = "whole" /\ answer' = "none" /\ heads' = 0 /\ told' = FALSE
    /\ UNCHANGED lost

Received == Move({"receiving"}, {"serving"}) /\ UNCHANGED <<view, lost>>

\* A response grows.
Grows == \/ answer = "none" /\ answer' \in {"partial", "whole"}
         \/ answer = "partial" /\ answer' \in {"partial", "whole"}

\* Some of the response reaches the client.
Respond ==
    /\ phase = "serving" /\ ~lost
    /\ Grows
    /\ heads' = 1
    /\ told' \in (IF heads = 0 THEN BOOLEAN ELSE {told})
    /\ phase' = "serving" /\ UNCHANGED lost

Again ==
    /\ Move({"serving"}, {"awaiting"})
    /\ lost \/ (answer = "whole" /\ heads = 1 /\ ~told)
    /\ UNCHANGED <<view, lost>>

GiveUp == Move(Phases, {"over"}) /\ UNCHANGED <<view, lost>>

Vanish == ~lost /\ lost' = TRUE /\ UNCHANGED <<phase, view>>

Next == Open \/ Begin \/ Received \/ Respond \/ Again \/ GiveUp \/ Vanish

Spec == Init /\ [][Next]_vars
=============================================================================
