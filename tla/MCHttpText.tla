----------------------------- MODULE MCHttpText -----------------------------
(***************************************************************************)
(* The parts of the server that only turn texts into data, in one state    *)
(* graph: the body readers, the parser of header blocks, the router, and   *)
(* the decoders of key=value lists.  They share no state: in a behaviour   *)
(* one of them is at work, and the others stay where one of their own      *)
(* behaviours begins.                                                      *)
(***************************************************************************)
EXTENDS MCBodyReader, MCHttpRequest, MCHttpRouter, MCHttpUtil

VARIABLE at_work  \* "body", "request", "router" or "util"

partVars == <<bodyVars, requestVars, routerVars, utilVars>>

\* Where the idle ones are.
IdleStream == [wire |-> <<>>, bodies |-> <<>>, complete |-> FALSE]
IdleBlock == [crlf |-> FALSE, words |-> <<Word("GET", "upper"), Word("/a", "lower"), Word("HTTP/1.1", "upper")>>,
              fields |-> <<>>]
IdleInput == [text |-> <<PERCENT>>, meant |-> <<>>]

BodyIdle    == stream = IdleStream /\ BodyInit
RequestIdle == block = IdleBlock /\ RequestInit
UtilIdle    == fn = "url_decode" /\ input = IdleInput /\ UtilInit

TextInit ==
    /\ RouterInit
    /\ \/ at_work = "body"    /\ BodyInit /\ RequestIdle /\ UtilIdle
       \/ at_work = "request" /\ BodyIdle /\ RequestInit /\ UtilIdle
       \/ at_work = "router"  /\ BodyIdle /\ RequestIdle /\ UtilIdle
       \/ at_work = "util"    /\ BodyIdle /\ RequestIdle /\ UtilInit

BodyWorks ==
    at_work = "body" /\ BodyNext /\ UNCHANGED <<at_work, requestVars, routerVars, utilVars>>

TextNext ==
    \/ BodyWorks
    \/ at_work = "request" /\ RequestNext /\ UNCHANGED <<at_work, bodyVars, routerVars, utilVars>>
    \/ at_work = "router"  /\ RouterNext  /\ UNCHANGED <<at_work, bodyVars, requestVars, utilVars>>
    \/ at_work = "util"    /\ UtilNext    /\ UNCHANGED <<at_work, bodyVars, requestVars, routerVars>>

\* The fairness of BodyFairSpec; nothing is asked of the others to happen.
TextSpec ==
    TextInit /\ [][TextNext]_<<at_work, partVars>> /\ WF_<<at_work, partVars>>(BodyWorks)
=============================================================================
