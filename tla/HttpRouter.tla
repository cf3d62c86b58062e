----------------------------- MODULE HttpRouter -----------------------------
(***************************************************************************)
(* http_router.cpp: registration of routes and the choice of a handler.    *)
(*                                                                         *)
(* A path is the sequence of its parts between slashes, empty ones         *)
(* included: "/a/b" is <<"", "a", "b">>, "/a/" is <<"", "a", "">> and the  *)
(* empty string is <<"">>, so that every string is exactly one sequence.   *)
(* A part of a pattern also has a mark: ":", "*" or none.  A handler is    *)
(* the number of the call of add() that brought it.                        *)
(***************************************************************************)
EXTENDS Naturals, Sequences, FiniteSets

CONSTANTS Methods,   \* HttpRequest::Method without UNKNOWN
          Patterns,  \* what applications register
          Paths,     \* what clients ask for
          MaxCalls   \* calls that configure the router (bound)

ASSUME MethodsAssumption == "UNKNOWN" \notin Methods
ASSUME CallsAssumption == MaxCalls \in Nat

Part == [mark : {"", ":", "*"}, text : STRING]

ASSUME PatternsAssumption == \A pattern \in Patterns : pattern \in Seq(Part)
ASSUME PathsAssumption == \A path \in Paths : path \in Seq(STRING)

AnyMethod == Methods \cup {"UNKNOWN"}

VARIABLES
    regs,                        \* the calls of add(), in order
    static_routes,               \* method -> canonical path -> handler
    dynamic_routes,              \* method -> number of segments -> routes
    catchall_routes,             \* method -> sorted routes
    not_found_handler,           \* "default" or "custom"
    method_not_allowed_handler,  \* "null" or "custom"
    answer                       \* of the last handle(), NoAnswer before

tables     == <<static_routes, dynamic_routes, catchall_routes>>
customs    == <<not_found_handler, method_not_allowed_handler>>
routerVars == <<regs, tables, customs, answer>>

NoAnswer == [kind |-> "none"]

-----------------------------------------------------------------------------
(* Patterns and paths.                                                     *)

Segment(part) ==
    [kind |-> CASE part.mark = ":" -> "Param"
                [] part.mark = "*" -> "CatchAll"
                [] OTHER           -> "Literal",
     text |-> part.text]

\* The parts that are not dropped, in their order.
Without(parts, dropped) ==
    LET rest[k \in 1 .. Len(parts) + 1] ==
            IF k > Len(parts) THEN <<>>
            ELSE IF parts[k] \in dropped THEN rest[k + 1] ELSE <<parts[k]>> \o rest[k + 1]
    IN  rest[1]

\* A leading slash and empty parts disappear.
parse_pattern(pattern) ==
    LET parts == Without(pattern, {[mark |-> "", text |-> ""]})
    IN  [k \in DOMAIN parts |-> Segment(parts[k])]

split_path(path) == Without(path, {""})

\* The text with slashes between the segments; of none, the empty string.
Join(segs) == IF segs = <<>> THEN <<"">> ELSE segs

\* The key of a static route: "/a/b", or "/".
Canonical(segs) ==
    IF segs = <<>> THEN <<"", "">> ELSE <<"">> \o [k \in DOMAIN segs |-> segs[k].text]

Kinds(segs) == {segs[k].kind : k \in DOMAIN segs}

CatchAllIsLast(segs) == \A k \in DOMAIN segs : segs[k].kind = "CatchAll" => k = Len(segs)

literal_prefix_length(segs) ==
    Cardinality({k \in DOMAIN segs : \A j \in 1 .. k : segs[j].kind = "Literal"})

-----------------------------------------------------------------------------
(* match_dynamic.                                                          *)

HasCatchAll(segs) == segs # <<>> /\ segs[Len(segs)].kind = "CatchAll"

Matches(route, path_segs) ==
    LET pat   == route.segments
        fixed == IF HasCatchAll(pat) THEN Len(pat) - 1 ELSE Len(pat)
    IN  /\ IF HasCatchAll(pat) THEN Len(path_segs) >= fixed ELSE Len(path_segs) = fixed
        /\ \A k \in 1 .. fixed : pat[k].kind = "Literal" => path_segs[k] = pat[k].text

\* The captures are stored under their names, one after the other: of two
\* with one name the later stays.
Captures(route, path_segs) ==
    LET pat     == route.segments
        taken   == {k \in DOMAIN pat : pat[k].kind # "Literal"}
        last(n) == CHOOSE k \in taken : /\ pat[k].text = n
                                        /\ \A j \in taken : pat[j].text = n => j <= k
        value(k) == IF pat[k].kind = "Param" THEN <<path_segs[k]>>
                    ELSE Join(SubSeq(path_segs, k, Len(path_segs)))
    IN  [n \in {pat[k].text : k \in taken} |-> value(last(n))]

-----------------------------------------------------------------------------
(* add().                                                                  *)

RouterInit ==
    /\ regs = <<>>
    /\ static_routes = [m \in AnyMethod |-> <<>>]
    /\ dynamic_routes = [m \in AnyMethod |-> <<>>]
    /\ catchall_routes = [m \in AnyMethod |-> <<>>]
    /\ not_found_handler = "default" /\ method_not_allowed_handler = "null"
    /\ answer = NoAnswer

\* f[key], or the value a map's operator[] creates.
Lookup(f, key, default) == IF key \in DOMAIN f THEN f[key] ELSE default
Insert(f, key, value) ==
    [k \in DOMAIN f \cup {key} |-> IF k = key THEN value ELSE f[k]]

Configured ==
    Len(regs) + (IF not_found_handler = "custom" THEN 1 ELSE 0)
              + (IF method_not_allowed_handler = "custom" THEN 1 ELSE 0)

Registers(m, pattern) ==
    /\ Configured < MaxCalls
    /\ regs' = Append(regs, [method |-> m, pattern |-> pattern])
    /\ answer' = NoAnswer
    /\ UNCHANGED customs

NewRoute(segs) == [segments |-> segs, fn |-> Len(regs) + 1]

\* A catch-all that is not the last segment: nothing is registered.
add_misplaced(m, pattern) ==
    /\ Registers(m, pattern)
    /\ ~CatchAllIsLast(parse_pattern(pattern))
    /\ UNCHANGED tables

\* Without a capture the route is static; a second one replaces the first.
add_static(m, pattern) ==
    LET segs == parse_pattern(pattern) IN
    /\ Registers(m, pattern)
    /\ Kinds(segs) \subseteq {"Literal"}
    /\ static_routes' = [static_routes EXCEPT ![m] = Insert(@, Canonical(segs), Len(regs) + 1)]
    /\ UNCHANGED <<dynamic_routes, catchall_routes>>

add_dynamic(m, pattern) ==
    LET segs == parse_pattern(pattern) IN
    /\ Registers(m, pattern)
    /\ "Param" \in Kinds(segs) /\ "CatchAll" \notin Kinds(segs)
    /\ dynamic_routes' = [dynamic_routes EXCEPT
           ![m] = Insert(@, Len(segs), Append(Lookup(@, Len(segs), <<>>), NewRoute(segs)))]
    /\ UNCHANGED <<static_routes, catchall_routes>>

\* The order of std::sort: longer literal prefix first, then more segments.
Before(a, b) ==
    LET la == literal_prefix_length(a.segments)
        lb == literal_prefix_length(b.segments)
    IN  IF la # lb THEN la > lb ELSE Len(a.segments) > Len(b.segments)

\* std::sort is not stable: any order that agrees with Before.
Sortings(s) ==
    {t \in [1 .. Len(s) -> {s[i] : i \in DOMAIN s}] :
        /\ \A i \in DOMAIN s : \E j \in DOMAIN t : t[j] = s[i]
        /\ \A i, j \in DOMAIN t : i < j => ~Before(t[j], t[i])}

\* Mutant: new routes are appended without sorting.
add_catchall_unsorted(m, pattern) ==
    LET segs == parse_pattern(pattern) IN
    /\ Registers(m, pattern)
    /\ "CatchAll" \in Kinds(segs) /\ CatchAllIsLast(segs)
    /\ catchall_routes' = [catchall_routes EXCEPT ![m] = Append(@, NewRoute(segs))]
    /\ UNCHANGED <<static_routes, dynamic_routes>>

add_catchall(m, pattern) ==
    LET segs == parse_pattern(pattern) IN
    /\ Registers(m, pattern)
    /\ "CatchAll" \in Kinds(segs) /\ CatchAllIsLast(segs)
    /\ \E bucket \in Sortings(Append(catchall_routes[m], NewRoute(segs))) :
          catchall_routes' = [catchall_routes EXCEPT ![m] = bucket]
    /\ UNCHANGED <<static_routes, dynamic_routes>>

set_not_found_handler ==
    /\ not_found_handler = "default" /\ Configured < MaxCalls
    /\ not_found_handler' = "custom" /\ answer' = NoAnswer
    /\ UNCHANGED <<regs, tables, method_not_allowed_handler>>

set_method_not_allowed_handler ==
    /\ method_not_allowed_handler = "null" /\ Configured < MaxCalls
    /\ method_not_allowed_handler' = "custom" /\ answer' = NoAnswer
    /\ UNCHANGED <<regs, tables, not_found_handler>>

-----------------------------------------------------------------------------
(* handle().                                                               *)

Static(m, path) == path \in DOMAIN static_routes[m]

Bucket(m, segs) == Lookup(dynamic_routes[m], Len(segs), <<>>)

Matching(routes, segs) == {i \in DOMAIN routes : Matches(routes[i], segs)}

MethodMatches(m, path) ==
    LET segs == split_path(path)
    IN  \/ Static(m, path)
        \/ Matching(Bucket(m, segs), segs) # {}
        \/ Matching(catchall_routes[m], segs) # {}

path_matches_any_method(path) == \E m \in AnyMethod : MethodMatches(m, path)

\* Mutant: only the static routes of other methods are listed.
allowed_methods_for_static(path) == {m \in Methods : Static(m, path)}

\* The Allow header, as a set; the loop ends before UNKNOWN.
allowed_methods_for(path) == {m \in Methods : MethodMatches(m, path)}

NoParams == [n \in {} |-> <<"">>]

\* Mutant: parameters are stored while a route is being compared.
Call_early(routes, segs) ==
    LET i == CHOOSE i \in Matching(routes, segs) :
                 \A j \in Matching(routes, segs) : i <= j
        tried == {Captures(routes[j], segs) : j \in {k \in 1 .. i : Len(routes[k].segments) <= Len(segs)}}
        names == UNION {DOMAIN c : c \in tried}
    IN  [kind |-> "route", fn |-> routes[i].fn,
         params |-> [n \in names |-> (CHOOSE c \in tried : n \in DOMAIN c)[n]]]

\* The first route of the bucket that matches is called, with its captures.
Call(routes, segs) ==
    LET i == CHOOSE i \in Matching(routes, segs) :
                 \A j \in Matching(routes, segs) : i <= j
    IN  [kind |-> "route", fn |-> routes[i].fn, params |-> Captures(routes[i], segs)]

Refusal(path) ==
    IF path_matches_any_method(path)
    THEN IF method_not_allowed_handler = "custom" THEN [kind |-> "custom405"]
         ELSE [kind |-> "405", allow |-> allowed_methods_for(path)]
    ELSE [kind |-> IF not_found_handler = "custom" THEN "custom404" ELSE "404"]

Outcome(m, path) ==
    LET segs == split_path(path) IN
    CASE Static(m, path) ->
             [kind |-> "route", fn |-> static_routes[m][path], params |-> NoParams]
      [] ~Static(m, path) /\ Matching(Bucket(m, segs), segs) # {} ->
             Call(Bucket(m, segs), segs)
      [] ~Static(m, path) /\ Matching(Bucket(m, segs), segs) = {}
                          /\ Matching(catchall_routes[m], segs) # {} ->
             Call(catchall_routes[m], segs)
      [] OTHER -> Refusal(path)

\* It changes nothing but the answer, so one request at a time will do.
handle(m, path) ==
    /\ answer = NoAnswer
    /\ answer' = [method |-> m, path |-> path, kind |-> "done", out |-> Outcome(m, path)]
    /\ UNCHANGED <<regs, tables, customs>>

-----------------------------------------------------------------------------
Add(m, pattern) == \/ add_misplaced(m, pattern) \/ add_static(m, pattern)
                   \/ add_dynamic(m, pattern) \/ add_catchall(m, pattern)

RouterNext ==
    \/ \E m \in AnyMethod, pattern \in Patterns : Add(m, pattern)
    \/ set_not_found_handler \/ set_method_not_allowed_handler
    \/ \E m \in AnyMethod, path \in Paths : handle(m, path)

RouterSpec == RouterInit /\ [][RouterNext]_routerVars

-----------------------------------------------------------------------------
(* Properties: the tables against the list of calls.                       *)

Answered == answer # NoAnswer

Segs(i) == parse_pattern(regs[i].pattern)

\* Registration i can serve method m and a path.
Serves(i, m, path) ==
    /\ regs[i].method = m /\ CatchAllIsLast(Segs(i))
    /\ IF Kinds(Segs(i)) \subseteq {"Literal"} THEN path = Canonical(Segs(i))
       ELSE Matches([segments |-> Segs(i)], split_path(path))

Candidates(m, path) == {i \in DOMAIN regs : Serves(i, m, path)}
OfKind(S, kind) ==
    {i \in S : CASE kind = "static"   -> Kinds(Segs(i)) \subseteq {"Literal"}
                 [] kind = "dynamic"  -> "Param" \in Kinds(Segs(i)) /\ "CatchAll" \notin Kinds(Segs(i))
                 [] kind = "catchall" -> "CatchAll" \in Kinds(Segs(i))}

\* Who may serve: of the static routes the latest, else of the routes with
\* as many segments as the path the first, else a catch-all with the
\* longest literal prefix and, among those, the most segments.
Winners(m, path) ==
    LET S == OfKind(Candidates(m, path), "static")
        D == OfKind(Candidates(m, path), "dynamic")
        C == OfKind(Candidates(m, path), "catchall")
        prefix(i) == literal_prefix_length(Segs(i))
    IN  CASE S # {} -> {i \in S : \A j \in S : j <= i}
          [] S = {} /\ D # {} -> {i \in D : \A j \in D : i <= j}
          [] OTHER -> {i \in C : \A j \in C : \/ prefix(j) < prefix(i)
                                               \/ /\ prefix(j) = prefix(i)
                                                  /\ Len(Segs(j)) <= Len(Segs(i))}

\* The documented order (http_router.h:21-26), whatever was registered, in
\* whatever order, and however the catch-alls were sorted in between.
Precedence ==
    Answered =>
        LET W    == Winners(answer.method, answer.path)
            kind == answer.out.kind
            elsewhere == \E m \in AnyMethod : Candidates(m, answer.path) # {}
        IN  CASE W # {} -> kind = "route" /\ answer.out.fn \in W
              [] W = {} /\ elsewhere  -> kind \in {"405", "custom405"}
              [] W = {} /\ ~elsewhere -> kind \in {"404", "custom404"}

\* A 405 names exactly the methods for which the same request would have
\* been dispatched: three copies of the matching loop have to agree.
AllowExact ==
    Answered /\ answer.out.kind = "405" =>
        answer.out.allow = {m \in Methods : Winners(m, answer.path) # {}}

\* The handler finds exactly the captures of its own route and none of a
\* route that was tried before it.  Literals and captures together are the
\* segments of the path, in order and none lost; segments are never empty, so
\* this says nothing about repeated and trailing slashes (see SuffixWhole).
ParamsExact ==
    Answered /\ answer.out.kind = "route" =>
        LET pat    == Segs(answer.out.fn)
            segs   == split_path(answer.path)
            params == answer.out.params
            names(K) == {pat[k].text : k \in {j \in K : pat[j].kind # "Literal"}}
        IN  /\ DOMAIN params = names(DOMAIN pat)
            /\ \A k \in DOMAIN pat :
                  /\ pat[k].kind = "Literal" => pat[k].text = segs[k]
                  /\ /\ pat[k].kind = "Param"
                     /\ pat[k].text \notin names(k + 1 .. Len(pat))
                     => params[pat[k].text] = <<segs[k]>>
                  /\ pat[k].kind = "CatchAll" =>
                        SubSeq(segs, 1, k - 1) \o split_path(params[pat[k].text]) = segs

\* A catch-all gets "the complete remaining suffix" (README.md:165): what
\* follows some beginning of the path that holds the segments before it.
SuffixWhole ==
    Answered /\ answer.out.kind = "route" =>
        LET pat  == Segs(answer.out.fn)
            path == answer.path
        IN  \A k \in DOMAIN pat :
               pat[k].kind = "CatchAll" =>
                   \E p \in DOMAIN path :
                      /\ Len(split_path(SubSeq(path, 1, p))) = k - 1
                      /\ answer.out.params[pat[k].text] = Join(SubSeq(path, p + 1, Len(path)))

\* A static route serves the path it was registered for ("Exact static
\* match (method+path)", http_router.h:22).
RegisteredPathServed ==
    Answered =>
        \A i \in DOMAIN regs :
            /\ regs[i].method = answer.method
            /\ answer.path = [k \in DOMAIN regs[i].pattern |-> regs[i].pattern[k].text]
            /\ Kinds(Segs(i)) \subseteq {"Literal"}
            => answer.out.kind = "route"
=============================================================================
