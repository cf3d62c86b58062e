---------------------------- MODULE MCHttpRouter ----------------------------
(***************************************************************************)
(* Instances of HttpRouter: patterns and paths that overlap.               *)
(***************************************************************************)
EXTENDS HttpRouter

Lit(s)   == [mark |-> "", text |-> s]
Param(s) == [mark |-> ":", text |-> s]
Rest(s)  == [mark |-> "*", text |-> s]

TwoMethods == {"GET", "POST"}
OneMethod  == {"GET"}

\* / /a /a/ /:x /a/:x /:x/:x /*r /a/*r /a/:x/*r /*r/b
MCPatterns ==
    { <<Lit(""), Lit("")>>,
      <<Lit(""), Lit("a")>>,
      <<Lit(""), Lit("a"), Lit("")>>,
      <<Lit(""), Param("x")>>,
      <<Lit(""), Lit("a"), Param("x")>>,
      <<Lit(""), Param("x"), Param("x")>>,
      <<Lit(""), Rest("r")>>,
      <<Lit(""), Lit("a"), Rest("r")>>,
      <<Lit(""), Lit("a"), Param("x"), Rest("r")>>,
      <<Lit(""), Rest("r"), Lit("b")>> }

\* / /a /a/ /a/b /a//b/ /a/b/c
MCPaths ==
    { <<"", "">>, <<"", "a">>, <<"", "a", "">>, <<"", "a", "b">>,
      <<"", "a", "", "b", "">>, <<"", "a", "b", "c">> }

\* The route whose own path is not served.
SlashPatterns == { <<Lit(""), Lit("a"), Lit("")>> }

\* /a/*r is asked for /a/b, /a/b/c and /a/b/.
SuffixPatterns == { <<Lit(""), Lit("a"), Rest("r")>> }
SuffixPaths    == { <<"", "a", "b">>, <<"", "a", "b", "c">>, <<"", "a", "b", "">> }
=============================================================================
