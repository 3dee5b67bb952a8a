------------------------------- MODULE MCTexts -------------------------------
(***************************************************************************)
(* The pure algorithms, for TLC.                                           *)
(***************************************************************************)
EXTENDS Texts

\* The path matcher: all rules of up to four characters, paths of up to four.
Letters == {"/", "a", "b"}
TextsOf(S, lengths) == UNION {[1..n -> S] : n \in lengths}
MCRules == TextsOf(Letters \cup Meta, 1..4)
MCPaths == {<<"/">> \o rest : rest \in TextsOf(Letters, 0..3)}

\* robots.txt: two agents of ours and another one, a rule whose colon ends the key.
MCAgents == {<<"tlgs">>, <<"*">>}
MCNames == MCAgents \cup {<<"gus">>}
MCRuleTexts == {<<>>, <<"/">>, <<"/", "a">>, <<"/", ":">>}

\* Links and pages.
Text(scheme, host, port, path, param) ==
    [scheme |-> scheme, host |-> host, port |-> port, path |-> path,
     param |-> param, fragment |-> ""]

LinkTo(url) == [kind |-> "url", url |-> url]
Local(rooted, path, param) ==
    [kind |-> "local", rooted |-> rooted, path |-> path, param |-> param, fragment |-> "top"]

MCLinks ==
    {LinkTo(Text(scheme, "H", port, <<"a">>, "")) :
        scheme \in {"gemini", "GEMINI", ""}, port \in {0, 1965, 300}}
    \cup {LinkTo(Text("https", "h", 0, <<"a">>, "")), LinkTo(Text("gemini", "g", 0, <<>>, "")),
          LinkTo(Text("GEMINI", "h", 1965, <<"b", "b">>, "")),
          LinkTo(Text("gemini", "h", 300, <<"b", "b", "a", "..", "..", "..", ".", "b">>, ""))}
    \cup {Local(TRUE, <<"", "a", ".">>, "q"), Local(TRUE, <<"b", "x.gmi">>, "self"),
          Local(FALSE, <<"">>, "q"), Local(FALSE, <<"a", "">>, ""), Local(FALSE, <<"b", "">>, ""),
          Local(FALSE, <<"..", "a", "b">>, ""), Local(TRUE, <<"b", "next", "..", "next">>, ""),
          LinkTo(Text("gemini", "GIT", 0, <<"a">>, ""))}
    \cup {[kind |-> "action"], [kind |-> "broken"]}

MCSeeds == {Text("gemini", "h", 1965, <<>>, "")}
MCListed == {Text("gemini", "h", 1965, <<"b", "b">>, ""), Text("gemini", "h", 300, <<"*">>, "")}
MCBadHosts == {"git"}
MCBadEnds == {"next"}
MCJunk == {0, 300, 1965}

\* Questions to the search, and its graph.
MCWords == {
    [is |-> "text", text |-> <<"a">>], [is |-> "not"],
    [is |-> "domain", value |-> <<"h">>], [is |-> "content_type", value |-> <<"text">>],
    [is |-> "size", greater |-> TRUE, size |-> 5], [is |-> "size", greater |-> FALSE, size |-> 6],
    [is |-> "intitle", value |-> <<"t">>], [is |-> "badsize"], [is |-> "nonumber"]}
MCGraph == 1..3

=============================================================================
