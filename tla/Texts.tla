-------------------------------- MODULE Texts --------------------------------
(***************************************************************************)
(* The pure algorithms side by side: a question to the path matcher, a     *)
(* robots.txt, a page, the links from page to page, a question to the      *)
(* search and its graph.  They share nothing, so that a behaviour has one, *)
(* chosen at its start.                                                    *)
(***************************************************************************)
EXTENDS PageLinks, RobotsText, GeminiText, QueryText, Ranking

VARIABLE chosen     \* the algorithm that goes on

vars == <<chosen, asked, parser, gemini, search, graph, Walk>>

Init ==
    /\ chosen \in {"paths", "robots", "gemini", "query", "graph", "links"}
    /\ AskInit /\ ParserInit /\ GeminiInit /\ QueryInit /\ GraphInit /\ WalkInit

\* One question is put to the path matcher.
Next ==
    \/ /\ chosen = "paths"  /\ asked = <<>> /\ AskNext
       /\ UNCHANGED <<chosen, parser, gemini, search, graph, Walk>>
    \/ chosen = "robots" /\ ParserNext /\ UNCHANGED <<chosen, asked, gemini, search, graph, Walk>>
    \/ chosen = "gemini" /\ GeminiNext /\ UNCHANGED <<chosen, asked, parser, search, graph, Walk>>
    \/ chosen = "query"  /\ Write      /\ UNCHANGED <<chosen, asked, parser, gemini, graph, Walk>>
    \/ chosen = "graph"  /\ Link       /\ UNCHANGED <<chosen, asked, parser, gemini, search, Walk>>
    \/ chosen = "links"  /\ WalkNext   /\ UNCHANGED <<chosen, asked, parser, gemini, search, graph>>

Spec == Init /\ [][Next]_vars

-----------------------------------------------------------------------------

\* The types of the readers of lines, nodes and links: no empty rule is stored,
\* and a page is always one normal gemini URL.
TypeOK == ParserTypeOK /\ GeminiTypeOK /\ WalkTypeOK

=============================================================================
