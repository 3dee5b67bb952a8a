----------------------------- MODULE GeminiText -----------------------------
(***************************************************************************)
(* What the crawler takes from a page of text/gemini, node by node         *)
(* (tlgsutils/gemini_parser.cpp): extractGeminiConcise finds the text for  *)
(* the index, the links and the title, isGemsub whether the page is a      *)
(* feed.  A node is a record of its type and of what the two ask of it:    *)
(*   entry  whether the text of a link begins with a date, and then        *)
(*          whether it leads to the host of the page by gemini (as a link  *)
(*          that is no URL does), elsewhere, or has no target;             *)
(*   line   a text line is empty, a separator (of one character, ornaments *)
(*          at both ends, a line of a tree) or prose;                      *)
(*   art    the meta or the picture (isAsciiArt) gives it away.            *)
(***************************************************************************)
EXTENDS Naturals, Sequences

CONSTANT MaxNodes        \* bound: the nodes of a page

VARIABLES nodes,         \* the nodes read
          firstContent,  \* first_content
          text,          \* doc.text: the places of the nodes it is made of
          title,         \* doc.title: the place of its node, 0 as long as empty
          run,           \* cont_dated_entries_counter
          longest        \* max_cont_dated_entries

gemini == <<nodes, firstContent, text, title, run, longest>>

Nodes == [type : {"link"}, entry : {"here", "elsewhere", "nowhere", "undated"}]
         \cup [type : {"text"}, line : {"empty", "separator", "prose"}]
         \cup [type : {"preformatted"}, art : BOOLEAN]
         \cup [type : {"heading1"}, empty : BOOLEAN]

GeminiInit ==
    /\ nodes = <<>>
    /\ firstContent = TRUE
    /\ text = {}
    /\ title = 0
    /\ run = 0 /\ longest = 0

\* The nodes that the loop of extractGeminiConcise leaves out.
Dropped(node) ==
    \/ node.type = "preformatted" /\ (firstContent \/ node.art)
    \/ node.type = "text" /\ node.line = "separator"

\* Seeded fault: a separator that is left out does not count as content.
ExtractLate(node) ==
    /\ firstContent' = (firstContent /\ (node.type # "text" \/ node.line # "prose"))
    /\ text' = IF Dropped(node) THEN text ELSE text \cup {Len(nodes) + 1}
    /\ title' = IF node.type = "heading1" /\ ~node.empty /\ title = 0
                THEN Len(nodes) + 1 ELSE title

\* extractGeminiConcise; a separator counts as content, a heading or a link
\* does not.
Extract(node) ==
    /\ firstContent' = (firstContent /\ (node.type # "text" \/ node.line = "empty"))
    /\ text' = IF Dropped(node) THEN text ELSE text \cup {Len(nodes) + 1}
    /\ title' = IF node.type = "heading1" /\ ~node.empty /\ title = 0
                THEN Len(nodes) + 1 ELSE title

\* Seeded fault: the run goes on behind a link without a date.
CountKept(node) ==
    /\ run' = IF node.type = "link" /\ node.entry = "here" THEN run + 1
              ELSE IF node.type = "link" /\ node.entry = "elsewhere" THEN 0
              ELSE run
    /\ longest' = IF run' > longest THEN run' ELSE longest

\* isGemsub: links that are not dated, lead nowhere or elsewhere end a run;
\* nodes of other types do not.
Count(node) ==
    /\ run' = IF node.type # "link" THEN run ELSE IF node.entry = "here" THEN run + 1 ELSE 0
    /\ longest' = IF run' > longest THEN run' ELSE longest

ReadNode(node) ==
    /\ Len(nodes) < MaxNodes
    /\ nodes' = Append(nodes, node)
    /\ Extract(node)
    /\ Count(node)

GeminiNext == \E node \in Nodes : ReadNode(node)

GeminiSpec == GeminiInit /\ [][GeminiNext]_gemini

IsGemsub == longest >= 3

-----------------------------------------------------------------------------

GeminiTypeOK ==
    /\ nodes \in Seq(Nodes)
    /\ firstContent \in BOOLEAN
    /\ text \subseteq DOMAIN nodes /\ title \in {0} \cup DOMAIN nodes
    /\ run \in 0..longest /\ longest \in 0..Len(nodes)

IsEntry(i) == nodes[i].type = "link" /\ nodes[i].entry = "here"

\* A page is taken for a feed exactly when it has three links in a row, leaving
\* out nodes of other types, that are dated and lead to its own host.
GemsubIsExact ==
    IsGemsub <=>
        \E i, j, k \in DOMAIN nodes :
           /\ i < j /\ j < k /\ IsEntry(i) /\ IsEntry(j) /\ IsEntry(k)
           /\ \A n \in (i..k) \ {i, j, k} : nodes[n].type # "link"

\* The text of the index has every node but separators and pictures; a block
\* of preformatted text is one if it looks like one or comes before any line of
\* text, if only a separator.  So no link and no prose is lost.
TextIsExact ==
    text = {i \in DOMAIN nodes :
              /\ ~(nodes[i].type = "text" /\ nodes[i].line = "separator")
              /\ nodes[i].type = "preformatted" =>
                    /\ ~nodes[i].art
                    /\ \E j \in 1..(i - 1) : nodes[j].type = "text" /\ nodes[j].line # "empty"}

=============================================================================
