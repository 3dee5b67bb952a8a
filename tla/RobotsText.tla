----------------------------- MODULE RobotsText -----------------------------
(***************************************************************************)
(* parseRobotsTxt (tlgsutils/robots_txt_parser.cpp): a robots.txt is read  *)
(* line by line, and the Disallow lines of the groups that name one of our *)
(* agents are kept.  A line is the key and the value its author wrote,     *)
(* without the blanks before them; a value is a sequence of characters.    *)
(***************************************************************************)
EXTENDS Naturals, Sequences

CONSTANTS Agents,    \* the names the crawler answers to
          Names,     \* the values of user-agent lines
          RuleTexts, \* the values of disallow lines
          MaxLines   \* bound: the lines of a file

VARIABLES file,      \* the lines read
          care,      \* care
          lastAgent, \* last_line_user_agent
          disallowed \* disallowed_path

parser == <<file, care, lastAgent, disallowed>>

\* A line without a colon, also an empty one, has no key.
Lines == [key : {"user-agent"}, value : Names]
         \cup [key : {"disallow"}, value : RuleTexts]
         \cup [key : {"other", "none"}, value : {<<>>}]

\* The key in lower case.  The expression of a line is greedy: the last colon
\* ends the key, so that a value with a colon in it makes another key.
Key(line) ==
    IF \E i \in DOMAIN line.value : line.value[i] = ":" THEN "other" ELSE line.key

ParserInit ==
    /\ file = <<>>
    /\ care = TRUE
    /\ lastAgent = FALSE
    /\ disallowed = {}

\* Seeded fault: each user-agent line decides anew.
AgentLineAlone(line) ==
    /\ Key(line) = "user-agent"
    /\ care' = (line.value \in Agents)
    /\ lastAgent' = TRUE
    /\ UNCHANGED disallowed

\* User-agent lines that follow each other name the agents of one group.
AgentLine(line) ==
    /\ Key(line) = "user-agent"
    /\ care' = ((lastAgent /\ care) \/ line.value \in Agents)
    /\ lastAgent' = TRUE
    /\ UNCHANGED disallowed

\* Seeded fault: an empty Disallow is a rule like any other.
DisallowLineAny(line) ==
    /\ Key(line) = "disallow"
    /\ lastAgent' = FALSE
    /\ disallowed' = IF care THEN disallowed \cup {line.value} ELSE disallowed
    /\ UNCHANGED care

\* An empty Disallow allows everything.
DisallowLine(line) ==
    /\ Key(line) = "disallow"
    /\ lastAgent' = FALSE
    /\ disallowed' = IF ~care THEN disallowed
                     ELSE IF line.value = <<>> THEN {}
                     ELSE disallowed \cup {line.value}
    /\ UNCHANGED care

OtherLine(line) ==
    /\ Key(line) = "other"
    /\ lastAgent' = FALSE
    /\ UNCHANGED <<care, disallowed>>

\* Neither does a line without a key end a run of user-agent lines.
SkipLine(line) ==
    /\ Key(line) = "none"
    /\ UNCHANGED <<care, lastAgent, disallowed>>

ReadLine(line) ==
    /\ Len(file) < MaxLines
    /\ file' = Append(file, line)
    /\ AgentLine(line) \/ DisallowLine(line) \/ OtherLine(line) \/ SkipLine(line)

ParserNext == \E line \in Lines : ReadLine(line)

ParserSpec == ParserInit /\ [][ParserNext]_parser

-----------------------------------------------------------------------------

ParserTypeOK ==
    /\ file \in Seq(Lines)
    /\ care \in BOOLEAN /\ lastAgent \in BOOLEAN
    /\ disallowed \subseteq RuleTexts \ {<<>>}

\* The user-agent lines that head the group line n is in: those above it, with
\* no line of a group between the first and the last of them.
IsAgentLine(i) == Key(file[i]) = "user-agent"

Heads(i, n) ==
    /\ IsAgentLine(i)
    /\ \E j \in i..(n - 1) :
          /\ \A k \in i..j : Key(file[k]) \in {"user-agent", "none"}
          /\ \A k \in (j + 1)..(n - 1) : ~IsAgentLine(k)

\* Line n is meant for us: its group names one of our agents, or no group has
\* begun.
MeantForUs(n) ==
    \/ \A i \in 1..(n - 1) : ~IsAgentLine(i)
    \/ \E i \in 1..(n - 1) : Heads(i, n) /\ file[i].value \in Agents

Disallows(n, prefix) ==
    Key(file[n]) = "disallow" /\ file[n].value = prefix /\ MeantForUs(n)

\* What is kept of a file are the prefixes disallowed to us that no later empty
\* Disallow, also meant for us, takes back: groups do not run into each other,
\* however the lines, the empty and the unreadable ones among them, are mixed.
ParseIsExact ==
    disallowed = {prefix \in RuleTexts \ {<<>>} :
                    \E n \in DOMAIN file :
                       /\ Disallows(n, prefix)
                       /\ \A m \in (n + 1)..Len(file) : ~Disallows(m, <<>>)}

=============================================================================
