------------------------------ MODULE PathRules ------------------------------
(***************************************************************************)
(* Matching a path with the rules of a robots.txt or of the blacklist      *)
(* (tlgsutils/robots_txt_parser.cpp).  A rule and a path are sequences of  *)
(* characters; "/", "*", "$", "?" and "^" are the ones with a meaning, the *)
(* last two in a regular expression only.  shouldCrawl and UrlBlacklist    *)
(* put one path to a list of rules after another.                          *)
(***************************************************************************)
EXTENDS Integers, Sequences, FiniteSets, SequencesExt

CONSTANTS Rules,  \* the rules asked about, none of them empty
          Paths   \* the paths asked about

ASSUME TextsAssumption ==
    /\ \A rule \in Rules : rule \in Seq(ToSet(rule)) \ {<<>>}
    /\ \A path \in Paths : path \in Seq(ToSet(path))

VARIABLE asked    \* the last question and its answer; <<>> before the first

Occurs(s, str) == \E i \in 0..Len(str) : IsPrefix(s, SubSeq(str, i + 1, Len(str)))

Stars(rule) == {i \in DOMAIN rule : rule[i] = "*"}

\* A rule without a star names a path and what lies below it.  The last case
\* asks for two characters more than the rule has.
LiteralMatch(rule, path) ==
    \/ path = rule
    \/ path = rule \o <<"/">>
    \/ /\ Len(path) > Len(rule) + 1
       /\ IsPrefix(rule, path)
       /\ path[Len(rule) + 1] = "/" \/ Last(rule) = "/"

\* The characters that the std::regex made of a rule does not take for
\* themselves.  A star becomes .*, the others are left as they stand.
Meta == {"*", "$", "^", "?"}

\* A question mark makes what stands before it optional (.*? is any text still,
\* and libstdc++ lets another one follow it).
IsOptional(rule, i) == i < Len(rule) /\ rule[i + 1] = "?"

\* There must be something that it can make optional, or std::regex throws.
IsRegex(rule) ==
    \A i \in DOMAIN rule : rule[i] = "?" => i > 1 /\ rule[i - 1] \notin {"^", "$"}

\* regex_match; an expression that std::regex refuses matches nothing.
\* ends[i]: how much of the path the first i characters of the rule match.
RegexMatch(rule, path) ==
    LET ends[i \in 0..Len(rule)] ==
          IF i = 0 THEN {0}
          ELSE CASE rule[i] = "*" -> {j \in 0..Len(path) : \E k \in ends[i - 1] : k =< j}
                 [] rule[i] = "$" -> ends[i - 1] \cap {Len(path)}
                 [] rule[i] = "^" -> ends[i - 1] \cap {0}
                 [] rule[i] = "?" -> ends[i - 1]
                 [] OTHER ->
                      {j \in 1..Len(path) : rule[i] = path[j] /\ j - 1 \in ends[i - 1]}
                      \cup {j \in ends[i - 1] : IsOptional(rule, i)}
    IN  IsRegex(rule) /\ Len(path) \in ends[Len(rule)]

\* std::string::rfind of s in path, counted from 0; it is npos, greater than
\* every position, where s does not occur.
RFindIsAfter(s, path, n) ==
    LET found == {i \in 0..(Len(path) - Len(s)) : IsPrefix(s, SubSeq(path, i + 1, Len(path)))}
    IN  found = {} \/ \E i \in found : i > n

\* Seeded fault: what comes before the star is looked for anywhere.
MiddleMatchAnywhere(rule, path) ==
    \E n \in {i - 1 : i \in Stars(rule)} :
        /\ Occurs(SubSeq(rule, 1, n), path)
        /\ RFindIsAfter(SubSeq(rule, n + 2, Len(rule)), path, n)

\* One star in the middle, n characters before it.
MiddleMatch(rule, path) ==
    \E n \in {i - 1 : i \in Stars(rule)} :
        /\ IsPrefix(SubSeq(rule, 1, n), path)
        /\ RFindIsAfter(SubSeq(rule, n + 2, Len(rule)), path, n)

StartsWithStar(rule) == IsPrefix(<<"*">>, rule)
StartsWithSlashStar(rule) == IsPrefix(<<"/", "*">>, rule)

\* A dollar at the end of a rule that begins with a star is dropped.
WithoutDollar(rule) ==
    IF Last(rule) = "$" /\ (StartsWithStar(rule) \/ StartsWithSlashStar(rule))
    THEN Front(rule) ELSE rule

\* Seeded fault: a star at both ends is read as one at the end.
StarMatchOneEnd(rule, path) ==
    LET stars == Cardinality(Stars(rule))
        n == Len(rule)
    IN  IF StartsWithStar(rule) THEN IsSuffix(SubSeq(rule, 2, n), path)
        ELSE IF StartsWithSlashStar(rule) /\ stars = 1 THEN IsSuffix(SubSeq(rule, 3, n), path)
        ELSE IF Last(rule) = "*" /\ stars = 1 THEN IsPrefix(Front(rule), path)
        ELSE IF stars = 1 THEN MiddleMatch(rule, path)
        ELSE RegexMatch(rule, path)

\* The fast cases of a rule with a star, in their order, then the regex.
StarMatch(rule, path) ==
    LET stars == Cardinality(Stars(rule))
        n == Len(rule)
        both == Last(rule) = "*" /\ stars = 2
    IN  IF StartsWithStar(rule) /\ both THEN Occurs(SubSeq(rule, 2, n - 1), path)
        ELSE IF StartsWithSlashStar(rule) /\ both THEN Occurs(SubSeq(rule, 3, n - 1), path)
        ELSE IF StartsWithStar(rule) /\ stars = 1 THEN IsSuffix(SubSeq(rule, 2, n), path)
        ELSE IF StartsWithSlashStar(rule) /\ stars = 1 THEN IsSuffix(SubSeq(rule, 3, n), path)
        ELSE IF Last(rule) = "*" /\ stars = 1 THEN IsPrefix(Front(rule), path)
        ELSE IF stars = 1 THEN MiddleMatch(rule, path)
        ELSE RegexMatch(rule, path)

\* wildcardPathMatch; parseRobotsTxt stores no empty rule.
PathMatch(rule, path) ==
    IF Stars(rule) = {} THEN LiteralMatch(rule, path)
    ELSE StarMatch(WithoutDollar(rule), path)

IsPathBlocked(path, rules) == \E rule \in rules : PathMatch(rule, path)

AskInit == asked = <<>>

\* isPathBlocked with a list of one rule, as UrlBlacklist calls it.
Ask(path, rule) == asked' = [path |-> path, rule |-> rule, blocked |-> IsPathBlocked(path, {rule})]

AskNext == \E path \in Paths, rule \in Rules : Ask(path, rule)

AskSpec == AskInit /\ [][AskNext]_asked

-----------------------------------------------------------------------------

\* path is what the rule names, or lies below it.
Below(rule, path) ==
    /\ IsPrefix(rule, path)
    /\ Len(path) = Len(rule) \/ Last(rule) = "/" \/ path[Len(rule) + 1] = "/"

\* A character that stands for itself in each of the ways a rule is read.
IsPlain(rule, i) == rule[i] \notin Meta /\ ~IsOptional(rule, i)

LiteralHead(rule) ==
    SubSeq(rule, 1, CHOOSE n \in 0..Len(rule) :
                        /\ \A i \in 1..n : IsPlain(rule, i)
                        /\ n = Len(rule) \/ ~IsPlain(rule, n + 1))

\* A rule blocks nothing outside what it names: without a star, only the path
\* itself and what lies below it, so that /foo leaves /foobar and /foo.txt
\* alone; with stars, only what begins like the rule up to the first of them,
\* whatever the search for the rest (rfind, npos) returns -- or up to the first
\* character that the regular expression does not take for itself: the rule
\* /foo?*x* blocks /fox.
RulesStayInside ==
    asked # <<>> /\ asked.blocked =>
        IF Stars(asked.rule) = {} THEN Below(asked.rule, asked.path)
        ELSE \/ IsPrefix(LiteralHead(asked.rule), asked.path)
             \/ StartsWithSlashStar(asked.rule)

\* The fast cases are short cuts: for a rule whose stars are at its ends they
\* answer as the regular expression would, "/*" at the head being read as "*".
\* A single star in the middle, a dollar before the end, ? and ^, which the two
\* take for different things, are left out: see the README.
FastCasesAgree ==
    asked # <<>> =>
        LET rule == asked.rule
            meaning == IF StartsWithSlashStar(rule) THEN Tail(rule) ELSE rule
        IN  /\ Stars(rule) # {}
            /\ Stars(meaning) \subseteq {1, Len(meaning)}
            /\ \A i \in 1..(Len(rule) - 1) : rule[i] # "$"
            /\ \A i \in DOMAIN rule : rule[i] \notin {"?", "^"}
            => (asked.blocked <=> RegexMatch(meaning, asked.path))

\* What the tests (robots_txt_parser_test.cpp) say of a rule without a star: it
\* blocks all that lies below it.  It does not for a rule that ends in a slash
\* and a path one character longer.
SubtreeIsBlocked ==
    asked # <<>> /\ Stars(asked.rule) = {} =>
        (Below(asked.rule, asked.path) => asked.blocked)

=============================================================================
