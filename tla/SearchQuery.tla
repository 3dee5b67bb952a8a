----------------------------- MODULE SearchQuery -----------------------------
(***************************************************************************)
(* The question of a search (tlgs/server/controllers/search.cpp): its      *)
(* words, the filter they ask for and the pages it lets through.  A word   *)
(* is a record: a text, a NOT, or a filter with its criterion, "badsize"   *)
(* being a size that is none and "nonumber" one whose dots and digits are  *)
(* no number, as in size:>.  Texts and criteria are sequences, since words *)
(* can be run together and a content type begins with another.             *)
(***************************************************************************)
EXTENDS Naturals, FiniteSets, SequencesExt

Kinds == {"content_type", "domain", "size", "intitle"}

IsFilter(word) == word.is \in Kinds \cup {"badsize", "nonumber"}

Unread == [query |-> <<>>, negate |-> FALSE, thrown |-> FALSE,
           filter |-> [content_type |-> <<>>, domain |-> <<>>, size |-> <<>>, intitle |-> <<>>]]

\* Seeded fault: a filter leaves the NOT before it to the next one.
ConstrainKeeping(parse, kind, constraint) ==
    [parse EXCEPT !.filter[kind] = Append(@, constraint)]

Constrain(parse, kind, constraint) ==
    [parse EXCEPT !.filter[kind] = Append(@, constraint), !.negate = FALSE]

\* A turn of the loop of parseSearchQuery.  std::stod throws at what is no number,
\* and what becomes of the words after it does not matter.
ReadWord(words, parse, i) ==
    LET word == words[i]
        asText(text) == [parse EXCEPT !.query = Append(@, text)]
    IN  CASE word.is = "text" -> asText(word.text)
          [] word.is = "not" -> IF i < Len(words) /\ IsFilter(words[i + 1])
                                  THEN [parse EXCEPT !.negate = TRUE]
                                  ELSE asText(<<"not">>)
          [] word.is = "badsize" -> [parse EXCEPT !.negate = FALSE]
          [] word.is = "nonumber" -> [parse EXCEPT !.negate = FALSE, !.thrown = TRUE]
          [] word.is = "size" ->
                Constrain(parse, "size", [size |-> word.size, greater |-> parse.negate # word.greater])
          [] OTHER -> Constrain(parse, word.is, [value |-> word.value, negate |-> parse.negate])

\* The space after the last word is taken away before the titles are added, so
\* that the first of them is run together with that word.
WithTitles(query, titles) ==
    IF query = <<>> \/ titles = <<>> THEN query \o titles
    ELSE Front(query) \o <<Last(query) \o Head(titles)>> \o Tail(titles)

ParseQuery(words) ==
    LET parse == FoldLeftDomain(LAMBDA p, i : ReadWord(words, p, i), Unread, words)
        titles == [i \in DOMAIN parse.filter.intitle |-> parse.filter.intitle[i].value]
    IN  [query |-> WithTitles(parse.query, titles), filter |-> parse.filter, thrown |-> parse.thrown]

\* SearchFilter::empty, which forgets the titles.
IsEmpty(filter) == filter.content_type = <<>> /\ filter.domain = <<>> /\ filter.size = <<>>

HasType(page, value) == page.content_type # <<>> /\ IsPrefix(value, page.content_type)

\* Seeded fault: negations, sizes and types are forgotten.
EvalFilterLoose(page, filter) ==
    /\ page.size = 0 => filter.size = <<>>
    /\ filter.domain = <<>> \/ \E c \in ToSet(filter.domain) : page.host = c.value

\* evalFilter
EvalFilter(page, filter) ==
    /\ page.size = 0 => filter.size = <<>>
    /\ filter.size = <<>> \/ \E c \in ToSet(filter.size) : IF c.greater THEN page.size > c.size ELSE page.size < c.size
    /\ filter.domain = <<>> \/ \E c \in ToSet(filter.domain) : c.negate # (page.host = c.value)
    /\ filter.content_type = <<>> \/ \E c \in ToSet(filter.content_type) : c.negate # HasType(page, c.value)
    /\ filter.intitle = <<>> \/ \E c \in ToSet(filter.intitle) : c.negate # HasType(page, c.value)

\* The results that are among pages, in their order.
Sift(results, pages) ==
    FoldLeft(LAMBDA kept, v : IF v \in pages THEN Append(kept, v) ELSE kept, <<>>, results)

=============================================================================
