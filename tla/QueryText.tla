------------------------------ MODULE QueryText ------------------------------
(***************************************************************************)
(* parseSearchQuery over every question of up to MaxWords words, written   *)
(* word by word (tlgs/server/controllers/search.cpp).                      *)
(***************************************************************************)
EXTENDS SearchQuery

CONSTANTS Words,    \* the words of a question
          MaxWords  \* bound on their number

ASSUME WordsAssumption ==
    /\ MaxWords \in Nat
    /\ \A word \in Words : word.is \in Kinds \cup {"text", "not", "badsize", "nonumber"}

VARIABLES words, parsed

search == <<words, parsed>>

QueryInit == words = <<>> /\ parsed = ParseQuery(words)

Write ==
    /\ Len(words) < MaxWords
    /\ \E word \in Words : words' = Append(words, word)
    /\ parsed' = ParseQuery(words')

QuerySpec == QueryInit /\ [][Write]_search

-----------------------------------------------------------------------------
(* Properties *)

\* What the words say one by one, without a loop: a NOT stands for itself unless
\* a filter comes next.
Negated(i) == i > 1 /\ words[i - 1].is = "not"
Idle(i) == words[i].is = "not" /\ ~(i < Len(words) /\ IsFilter(words[i + 1]))
Of(kind) == {i \in DOMAIN words : words[i].is = kind}
Spoken == {i \in DOMAIN words : words[i].is = "text" \/ Idle(i)}
TextOf(i) == IF words[i].is = "text" THEN words[i].text ELSE <<"not">>

\* The place of i among places.
Place(places, i) == Cardinality({j \in places : j =< i})

\* Every filter is in its place, negated by the NOT right before it and by
\* nothing else, and no filter is lost but a size that is none.
FiltersAreSaid ==
    \A kind \in Kinds :
       /\ Len(parsed.filter[kind]) = Cardinality(Of(kind))
       /\ \A i \in Of(kind) : parsed.filter[kind][Place(Of(kind), i)] =
             IF kind = "size" THEN [size |-> words[i].size, greater |-> words[i].greater # Negated(i)]
             ELSE [value |-> words[i].value, negate |-> Negated(i)]

\* Every other word is text, in its order; the words of titles come last, the
\* first of them run together with the last word of the text.
TextIsSaid ==
    LET titles == Of("intitle")
        n == Cardinality(Spoken)
        shared == IF n > 0 /\ titles # {} THEN 1 ELSE 0
    IN  /\ Len(parsed.query) = n + Cardinality(titles) - shared
        /\ \A i \in Spoken :
              Place(Spoken, i) =< n - shared => parsed.query[Place(Spoken, i)] = TextOf(i)
        /\ \A i \in titles :
              Place(titles, i) > shared => parsed.query[n + Place(titles, i) - shared] = words[i].value
        /\ \A i \in Spoken, j \in titles :
              Place(Spoken, i) = n /\ Place(titles, j) = 1 => parsed.query[n] = TextOf(i) \o words[j].value

\* The question is taken word by word, whatever the loop carries along; but one
\* with a size that is no number is not taken at all.
QuestionIsExact ==
    /\ parsed.thrown <=> \E i \in DOMAIN words : words[i].is = "nonumber"
    /\ ~parsed.thrown => FiltersAreSaid /\ TextIsSaid

=============================================================================
