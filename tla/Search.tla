-------------------------------- MODULE Search --------------------------------
(***************************************************************************)
(* Searches of the server (tlgs/server/controllers/search.cpp, tlgs_search *)
(* and pageSearch) beside an index that changes: several at a time, on     *)
(* several threads, with one cache of results and one count of searches in *)
(* flight.  A result is cached as it was ranked, and once more for every   *)
(* filter that was put to it; a search that finds its filtered result asks *)
(* the database for nothing but the texts to show.                         *)
(*                                                                         *)
(* One step lasts from one access to what searches share to the next.      *)
(***************************************************************************)
EXTENDS SearchQuery

CONSTANTS Searches,   \* requests, each made once
          Asks,       \* the questions of each: [words, page], page being 1 or more
          Versions,   \* pages as the crawler may find them
          Indexed,    \* those in the index at first
          Quoted,     \* the URLs with a quote in them
          HashOf,     \* std::hash of a text: a function to sets of bits
          Bits,       \* 64: the bits of a hash
          MaxFlight,  \* 64
          MaxRoot,    \* 50000: pages the database gives
          ItemsPerPage,
          MaxChanges  \* bound: indexes there are after the first

ASSUME ConstantsAssumption ==
    /\ IsFiniteSet(Searches) /\ IsFiniteSet(Versions)
    /\ MaxFlight \in Nat /\ ItemsPerPage \in Nat \ {0} /\ MaxChanges \in Nat
    /\ Bits \in Nat /\ MaxRoot \in Nat
    /\ Indexed \subseteq Versions /\ \A v, w \in Indexed : v.url = w.url => v = w
    /\ \A s \in Searches : \A q \in Asks[s] : q.page \in Nat \ {0}

VARIABLES index,     \* the rows of pages that are indexed
          cache,     \* result_cache: key -> list of versions
          inFlight,  \* search_in_flight
          pc, asked, list, shown,
          root,      \* the pages the database has given, of which list is a ranking
          past       \* the indexes there have been

request == <<pc, asked, list, shown, root>>
vars    == <<index, cache, inFlight, request, past>>

PCs == {"idle", "refused", "lookup", "rank", "select", "keep", "filter", "show", "leave", "done"}
Questions == UNION {Asks[s] : s \in Searches}
Nothing == [words |-> <<>>, page |-> 1]

Init ==
    /\ index = Indexed
    /\ cache = <<>>
    /\ inFlight = 0
    /\ pc = [s \in Searches |-> "idle"]
    /\ asked = [s \in Searches |-> Nothing]
    /\ list = [s \in Searches |-> <<>>]
    /\ shown = [s \in Searches |-> {}]
    /\ past = {Indexed}
    /\ root = [s \in Searches |-> {}]

Goto(s, label) == pc' = [pc EXCEPT ![s] = label]

ParseOf == [q \in Questions \cup {Nothing} |-> ParseQuery(q.words)]
QueryOf(s) == ParseOf[asked[s]].query
FilterOf(s) == ParseOf[asked[s]].filter

\* A hash is a number, and here the set of its bits; a size is its own.
Places == 0..(Bits - 1)
BitsOf(n) == {b \in Places : (n \div 2^b) % 2 = 1}

\* hash + 1: a bit changes when all below it are set.
Successor(hash) == {b \in Places : (b \in hash) # (0..(b - 1) \subseteq hash)}
Plus(hash, flag) == IF flag THEN Successor(hash) ELSE hash

\* The hashes of the constraints of a filter, whatever their kind.
HashesOf(filter) ==
    LET texts == filter.content_type \o filter.domain \o filter.intitle
        sizes == filter.size
    IN  [i \in DOMAIN texts |-> Plus(HashOf[texts[i].value], texts[i].negate)]
          \o [i \in DOMAIN sizes |-> Plus(BitsOf(sizes[i].size), sizes[i].greater)]

\* std::hash<SearchFilter>: the exclusive or of them.
FilterKey(filter) ==
    LET hashes == HashesOf(filter)
    IN  {b \in Places : Cardinality({i \in DOMAIN hashes : b \in hashes[i]}) % 2 = 1}

KeyOf == [q \in Questions \cup {Nothing} |-> FilterKey(ParseOf[q].filter)]
RawKey(s) == <<QueryOf(s)>>
FilteredKey(s) == <<QueryOf(s), KeyOf[asked[s]]>>

-----------------------------------------------------------------------------
(* pageSearch *)

\* search_vector @@ plainto_tsquery: all the words.
Matching(query, pages) == {v \in pages : ToSet(query) \subseteq v.words}

Less(a, b) == IF a < b THEN a ELSE b

\* ORDER BY rank DESC LIMIT 50000: of more, which are the best is open.  None of
\* them has the rank 0 that keeps the pages that only link to one out of is_root.
RootSets(query, pages) ==
    LET found == Matching(query, pages)
    IN  kSubset(Less(MaxRoot, Cardinality(found)), found)

\* node is stored under the same content as kept: the same host, the same path,
\* or kept is a copy of node in an archive, gemini://archive/host/path.  (URLs
\* that are one but for the spelling of /~, /users and /user have one host.)
IsSame(node, kept) ==
    \/ node.host = kept.host
    \/ node.path = kept.path
    \/ IsSuffix(node.host \o node.path, kept.path)
IsCopyOf(node, kept) == IsSuffix(kept.host \o kept.path, node.path)

\* Seeded fault: a page that meets its like is dropped with it.
PutDropping(node, kept) ==
    LET same == {k \in kept : k.hash = node.hash /\ (IsSame(node, k) \/ IsCopyOf(node, k))}
    IN  IF node.size = 0 \/ same = {} THEN {kept \cup {node}}
        ELSE {kept \ {k} : k \in same}

\* A turn of the loop that merges pages of one content: which of several is met
\* first, and which has the higher score, is open.
Put(node, kept) ==
    LET same == {k \in kept : k.hash = node.hash /\ IsSame(node, k)}
        originals == {k \in kept : k.hash = node.hash /\ IsCopyOf(node, k)}
    IN  IF node.size = 0 \/ same \cup originals = {} THEN {kept \cup {node}}
        ELSE {kept} \cup {(kept \ {k}) \cup {node} : k \in same}

\* The results that may be left of a set of pages, whatever their ranks.
Merged[pages \in SUBSET Versions] ==
    IF pages = {} THEN {{}}
    ELSE UNION {UNION {Put(node, kept) : kept \in Merged[pages \ {node}]} : node \in pages}

\* ... in the order of their scores.
Rankings == [pages \in SUBSET Versions |-> UNION {SetToSeqs(results) : results \in Merged[pages]}]

-----------------------------------------------------------------------------
(* tlgs_search *)

Hit(key) == key \in DOMAIN cache
Insert(key, value) ==
    cache' = [k \in DOMAIN cache \cup {key} |-> IF k = key THEN value ELSE cache[k]]

\* A question that cannot be read throws; one without a word is asked again.
Unanswered(question) == ParseOf[question].thrown \/ ParseOf[question].query = <<>>

\* Seeded fault: one more search is let in than the comparison lets in.
EnterPast(s) ==
    /\ pc[s] = "idle"
    /\ inFlight' = inFlight + 1
    /\ \E question \in Asks[s] :
          /\ asked' = [asked EXCEPT ![s] = question]
          /\ Goto(s, IF inFlight > MaxFlight + 1 THEN "refused"
                     ELSE IF Unanswered(question) THEN "leave" ELSE "lookup")
    /\ UNCHANGED <<index, cache, list, shown, root, past>>

\* Counter counter(search_in_flight): it is compared as it was before.
Enter(s) ==
    /\ pc[s] = "idle"
    /\ inFlight' = inFlight + 1
    /\ \E question \in Asks[s] :
          /\ asked' = [asked EXCEPT ![s] = question]
          /\ Goto(s, IF inFlight > MaxFlight THEN "refused"
                     ELSE IF Unanswered(question) THEN "leave" ELSE "lookup")
    /\ UNCHANGED <<index, cache, list, shown, root, past>>

\* findAndFetch(filtered_result_cache_key)
LookUp(s) ==
    /\ pc[s] = "lookup"
    /\ IF Hit(FilteredKey(s))
         THEN list' = [list EXCEPT ![s] = cache[FilteredKey(s)]] /\ Goto(s, "show")
         ELSE UNCHANGED list /\ Goto(s, "rank")
    /\ UNCHANGED <<index, cache, inFlight, asked, shown, root, past>>

\* findAndFetch(raw_result_cache_key)
LookUpRaw(s) ==
    /\ pc[s] = "rank"
    /\ IF Hit(RawKey(s))
         THEN list' = [list EXCEPT ![s] = cache[RawKey(s)]] /\ Goto(s, "filter")
         ELSE UNCHANGED list /\ Goto(s, "select")
    /\ UNCHANGED <<index, cache, inFlight, asked, shown, root, past>>

\* co_await pageSearch(query_str)
Select(s) ==
    /\ pc[s] = "select"
    /\ \E found \in RootSets(QueryOf(s), index) :
          /\ root' = [root EXCEPT ![s] = found]
          /\ \E ranking \in Rankings[found] : list' = [list EXCEPT ![s] = ranking]
    /\ Goto(s, "keep")
    /\ UNCHANGED <<index, cache, inFlight, asked, shown, past>>

\* Seeded fault: the result is looked up again once it is cached.
KeepAndLook(s) ==
    /\ pc[s] = "keep"
    /\ Insert(RawKey(s), list[s])
    /\ root' = [root EXCEPT ![s] = {}]
    /\ Goto(s, "rank")
    /\ UNCHANGED <<index, inFlight, asked, list, shown, past>>

\* result_cache.insert(raw_result_cache_key, ...)
Keep(s) ==
    /\ pc[s] = "keep"
    /\ Insert(RawKey(s), list[s])
    /\ root' = [root EXCEPT ![s] = {}]
    /\ Goto(s, "filter")
    /\ UNCHANGED <<index, inFlight, asked, list, shown, past>>

\* What a filter lets through.
Passing(filter) == {v \in Versions : IsEmpty(filter) \/ EvalFilter(v, filter)}

\* Seeded fault: the filtered result is cached under the words alone.
FilterUnderWords(s) ==
    /\ pc[s] = "filter"
    /\ LET kept == Sift(list[s], Passing(FilterOf(s)))
       IN  list' = [list EXCEPT ![s] = kept] /\ Insert(RawKey(s), kept)
    /\ Goto(s, "show")
    /\ UNCHANGED <<index, inFlight, asked, shown, root, past>>

\* The filter, and result_cache.insert(filtered_result_cache_key, ...)
Filter(s) ==
    /\ pc[s] = "filter"
    /\ LET kept == Sift(list[s], Passing(FilterOf(s)))
       IN  list' = [list EXCEPT ![s] = kept] /\ Insert(FilteredKey(s), kept)
    /\ Goto(s, "show")
    /\ UNCHANGED <<index, inFlight, asked, shown, root, past>>

\* The results of a page, which has none when begin is after end.
Slice(results, page) ==
    SubSeq(results, ItemsPerPage * (page - 1) + 1, Less(ItemsPerPage * page, Len(results)))

\* The SELECT of what is shown of them, which is the row as it is by now: what is
\* gone is skipped, and what has a quote in its URL is not asked for.
Show(s) ==
    /\ pc[s] = "show"
    /\ LET urls == {v.url : v \in ToSet(Slice(list[s], asked[s].page))} \ Quoted
       IN  shown' = [shown EXCEPT ![s] = {v \in index : v.url \in urls}]
    /\ Goto(s, "leave")
    /\ UNCHANGED <<index, cache, inFlight, asked, list, root, past>>

\* Seeded fault: a search that is refused gives back its place, and the
\* destructor does so again.
LeaveTwice(s) ==
    /\ pc[s] \in {"refused", "leave", "select", "show"}
    /\ inFlight' = inFlight - (IF pc[s] = "refused" THEN 2 ELSE 1)
    /\ Goto(s, "done")
    /\ asked' = [asked EXCEPT ![s] = Nothing]
    /\ list' = [list EXCEPT ![s] = <<>>]
    /\ shown' = [shown EXCEPT ![s] = {}]
    /\ UNCHANGED <<index, cache, root, past>>

\* co_return: 429, 10 or the page; or one of the SELECTs throws.  The Counter
\* goes with the frame of the coroutine, and all else with it.
Leave(s) ==
    /\ pc[s] \in {"refused", "leave", "select", "show"}
    /\ inFlight' = inFlight - 1
    /\ Goto(s, "done")
    /\ asked' = [asked EXCEPT ![s] = Nothing]
    /\ list' = [list EXCEPT ![s] = <<>>]
    /\ shown' = [shown EXCEPT ![s] = {}]
    /\ UNCHANGED <<index, cache, root, past>>

-----------------------------------------------------------------------------
(* The surroundings *)

\* The crawler removes a page, or stores what has become of one.
Change ==
    /\ Cardinality(past) =< MaxChanges
    /\ \/ \E v \in index : index' = index \ {v}
       \/ \E v \in Versions : index' = {w \in index : w.url # v.url} \cup {v}
    /\ past' = past \cup {index'}
    /\ UNCHANGED <<cache, inFlight, request>>

\* A result has not been looked at for cache_time: findAndFetch renews it.
Expire ==
    /\ \E key \in DOMAIN cache : cache' = [k \in DOMAIN cache \ {key} |-> cache[k]]
    /\ UNCHANGED <<index, inFlight, request, past>>

-----------------------------------------------------------------------------
Step(s) ==
    \/ LookUp(s) \/ LookUpRaw(s) \/ Select(s) \/ Keep(s) \/ Filter(s) \/ Show(s) \/ Leave(s)

Next == Change \/ Expire \/ \E s \in Searches : Enter(s) \/ Step(s)

\* As long as there are searches, one of them goes on; they have so few steps
\* that no more is needed.
Fairness == WF_vars(\E s \in Searches : Step(s))

SafeSpec == Init /\ [][Next]_vars
Spec == SafeSpec /\ Fairness

-----------------------------------------------------------------------------
(* Properties *)

Lists == UNION {[1..n -> Versions] : n \in 0..Cardinality(Versions)}

TypeOK ==
    /\ index \subseteq Versions
    /\ Cardinality({v.url : v \in index}) = Cardinality(index)
    /\ \A key \in DOMAIN cache : cache[key] \in Lists
    /\ inFlight \in Nat
    /\ pc \in [Searches -> PCs]
    /\ asked \in [Searches -> Questions \cup {Nothing}]
    /\ \A s \in Searches : list[s] \in Lists /\ shown[s] \subseteq Versions /\ root[s] \subseteq Versions

Open == {s \in Searches : pc[s] \notin {"idle", "done"}}

\* The count of searches in flight is exact, refused and failed ones included;
\* and the database never serves more than MaxFlight + 1 of them.
FlightIsExact ==
    /\ inFlight = Cardinality(Open)
    /\ Cardinality({s \in Open : pc[s] # "refused"}) =< MaxFlight + 1

\* What the documentation says of filters: criteria of one type are ORed, types
\* are ANDed, NOT negates the filter after it, and pages of no known size are
\* excluded by a size.
Holds(v, words, i) ==
    LET word == words[i]
        plain == CASE word.is = "domain" -> v.host = word.value
                   [] word.is = "content_type" -> HasType(v, word.value)
                   [] word.is = "size" -> IF word.greater THEN v.size > word.size ELSE v.size < word.size
    IN  plain # (i > 1 /\ words[i - 1].is = "not")
Fits(v, words) ==
    \A kind \in {"domain", "content_type", "size"} :
        LET of == {i \in DOMAIN words : words[i].is = kind}
        IN  of = {} \/ ((kind = "size" => v.size # 0) /\ \E i \in of : Holds(v, words, i))

\* Questions that share a key of the cache.
Alike(q) == {r \in Questions : ParseOf[r].query = ParseOf[q].query /\ KeyOf[r] = KeyOf[q]}

\* Whatever searches run, fail, fill the cache or find it filled, and whatever
\* the crawler does meanwhile: the pages that are shown together were all found in
\* one index for the words of the question, and all fitted there its filter, or
\* all that of one other question with the same key.  Their rows are of one later
\* index, where they need not match or fit any more.
AnswersFit ==
    \A s \in Searches : shown[s] # {} =>
        /\ \E I \in past, q \in Alike(asked[s]) : \A w \in shown[s] : \E v \in I :
              v.url = w.url /\ ToSet(QueryOf(s)) \subseteq v.words /\ Fits(v, q.words)
        /\ \E J \in past : shown[s] \subseteq J

\* Every entry of the cache is a ranking of what one index had for its words, not
\* of several nor of a part: whole under the key of the words, and under that of
\* a filter what the filter lets through, or another filter with the same key.
CacheIsExact ==
    \A key \in DOMAIN cache : \E q \in Questions, I \in past :
        /\ ParseOf[q].query = key[1]
        /\ \E found \in RootSets(key[1], I) : \E ranking \in Rankings[found] :
              \/ key = <<key[1]>> /\ cache[key] = ranking
              \/ /\ key = <<key[1], KeyOf[q]>>
                 /\ cache[key] = Sift(ranking, {v \in Versions : Fits(v, q.words)})

\* Merging loses no content, in whatever order pages come and whatever their
\* scores: of the pages the database gave, each is in the ranking or another
\* of the same content is.
NoContentIsLost ==
    \A s \in Searches : \A v \in root[s] : \E w \in ToSet(list[s]) : w.hash = v.hash

\* The searches that were let in or refused end, all of them, and give back
\* their places.
EverySearchEnds == Open # {} ~> Open = {}

-----------------------------------------------------------------------------
(* What the documentation says and the code does not do *)

\* doc_search.csp: "Applying filters of the same type effectively ORs them
\* together."  But a filter that is given twice has the key of no filter, and
\* a search may be answered with what another has found for other filters.
FilterIsApplied == \A s \in Searches : \A v \in shown[s] : Fits(v, asked[s].words)

=============================================================================
