# TLGS in TLA+

TLGS ("Totally Legit" Gemini Search) is a search engine for Gemini space: a
crawler, a server that answers searches, and a control program, which share
one PostgreSQL database. This directory models the crawler's concurrent core,
the parsers it rests on, and the server's searches in TLA+, checks the models with
TLC and proves their main safety properties with TLAPS. Paths below are relative
to the root of the repository.

## 1. Inventory

### Components

| component | code | state it keeps | operations |
|---|---|---|---|
| crawl dispatch | `tlgs/crawler/crawler.cpp` 266-318, `crawler.hpp` 40-80, `tlgsutils/counter.hpp` | `ongoing_crawlings_`, `ended_`, the closures posted on `loop_` | `dispatchCrawl`, `awaitEnd`, `Counter::release` |
| URL queue and claims | `crawler.cpp` 70-166, 242-264 | `craw_queue_`, `sample_pct`; `pages.last_queued_at`, `last_crawled_at` | `addUrl`, `getNextPotentialCarwlUrl`, `getNextCrawlPage` |
| robots.txt policies | `crawler.cpp` 168-240 | `policy_cache` (60 s), `host_timeout_count_`; tables `robot_policies`, `robot_policies_status` | `shouldCrawl` |
| page index | `crawler.cpp` 320-600 | the row of a URL in `pages`, its rows in `links` | `crawlPage` |
| redirects | `crawler.cpp` 363-418 | table `perma_redirects` | the loop at the head of `crawlPage` |
| robots.txt parser and path matching | `tlgsutils/robots_txt_parser.cpp` | none | `parseRobotsTxt`, `isPathBlocked`, `wildcardPathMatch` |
| blacklist | `crawler/blacklist.cpp`, `tlgsutils/url_blacklist.hpp` | none (a constant table) | `inBlacklist` |
| URL parser, link composition | `tlgsutils/url_parser.cpp`, `utils.cpp` | a URL object | `parse`, `str`, `with*`, `linkCompose` |
| text/gemini parser | `tlgsutils/gemini_parser.cpp` | none | `extractGeminiConcise`, `isGemsub` |
| search | `server/controllers/search.cpp` | the result cache, the count of searches in flight, the back-off | `tlgs_search`, `pageSearch`, `backlinks`, ranking |
| API, tools of the server | `controllers/api.cpp`, `tools.cpp` | caches of six and eight hours | statistics, known hosts, `add_seed` |
| `tlgs_ctl` | `tlgs_ctl/main.cpp` | none of its own | the schema, `purge`, `indexstatus` |

### How they interact

The database is the only thing the programs share. A crawler process is one
event loop (`loop_`), a main loop, the threads of the HTTP and database clients,
and any number of coroutines that are resumed on them; it talks to itself by
two atomics, a concurrent queue and closures posted on `loop_`. Several crawler
processes may run against one database, and claim rows of `pages` from each
other by one UPDATE. A coroutine that holds a URL asks `shouldCrawl`, fetches the
page, writes `pages` and `links` statement by statement, adds the URLs it
found to `pages`, gives back its Counter and dispatches again. `add_seed`
inserts rows of `pages` and `purge` deletes them beside that. systemd starts the
crawler again whenever it ends (`Restart=always`). The server runs searches on
several threads; they share one cache of results and one counter, and read the
tables a crawler is writing.

### What is hard about it

* **Interleaving.** `dispatchCrawl` takes its Counter, compares it and gives it
  back in separate atomic steps on several threads; the end of the crawl is
  decided from the value one of these steps returns. Searches fill a cache for
  each other between two looks at it.
* **No transactions where several statements belong together** (`crawlPage`),
  and an asynchronous COMMIT where there is one (`shouldCrawl`): another crawl,
  another process, a failure or the end of the process comes between.
* **State read before an await and used after it**: the hashes a page is compared
  with, the policy a call goes on with, the value of `sample_pct` of a query, a
  permanent redirect that another crawl has saved, a cached result.
* **Time.** A claim lasts five minutes from the query, not from the crawl;
  policies live two days in a table and a minute in a cache; a page that is gone
  is removed after a month.
* **Processes that end** with a queue of claimed URLs, or half-way through a page.
* **Loops with flags and indices** in the parsers and the ranking: what one
  line, word or neighbour leaves behind for the next; and **spellings**: a URL is
  stored, vetted and crawled in texts made at different times.

### What would make each part correct

* dispatch: never more than `-c` crawls; the counter exact on every path; no
  hang while URLs are waiting; the end comes.
* claims: a URL is in one hand at a time; no page is fetched again before it is
  due; every page that is due is crawled in the end.
* policies: no call sees the tables half replaced; the last refresh wins; a
  new robots.txt is obeyed in the end.
* page index: body, search vector and links belong together; they catch up with
  the capsule; what is gone is removed.
* redirects: a bounded number, each target allowed by its own robots.txt.
* the pure parsers: equal to definitions without their loops; normalisation
  idempotent; a link leads where it says; endless capsules come to an end.
* search: a page of results is a slice of one ranking; a cached answer is an
  answer to the same question; the limit of searches holds; every search ends.

PROJECT.json lists the hazards one by one, at their lines, each with the
properties that would catch it going wrong or the reason that none does.

## 2. Modules

| module | models | state and its counterpart |
|---|---|---|
| `CrawlPool` | what the dispatcher promises: a bounded pool that does not hang | `waiting`, `running`, `stopped` |
| `CrawlDispatch` | `dispatchCrawl`, `awaitEnd`, `Counter`, the quit of `main` | `ongoing` is `ongoing_crawlings_`, `ended` is `ended_`, `tasks` the closures on `loop_`, `finishCount` is `finish_count`, `full` says that `sample_pct` is 100 |
| `CrawlClaim` | `getNextPotentialCarwlUrl`, `getNextCrawlPage`, several processes | `rows` is `pages` (due, claimed), `queue` is `craw_queue_`, `pct` is `sample_pct`, `level` is `tablesample_pct`; `procOf` has the process of each coroutine |
| `RobotsPolicy` | `shouldCrawl` | `stored` and `status` are the two tables, `cache` is `policy_cache`, `tx` the transaction of a call |
| `PageIndex` | `crawlPage` for one URL | `row` is the row of `pages`, `links` counts the rows of `links`, `pages` the targets known |
| `Redirects` | the redirect loop of `crawlPage` | `redirects` is `perma_redirects`; `cur`, `count`, `status`, `target` are `crawl_url`, `redirection_count`, `status`, `redirect_url` |
| `RobotsText` | `parseRobotsTxt`, line by line | `file` the lines read; the others are the parser's variables |
| `PathRules` | `wildcardPathMatch`, `isPathBlocked` | operators; `asked` is a rule and a path |
| `UrlText` | `Url`, `str`, `normalize`, `linkCompose` | operators on URLs taken apart |
| `PageLinks` | from the links of a page to the next page: link composition, blacklist, respelling | `page` is `url`, `links` is `link_urls` |
| `GeminiText` | `extractGeminiConcise`, `isGemsub`, node by node | `firstContent`, `text`, `title`, `run`, `longest` are the loops' variables |
| `SearchQuery`, `QueryText` | `parseSearchQuery`, `SearchFilter`, `evalFilter` | operators; `words` the question written so far |
| `Ranking` | the graph of `pageSearch` and what `salsaRank` makes of it | `outs`, `ins` are `out_neighbous`, `in_neighbous` |
| `Texts` | none of its own: the pure algorithms side by side | all of theirs |
| `Search` | `tlgs_search`, `pageSearch`, the hash of a filter, several searches at a time | `index` is the indexed rows of `pages`, `cache` is `result_cache`, `inFlight` is `search_in_flight` |
| `*Proofs` | theorems about the module of that name; `RobotsTextProofs` has `PathRules` too, `SearchProofs` all of the search (`SearchQuery`, `QueryText`, `Ranking`, `Search`), `PageTextProofs` `GeminiText`, `UrlText`, `PageLinks` and `Texts` | |
| `MC*` | instances for TLC | |

`CrawlDispatch` counts URLs and does not name them; a slot of `Calls` is a call of
`dispatchCrawl` together with the coroutine it may start, since the coroutine
owns the call's Counter. It takes the first free slot, as slots are alike. Every access to
`ongoing_crawlings_` and `ended_` is a step: `Enter` tests `ended_`, `Count` is the
`fetch_add`, `Refuse` or `Launch` the comparison, and a poll of `awaitEnd` reads the two in two
steps (`AwaitEnded` or `AwaitPoll`, then `AwaitIdle` or `AwaitBusy`). Of `sample_pct` it
keeps whether it is 100 (`full`), which `Query` reads as it sends the query; the exchange of it
and the end of the search that may follow are one step with the answer (`ClaimWhole`,
`ClaimSampled`), where a failed exchange may have loaded the 100 of another coroutine.
A call made by the main loop, by `loop_`, or by `awaitEnd` blocks its caller until
it returns; the call in the exception handler (`Handle`) runs under the Counter of
the coroutine that failed.

`CrawlClaim` names the URLs that `CrawlDispatch` counts, and takes a crawl as one
step; which coroutine runs next is left to fairness. Coroutines are spread over the processes
by `procOf`, any of `Placements`, so that those of one process share a queue and
`sample_pct`. A query that brings fewer rows than `Few` (nine tenths of a batch) raises
`sample_pct` by a compare-exchange (`Swaps`); one that fails loads what another coroutine has
written (`Seen`), and the search may end by that value. The module includes failures of
queries, restarts, `add_seed`, `purge`, the lapse of a claim and the
three days after which a page is due again. Time is not a clock but the two facts
that the code derives from it: whether a row is due, and whether it is claimed.

`RobotsPolicy` is about one host, since two hosts share nothing. The transaction
object is destroyed before the call decides and its COMMIT is waited for by
nobody, so a call and its transaction have separate program counters, `pc` and
`tx`. A DELETE finds the rows committed when it starts and waits for the rows
that another transaction has locked, which is how PostgreSQL's READ COMMITTED
treats two of them. Rows carry the call that inserted them, which tells equal
rules of two refreshes apart.

`PageIndex` is about one URL, since crawls of two pages share only the set of known pages. A
content stands for a body with its hashes and its links; ages are the classes that the code's
comparisons tell apart. A page that answers with a failure is recorded and, when it is old,
deleted inside the try block (`refused`, `drop`), where an exception leads to the statements
after the catch, which do both again (`fail`, `purge`). `tlgs_ctl purge` deletes the page in one
step (`PurgePage`) and its links in a later one (`PurgeLinks`), with `purging` between them.

`Redirects` is the loop that `PageIndex` folds into one fetch. One step lasts from
one `co_await` to the next; capsules answer anything, `shouldCrawl` changes its mind
at any time, and the crawls share the table.

`RobotsText`, `GeminiText`, `QueryText` and `Ranking` read one line, node, word or link
per step, so that a state is an input together with what the loop has made of it
and an invariant compares the two on every input up to the bound. `Texts` has one of
them go on per behaviour, `chosen` at the start; the others stay as they began. A line
or node is a record of what the code asks of it. `PathRules` works on characters,
since its fast cases, offsets and `npos` are about positions. `PageLinks` walks
from page to page: `TakeLink` is one turn of the loop over the links of a page,
`Follow` the way of a stored link through `shouldCrawl`, `getNextCrawlPage` and the head of
`crawlPage`; `IsCrawled` is what these ask of a row, and the walk begins at the seeds they let
through (`StartPages`). `default_port_`, which some constructors leave unset, is any member of `Junk`.

`Search` has several requests between whose steps others may use the cache or the crawler change
the index. A result names pages by their URLs; what is shown of them (`Show`) are the rows as
they are by then. A hash is the set of its bits: `HashOf` gives those of a text, a size is its
own, and `FilterKey` is their exclusive or, a carry and all for the `+ negate`. The database
gives the `MaxRoot` best pages, any that many if there are more (`RootSets`). Scores are floating
point: any order of the pages found is a ranking, and the merge of pages with one content is made
in any order. In `Ranking` a list of neighbours is gone through by `Turn`, one turn of the loop
of `salsaRank`, and `Sweep`, all of them and the resize.

Loops over data are recursive functions (`RegexMatch`, `Normal`, `Sweep`, `Merged`) or folds of the
community modules (`ParseQuery`, `Sift`), so that there are proofs about all modules.

The modules share no variables but the database, and each takes the others at
their interface: a refusal by `shouldCrawl` is one alternative of `Vet` in
`PageIndex`, of `Block` in `CrawlClaim`, of `Vet` in `CrawlDispatch`, and `forbidden` in
`Redirects`; an end of the process anywhere is `Kill`, `Restart` or `Abort`.

Some variables are no state of the code; they record what has happened for the
properties to speak of, and no action's guard reads them: `torn` and
`overlapped` (PageIndex), `lapsed` (CrawlClaim), `vetted` and `hops` (Redirects),
`root` (Search), and `opened`, `closed`, `last`, `missed` and `heirs`
(RobotsPolicy). `past` (Search) is read only by the bound on changes.

A definition under a comment "Seeded fault" is not part of any specification. It is
the form of the definition after it that a plausible bug would give it; put in
its place it breaks a property, which shows that the property is about the code.

## 3. What TLC checks

Passing runs:

| run | question | instance |
|---|---|---|
| `CrawlDispatch` | Is the Counter exact, are there never more than `-c` crawls, does the dispatcher implement `CrawlPool`, does `awaitEnd` return? | 4 calls, `-c 2`, a seed, 1 URL found, 1 exception |
| `CrawlClaim` | Is a claimed row in one hand, no page fetched early, every page that is due crawled in the end? | 2 coroutines of one process or of two, 2 URLs, one becomes due again, 2 faults |
| `RobotsPolicy` | Are verdicts those of some robots.txt, is the last refresh the one stored, and do verdicts catch up? | 2 calls in 2 processes, 1 path, 1 change, 2 faults, time-out limit 1 |
| `PageIndex` | Do content, vector and links agree but for a crawl in flight or dead; does the index catch up; is what is gone removed? | 2 crawls, 3 contents (one link, two, none), 2 targets, 1 change, 1 fault or purge |
| `Redirects` | Is only what was allowed requested, is the loop bounded, does a crawl end? | 2 crawls, 2 URLs, any answers, any changes of what is forbidden |
| `Texts` | Does each pure algorithm compute what a definition without its loop says? | rules (with `*`, `$`, `?` and `^`) and paths of up to 4 characters, 5 lines, 5 nodes, 2 links a page from some 30, 4 words, 3 pages with 5 links |
| `Search` | Is the count exact, does an answer fit its question, is each cache entry of one index, is no content lost, does every search end? | 3 searches with 5 questions, 3 pages, one of them in 2 versions, 2 from the database, limit 1, 1 result a page, hashes of 4 bits, 1 change |

Runs that show a disagreement between a comment, a page or a test and the code:

| run | property | what happens |
|---|---|---|
| `DispatchEndedByLastCrawl` | "the current crawl is the last one in existance" (`crawler.cpp` 290-292) | `release()` returns the number of Counters left, so 1 means that another crawl is going on: the crawl is declared over under it |
| `PageSkipLeavesIndexed` | "Absolutelly no reason to reindex if the content hasn't changed" (`crawler.cpp` 489) | hashes are stored before vector and links; a crawl that dies between leaves a page every later crawl skips, `--force-reindex` or not |
| `RedirectsFive` | "TLGS allows up to 5 redirections before giving up" (`doc_indexing.csp` 51) | a saved redirect counts twice, so a chain of three permanent ones works when it is new and never again |
| `SlashRules` | `isPathBlocked("/foo", "/")` (`robots_txt_parser_test.cpp` 130) | a path below a rule must be two characters longer, also when the rule ends in a slash: `/` does not block `/a` |
| `SearchRepeatedFilter` | filters are ORed and ANDed (`doc_search.csp` 42) | a filter given twice has the key of no filter, so its search shows what a search without it has cached |

### Properties

* `CounterExact`, `AtMostMaxConn`: the hazard is the window between
  `fetch_add` and the test of its value, in which refused calls count as
  crawls. `CounterExact` is what makes the limit and the end decidable at all:
  a Counter goes in one of three ways, and `release()` must keep the destructor
  from giving it back twice.
* `PoolSpec`: the refinement mapping takes `waiting` to queue and rows,
  `running` to the coroutines that hold a URL, and `stopped` to `ended_` or the
  end of the process. Its fairness part says that with a URL waiting the
  crawler starts one or ends. The follow-up dispatch is queued while its
  coroutine still holds a Counter, so it may be refused with nobody left to ask
  again: only `awaitEnd`'s polls keep the crawler going then.
* `PromptEnd`: `awaitEnd` returns, provided that from some time on a search without
  result is quicker than the 0.2 s between two polls.
* `ClaimIsExclusive`, `NotRecrawledEarly`: exempt are seeds, which are not
  claimed, and URLs whose claim has lapsed in a queue (`lapsed`): five minutes
  are all the code promises.
* `DueIsCrawled`: nothing is lost in the queue of a process that is gone, and no
  row is missed for ever by the samples.
* `VerdictsWereServed`: the reader of two tables, and of the cache filled from
  them, never acts on a mixture that would let it crawl what every robots.txt
  forbade. `LastRefreshIsStored`: of overlapping refreshes the last is kept
  whole. `PolicyCatchesUp`: an old policy does not come back for good.
* `VectorLagsOnlyInFlight`, `LinksLagOnlyInFlight`: exactly when the parts of
  the index may differ. The second has four exceptions, all of them found by
  TLC: overlapping crawls (the `ON CONFLICT` of `links` has no key to act on), a
  death between the statements, a content without links, for which
  `crawlPage` returns before the DELETE, and a purge whose two deletions have a crawl
  between them: it stores the page again, loses its links, and later crawls skip it.
  The first does not last: `overlapped` is reset when a crawl that is alone stores a
  content, and from there on the links must be right again.
* `IndexCatchesUp`, `GoneIsRemoved`: whatever faults and stale reads came before.
* `OnlyVettedRequested`: the table is followed without `shouldCrawl`, so what it holds
  must have been allowed to the crawl that saved it. `LoopIsBounded`, `CrawlEnds`: six
  requests and six redirects at most, in cycles that crawls build for each
  other too.
* `RulesStayInside`, `FastCasesAgree`: a rule without a star blocks nothing but the path it
  spells and what lies below, one with stars nothing outside what it spells before the first
  character that the regular expression does not take for itself (`/*` may block anything).
  That is not always the first star: `?` and `^` are not escaped, so that `/foo?*x*` blocks `/fox`
  (section 5). The fast cases for stars at the ends agree with the regular expression of the rule.
  `FastCasesAgree` leaves out what is known to differ: one star in the middle, a dollar before
  the end, and `?` and `^`.
* `ParseIsExact`: the rules kept are those of the groups that name one of our
  agents, after the last empty `Disallow` in them.
* `TextIsExact`: what is indexed of a page, namely every link, heading and line of prose;
  separators and pictures are left out, and so is all preformatted text before the first line
  of text that is not empty. `GemsubIsExact`: what makes a page a feed.
* `RespellingSettles`, `LinksKeepTheirAddress`, `VerdictKnowsSpellings`: a URL is the same,
  and as forbidden, in every spelling between the link and the crawl. The second is about
  links whose default port is known (`Plain`); the others meet `default_port_` unset.
* `PathsAreBounded`: the count of path components ends every walk down a capsule.
* `QuestionIsExact`, `SidesAreApart`: the one flag of the parser, and the swaps of
  `salsaRank` with an unsigned index, against definitions by position: the nth word of a kind
  is the nth filter of that kind, negated by the word right before it; and a question is not read
  at all exactly when a size in it is no number.
* `FlightIsExact`: refused and failed searches give their place back, once.
  `AnswersFit`: the pages shown together were found in one index for the words of the
  question, and all fitted there its filter, or all that of one other question with the same key.
  It does not say that they do still: a result is cached for ten minutes, and longer
  while it is asked for, and the rows shown, all of one
  later index, may have neither the words nor what the filter asks for (section 5).
  `CacheIsExact`: no entry mixes two results or two indexes. `NoContentIsLost`: merging by a
  relation that is not transitive, in any order, keeps one page of each content.

### Bounds

Every bound is a constant: `MaxSeeds`, `MaxRows`, `MaxFound`, `MaxChanges`,
`MaxAgeings`, `MaxFaults`, `MaxLines`, `MaxNodes`, `MaxLinks`, `MaxWords`, `MaxEdges`. The
number of calls, crawls or searches is the number of actors.

* Four calls with `-c 2` are two winners, a refused call in its window, and one that comes
  from a follow-up dispatch, a poll or the exception handler; the theorems cover any
  number. With a seed, a URL found on it and no rows the refused follow-up can leave nobody
  crawling.
* Two crawls of a page interleave all statements of `crawlPage`; the properties
  relate the row to one crawl at a time. Three contents are the old, the new and
  the one without links; one change suffices for a stale read, since
  the initial content is arbitrary too.
* Two processes are rivals for a row; two URLs in a batch of two let one be crawled
  while the other waits in the queue; two faults are a restart and a failed
  query, or two restarts. The two coroutines are rivals for `sample_pct` when they are of
  one process, and for the rows alone when they are of two; the run has both. `Levels = 2` is a
  sample and the whole table. In the instance every URL has one spelling; the theorems
  cover any spellings, levels and number of coroutines.
* Two refreshes are what it takes to overlap; the two faults of the run allow a
  rollback and a restart, or two time-outs.
* Two crawls and two URLs make chains and cycles of redirects of any length, since a
  URL may be visited again; the limit of five is the code's own.
* The fast cases of the matcher look at two characters at each end and a star between,
  so four characters have each of them and its neighbours. Five lines are two groups
  with rules and something between them; five nodes a run of three entries and what
  breaks it; four words a filter with its NOT among others; five links between three
  pages make both sides of the graph and a list in which what is swapped in has to go.
* A page in two versions, one of which has neither the word nor what the filters ask, is
  what it takes for a row shown no longer to match; two pages from the database leave one of
  three out. Four bits instead of 64 hold the sizes and hashes of the run, whose filters share
  keys only where the same is hashed twice.
* Three searches with a limit of one are two that are served (the comparison is made
  with the count before) and one refused; two share a question, so that they fill the
  cache for each other.

A batch that holds every URL is an assumption of `DueIsCrawled`: with more due
rows than `LIMIT` and rows that are purged and added again for ever, the same rows may
be picked each time, for the query has no order.

### Fairness, and why the code justifies it

* Threads run, and queries and requests end: all have time limits. So the steps
  of a call, a crawl or a coroutine are weakly fair. The event loop runs what was
  posted on it. `AwaitStep` is strongly fair since other closures may occupy the
  loop in between, but the timer stays due.
* In `Search` it is enough that some search goes on as long as there are any: each has
  at most eight steps, and none gets any back (`SearchIsBounded`). `EverySearchEnds` says of
  all at once that they end, a request being made once.
* Faults, restarts, purges, changes of a capsule and calls of `add_seed` are never
  fair. That a crawl of the same page begins again is: systemd restarts the crawler.
* Days and minutes pass: claims lapse, pages become older, a policy's two
  days end. Ages of a page advance only while no crawl of it is in flight (`Quiet`),
  a crawl being over in minutes; `AgeSuccess` is strongly fair because `Quiet` comes
  and goes, and `GoneIsRemoved` has `[]<>Quiet` as its premise.
* `PolicyCatchesUp` assumes that the entries of the caches expire again and
  again. The code does not ensure it: an access renews the 60 seconds, so a host
  asked about every minute keeps its entry for as long as the process lives.

Deadlock is checked in every run but those of `Texts` and `Search`, whose inputs and
requests are finitely many and used up in the end; `CrawlDispatch` ends in the explicit
step `Terminated` when the process is over.

## 4. What is proved

Every invariant that a passing run checks, for every value of the constants, from the
assumptions the modules state of them: finitely many calls, searches and pages, distinct
model values, bounds in `Nat`, a normalisation that is idempotent, texts and words that are
taken apart as their modules say.

| theorem | says |
|---|---|
| `CrawlDispatchProofs!TypeCorrect`, `CounterIsExact`, `ConnectionsBounded` | the invariants of run `CrawlDispatch` |
| `CrawlDispatchProofs!WindDown` | once `ended_` is set no call passes its test again |
| `CrawlDispatchProofs!ImplementsPool` | the dispatcher implements the safety part of `CrawlPool` |
| `CrawlDispatchProofs!WorkIsBounded` | each step of a call lowers a bound on the steps left, which only an idle poll of `awaitEnd` raises, by 9 |
| `CrawlClaimProofs!TypeCorrect`, `ClaimExclusive`, `NoEarlyRecrawl` | all safety properties of run `CrawlClaim` |
| `CrawlClaimProofs!SamplesGrowing` | a search that finds too few rows leaves a larger sample than it asked for, and only a restart makes one smaller |
| `PageIndexProofs!TypeCorrect`, `VectorLag`, `LinksLag` | the three invariants of run `PageIndex` |
| `PageIndexProofs!LinksFew` | a link is stored no more often than there are crawls of the page at a time |
| `PageIndexProofs!CrawlIsBounded` | a crawl ends after at most eleven statements |
| `RobotsPolicyProofs!TypeCorrect`, `VerdictsServed`, `LastRefreshKept` | the three invariants of run `RobotsPolicy` |
| `RobotsPolicyProofs!LoneRefreshExact` | a refresh during which no other commits leaves the rules it read and no others |
| `RobotsPolicyProofs!CallIsBounded` | a call and its transaction end after at most seven steps of their own |
| `RedirectsProofs!TypeCorrect`, `RequestsAreVetted`, `RedirectsAreBounded` | the three invariants of run `Redirects` |
| `RedirectsProofs!CrawlRunsDown` | each step of a crawl lowers a bound of at most 25 on those it has left, which no other crawl raises |
| `RobotsTextProofs!ParserTypeCorrect`, `ParseIsCorrect` | `parseRobotsTxt` on files of any length |
| `RobotsTextProofs!RulesAreContained`, `ShortCutsAgree` | `wildcardPathMatch` on rules and paths of any length |
| `PageTextProofs!GeminiTypeCorrect`, `TextExact`, `GemsubExact` | `extractGeminiConcise` and `isGemsub` on pages of any length |
| `PageTextProofs!WalkTypeCorrect`, `RespellingIsOnce`, `VerdictHolds`, `LinksLeadWhereTheySay`, `PathsStayShort` | the spellings, verdicts and paths of the walk along links, for any capsule, seeds and blacklist |
| `PageTextProofs!TextsTypeCorrect`, `TextsCorrect` | the above of the algorithms side by side, as run `Texts` has them |
| `SearchProofs!QuestionIsReadRight` | `parseSearchQuery` on questions of any length |
| `SearchProofs!GraphIsBipartite` | the swaps of `salsaRank` on graphs of any size |
| `SearchProofs!FlightExact`, `SearchTypeCorrect`, `ContentIsKept` | the count of searches in flight and their limit; the types; that merging loses no content |
| `SearchProofs!AnswersAreRight`, `CacheIsRight` | that what is shown was found and fitted together once and is of one index now, and what is cached, if the questions keep to the documentation |
| `SearchProofs!CacheIsOneRanking` | what is cached, without a condition on the questions |
| `SearchProofs!SearchIsBounded` | a search ends after at most eight steps, whatever the others do |

**The limit of crawls.** `AtMostMaxConn` is not inductive: a call that has passed the
comparison is admitted by a value of the counter that is no longer there. The
invariant `IInv` adds that the counter is exact and that the `Winners` (the calls
launched, and those whose ticket will admit them) are at most `MaxConn`. The heart is
lemma `CountCounted`: every winner holds a Counter, so a call that reads less
than `MaxConn` joins fewer than `MaxConn` winners. `TypeOK` needs `PollsCounted`, that
`finish_count` is below 5 while `awaitEnd` polls.

**The refinement.** A step that takes a URL is `Pool!Start`, one that gives it back
`Pool!Finish`, the setting of `ended_` and the end of the process `Pool!Stop`, and all
others stutter. `Start` needs room, which comes from the limit above: the
coroutine that takes the URL is one of at most `MaxConn` and does not hold one yet.

**The work.** `Work` counts what calls may still do: 23 steps for a URL in the queue, 25 for one
in the table or yet to be found, 10 for a closure on `loop_`, 9 for an exception to come, 2 until
the whole table is asked for, and for each call what `Cost` says of its label. A sum over the
calls would need induction over them; so the steps left are a set of pairs of a call and a
number, whose cardinality changes by a set difference when one label does (`TodoMoves`). Every
dispatch a step makes is paid for by what the step gives up: a follow-up, or the closure that
restarts a dispatch, by the URL or the task it comes from. What is left to chance is only
`awaitEnd`, whose idle polls each make a call: that it ends is `PromptEnd`.

**Claims.** `ClaimIsExclusive` says nothing of rows, and a query looks at nothing else. The
invariant `WantedAreGuarded` ties the two: a URL in a hand or queue whose claim lasts is
queued in its row, so the query does not return it (`ClaimGuarded`), and due if it has
one spelling, since the only crawl that could store it is the one that holds it
(`CrawlGuarded`). The second part is `NotRecrawledEarly`. For the sample, `SampleWasRead` says
that no query is under way for more than `sample_pct` is now: where the compare-exchange finds
another value than was read, it is a larger one, and that is the one loaded.

**The page index.** `VectorLagsOnlyInFlight` is inductive once a crawl past its
fetch is known to have a content (`Fetched`). For the links the invariant adds that
crawls which have not overlapped are alone (`Alone`), and that the row of a
page being reindexed is the content of the crawl that reindexes it
(`Undisturbed`). A `Store` alone establishes all of it, whatever was there before
(`StoreLinks`). `LinksFew` holds of overlapping crawls too: a crawl about to insert its links
has deleted all since it began, so those to come are counted with those that are there
(`FewWithThoseToCome`).

**The policies.** `Phases` ties the two program counters of a call together. For
`LastRefreshIsStored`, `Inherited` says that a row committed is either in the snapshot of an open
DELETE or by a call whose COMMIT came after it; the rows that a COMMIT leaves are then its own
and those of `heirs`. When `heirs` is that one refresh, it has missed none (`MissesOthers`), so
no row of another is left, which is `LoneRefreshExact`. For `VerdictsWereServed`,
`PoliciesCovered` says that every policy on its way (served, in the tables, in the transaction or
the hands of a call, in a cache) allows only what some robots.txt has left open, and forbids only
what some has disallowed.

**Redirects.** `SavedAreVetted` says of the table what the property says of requests.
`Sound` lets `redirection_count` pay for requests and redirects: a fresh
redirect costs one, a saved one two, and the last may overdraw by one.

**The parser of robots.txt.** The invariant adds to the rules kept what the two flags
stand for: `care`, that the next line belongs to a group for one of our agents, and
`lastAgent`, that a run of `User-agent` lines has not ended.

**The matcher of paths.** The regular expression is a function of two positions; the proofs go
through it from the end of the rule. A short cut is shown to be the regular expression of the
rules it is taken for, and `RulesAreContained` that each case asks for the text before the
first character that may stand for something else (`LiteralHead`).

**The page.** What the flag and the counters stand for is said of the nodes read:
`firstContent` that no text has come, `run` that so many entries stand at the end with no
other link between, `longest` the longest such run there has been.

**The walk.** `WalkInv` has two parts: the page is a normal gemini URL that passed `IsCrawled`, and
each link was made from one of `Links` by the code's own composition. What `Normal` returns has no
dots and is its own normal form, so that a second respelling changes nothing; the blacklist
asks about parts that respelling keeps. A path that `IsNested` does not refuse has each name twice
at most, and counting by names bounds its length.

**Searches.** The count is exact because each request is counted from its first
step to its last; one that is let in found at most `MaxFlight` counted, among whom are
all that are served. For the answers, `AnswersInv` says of each search what its list is at each
step (a ranking of what an index had when it was asked, then what the filter lets through of
it) and of each entry of the cache that some question with its key would have got it. A list from the
cache was made of an index of the past, so the invariant speaks of `past`, which only grows. What
is shown is of the index of its step, by the URLs of the list: `AreAnswers` relates it to the one,
`AreShown` to the other. Nothing is assumed of `HashOf`, so that filters may share keys at will.
`AnswersAreRight` and `CacheIsRight` have the hypothesis `QuestionsAsDocumented`: `intitle`,
which is not what the documentation says it is, does not occur, and no NOT stands before a size
that a page has exactly (section 5). That a merge keeps each content goes by the number of pages
left to merge, as `Merged` does.

**The question.** `IsTaken` says what the loop of `parseSearchQuery` has made of the words up to a
place: `negate` is set if and only if the last of them is a NOT and a filter follows, and the
lists have the words of their kinds in their places.

**The graph.** `GraphInv` says that a link out of u into v is as often in the one list as in the
other. `Sweeps` is the invariant of the loop: what has been passed goes to the other side, what
has been swapped behind `size` is of the same side, and no swap changes how often a page occurs.

**Data.** The induction theorems of the library take an operator as a parameter, which the
provers cannot instantiate. Induction is made over a set instead (`NatInSet`: a set of numbers
that has 0 and with each number its successor has all numbers). A recursive function is shown to
exist by extending functions that satisfy its equation one argument at a time, after which its
CHOOSE stands for one that does (`MergedIsDefined`, `LoopRuns`, and `FoldExists` for the folds of the
community modules, whose arguments are sets of places).

Only model-checked:

* all liveness (`PromptEnd`, the fairness part of `PoolSpec`, `DueIsCrawled`,
  `PolicyCatchesUp`, `IndexCatchesUp`, `GoneIsRemoved`, `CrawlEnds`, `EverySearchEnds`):
  fairness rests on ENABLED, which the proof system's provers here do not treat. The part
  that needs no fairness, that what is under way cannot go round for ever, is proved:
  `CrawlRunsDown` for `CrawlEnds`, `SearchIsBounded` for `EverySearchEnds`, `WorkIsBounded`
  for the crawls between two polls of `PromptEnd`, `CallIsBounded` and `CrawlIsBounded` for the
  calls and crawls on which `PolicyCatchesUp`, `IndexCatchesUp` and `GoneIsRemoved` rest, and
  `SamplesGrowing` for `DueIsCrawled`, that the samples come to the whole table.

## 5. Further disagreements

Met while reading and modelling, without a run of their own. The first four are
stated as properties in the modules.

* `AwaitEndReturns` (CrawlDispatch): "co_returns when the crawler is done"
  (`crawler.hpp` 43). Each idle poll starts a search, and one that lasts until the
  next poll sets `finish_count` back, for ever.
* `UnnormalisedIsRemoved` (CrawlClaim): "It's fine we delete unnormalized URLs"
  (`crawler.cpp` 325). `getNextCrawlPage` has normalised the URL before the test, which is
  never true, so the row stays, due for ever.
* `RefreshesDoNotMix` (RobotsPolicy): several requests of robots.txt do "not cause any
  problems otherwise" (`crawler.cpp` 185-186). Of two refreshes that overlap each keeps
  what the other inserts, so withdrawn rules are obeyed for two days. `LoneRefreshExact` says
  that nothing else mixes rules.
* `ProxyErrorRests` (PageIndex): "Only retry once every 21 days" (`crawler.cpp`
  348-349). The comparison is the wrong way round and 7 times too long.
* Pages that lose their last link keep their old rows of `links` (`crawler.cpp` 559), and the
  links of a redirected page are composed against the URL asked for (520).
* `robots_txt_parser.cpp`: a rule with one star in the middle blocks everything with its
  prefix when the rest does not occur (100; `rfind` returns `npos`, greater than every
  position); `/foo$` without a star never matches; `?` and `^` are not escaped (104-111), so that
  `/foo?*x*` blocks `/fox`.
* robots.txt "is cached by TLGS for 7 days" (`doc_indexing.csp` 25); it is for 2
  (`crawler.cpp` 181), and longer in the cache of a process that asks every minute.
* `getNextCrawlPage` returns "std::nullopt if no URL is available" (`crawler.hpp` 115). A failed
  compare-exchange writes the `sample_pct` of another coroutine to `tablesample_pct` (`crawler.cpp`
  117), so that an empty sample ends the search (119) although the table was not asked as a
  whole.
* URLs: one whose scheme is in capitals or left out has default port 0 or none set
  (`url_parser.hpp` 83); a link `?q` or `#f` is composed against the directory of the page.
* `search.cpp`: `intitle` words are glued to the last word of the text, their filter compares the
  content type, and `empty()` ignores them; two NOTs of one kind are ORed and exclude nothing;
  NOT of a size excludes equality too; `size:>5` and `size:<6` share a key of the cache, and so
  do `size:<1 size:<2` and `size:<3`; `size:>.` makes `std::stod` throw (223), and the request
  fails; a cached result outlives the rows it was made of, so that a page crawled again is shown
  with a title, type and size that the question does not ask for (776-804); deduplication comes
  before the filter, so that a mirror may hide a page from a search of its domain; an archive
  with a higher score displaces the original (614-616); links between two pages found are counted
  twice.
* `tools.cpp`: `known_hosts` leaves out the hosts of rows with port 0, which links with a scheme in
  capitals give (72-77).

## 6. What is not modelled

* `PageIndex` has one fetch for the redirect loop, and a content for the body of a page:
  its encoding, its MIME type and the decoding of both are not there. Hash collisions are not.
* Of the URL parser: the texts it rejects, `urlEncode`, the hashes, the escaping for SQL.
  Of the blacklist: the names are two constants, since all are compared alike. Of the robots.txt
  parser: CR LF and blanks around keys. `extractGemini` and the `isGemsub` without a feed URL
  are called by nothing.
* Of the search: the scores (HITS, SALSA, the text rank) are floating-point iteration and any
  order here; the value of the back-off; page 0 and iterators past the end, which have no defined
  behaviour; `jump_search` and `backlinks`, which only read; the conversion of a size to
  `size_t`, which is undefined for one that does not fit.
* Of `std::regex` only what a rule can make of it is modelled: everything else is escaped. A `?` that
  has nothing to make optional is refused; one that follows another adds nothing, as in libstdc++.
* The wildcards of `purge`, its third statement (the links of other pages to the one
  purged), and the links that point at a page that has been removed.
* `api.cpp`, the rest of `tools.cpp` and `indexstatus` only read; templates, logging and
  command lines hold no state.
* Third-party code: drogon and trantor (event loops, coroutines, the
  database and Gemini clients), PostgreSQL and the concurrent queue are modelled
  by what the code uses of them; `trie.hpp` is not used, `iconv.hpp` wraps a C library.

## 7. Plan

1. Links that point at a page as well as from it, so that the third statement of `purge`
   and the links left by the removal of a page can be stated.
2. A composition of `CrawlClaim` and `PageIndex` for overlapping crawls of a page whose
   claim has lapsed.
3. What of the links outlives a purge or the death of a crawl: the exceptions of `LinksLag`
   that a later crawl of the same content does not heal.
4. That a full batch is not claimed again and again while rows beyond `LIMIT` wait, which
   needs an order the query does not have.
