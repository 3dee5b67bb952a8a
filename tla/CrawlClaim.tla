------------------------------ MODULE CrawlClaim ------------------------------
(***************************************************************************)
(* How crawlers share the URLs of the pages table                          *)
(* (tlgs/crawler/crawler.cpp, getNextPotentialCarwlUrl and                 *)
(* getNextCrawlPage).  "TLGS's crawler is distributable": several          *)
(* processes, of several coroutines each, claim batches of rows by one     *)
(* UPDATE that sets last_queued_at, put them in the queue of the process   *)
(* and pop them one by one.  A claim lasts five minutes: what a process    *)
(* that is gone had claimed is claimed again, and so is what lies in a     *)
(* queue for longer.                                                       *)
(*                                                                         *)
(* What CrawlDispatch only counts is named here, and the other way round:  *)
(* a coroutine without a URL just starts again, at the next dispatch or in *)
(* the next process.  A crawl is one step (PageIndex has its statements).  *)
(***************************************************************************)
EXTENDS Naturals, FiniteSets

CONSTANTS Crawlers,   \* coroutines that crawl
          Procs,      \* processes of the crawler
          Placements, \* ways to spread the coroutines over the processes
          Urls,       \* spellings of URLs
          Norm,       \* tlgs::Url(url).str() of each
          Seeds,      \* URLs given to each process with addUrl
          Batch,      \* urls_per_batch, the LIMIT of the query
          Few,        \* nine tenths of it: fewer rows raise sample_pct
          Levels,     \* values of sample_pct; only the last ends a search
          Sampled,    \* those of at most 80, for which the query samples
          NoRow,      \* pages has no row of the URL
          NoUrl,      \* no URL in hand
          MaxAgeings, \* bound: times a page becomes due again
          MaxFaults   \* bound: failed queries and processes gone

ASSUME ConstantsAssumption ==
    /\ Placements \subseteq [Crawlers -> Procs]
    /\ Norm \in [Urls -> Urls]
    /\ \A u \in Urls : Norm[Norm[u]] = Norm[u]
    /\ Seeds \subseteq Urls
    /\ NoUrl \notin Urls
    /\ NoRow \notin [due : BOOLEAN, queued : BOOLEAN]
    /\ Batch \in Nat \ {0} /\ Few \in 1..Batch
    /\ Levels \in Nat \ {0} /\ Sampled \subseteq 1..(Levels - 1)
    /\ MaxAgeings \in Nat /\ MaxFaults \in Nat

VARIABLES procOf,     \* the process of each coroutine
          rows,       \* the pages table
          queue,      \* craw_queue_ of each process, as a bag
          pct,        \* sample_pct of each process
          pc,         \* where each coroutine is
          hold,       \* the spelling it has popped
          level,      \* the sample_pct its query was made with, 1 when it makes none
          claimed,    \* what its query has returned
          ageings,    \* pages that became due again so far
          faults,     \* faults so far
          lapsed      \* seeds, and URLs that were in some hand with no claim

crawler == <<pc, hold, level, claimed>>
bounds  == <<ageings, faults>>
vars    == <<procOf, rows, queue, pct, crawler, bounds, lapsed>>

\* due: last_crawled_at is NULL or more than 3 days old.
\* queued: last_queued_at is within 5 minutes.
Rows == [due : BOOLEAN, queued : BOOLEAN]
NewRow == [due |-> TRUE, queued |-> FALSE]

PCs == {"idle", "search", "enqueue", "repop", "held"}

InTable == {u \in Urls : rows[u] # NoRow}
IsDue(u) == u \in InTable /\ rows[u].due
IsQueued(u) == u \in InTable /\ rows[u].queued

\* The hands and the queues of crawlers a spelling is in.
Hands(u) == {c \in Crawlers : hold[c] = u \/ u \in claimed[c]}
Queues(u) == {p \in Procs : queue[p][u] > 0}
Wanted(u) == Hands(u) # {} \/ Queues(u) # {}

SeedQueue == [u \in Urls |-> IF u \in Seeds THEN 1 ELSE 0]

Init ==
    /\ procOf \in Placements
    /\ rows \in [Urls -> {NoRow, NewRow}]
    /\ queue = [p \in Procs |-> SeedQueue]
    /\ pct = [p \in Procs |-> 1]
    /\ pc = [c \in Crawlers |-> "idle"]
    /\ hold = [c \in Crawlers |-> NoUrl]
    /\ level = [c \in Crawlers |-> 1]
    /\ claimed = [c \in Crawlers |-> {}]
    /\ ageings = 0 /\ faults = 0
    /\ lapsed = Seeds

Goto(c, label) == pc' = [pc EXCEPT ![c] = label]

\* try_pop.  std::shuffle has put a batch in any order.
TryPop(c, otherwise) ==
    \/ \E u \in Urls :
          /\ queue[procOf[c]][u] > 0
          /\ queue' = [queue EXCEPT ![procOf[c]][u] = @ - 1]
          /\ hold' = [hold EXCEPT ![c] = u]
          /\ Goto(c, "held")
    \/ /\ \A u \in Urls : queue[procOf[c]][u] = 0
       /\ Goto(c, otherwise)
       /\ UNCHANGED <<queue, hold>>

-----------------------------------------------------------------------------
(* getNextPotentialCarwlUrl *)

Pop(c) ==
    /\ pc[c] = "idle"
    /\ TryPop(c, "search")
    /\ UNCHANGED <<rows, pct, level, claimed, bounds>>

Empty(p) == queue[p] = [u \in Urls |-> 0]

\* while(craw_queue_.empty()): another coroutine has filled the queue.
Refilled(c) ==
    /\ pc[c] = "search"
    /\ ~Empty(procOf[c])
    /\ Goto(c, "repop")
    /\ UNCHANGED <<rows, queue, pct, hold, level, claimed, bounds>>

\* Seeded fault: the query does not look at last_queued_at.
ClaimableQueued == {u \in Urls : IsDue(u)}

\* Seeded fault: the query does not look at last_crawled_at.
ClaimableCrawled == {u \in InTable : ~IsQueued(u)}

\* WHERE last_crawled_at ... AND last_queued_at ...
Claimable == {u \in Urls : IsDue(u) /\ ~IsQueued(u)}

\* The rows a query may return: a sample of them, or as many as LIMIT allows.
\* FOR UPDATE makes a query that waited for another look at the rows again, so
\* that the claim is one step.
Answers(lvl) ==
    {chosen \in SUBSET Claimable :
        /\ Cardinality(chosen) =< Batch
        /\ lvl \notin Sampled => Cardinality(chosen) = Batch \/ chosen = Claimable}

\* sample_pct.load, and
\* UPDATE pages SET last_queued_at = CURRENT_TIMESTAMP ... RETURNING url
Claim(c) ==
    /\ pc[c] = "search"
    /\ Empty(procOf[c])
    /\ level' = [level EXCEPT ![c] = pct[procOf[c]]]
    /\ \E chosen \in Answers(level'[c]) :
          /\ rows' = [u \in Urls |-> IF u \in chosen THEN [rows[u] EXCEPT !.queued = TRUE]
                                                     ELSE rows[u]]
          /\ claimed' = [claimed EXCEPT ![c] = chosen]
    /\ Goto(c, "enqueue")
    /\ UNCHANGED <<queue, pct, hold, bounds>>

\* The claimed rows go to the queue of p.
Refill(c, p) ==
    queue' = [queue EXCEPT ![p] = [u \in Urls |-> @[u] + IF u \in claimed[c] THEN 1 ELSE 0]]

\* compare_exchange_strong succeeds: sample_pct is what the query was made with.
Swaps(c, p) == Cardinality(claimed[c]) < Few /\ pct[p] = level[c]

\* tablesample_pct after it: what the query was made with, unless the exchange
\* failed, which has loaded what another coroutine made of sample_pct.
Seen(c, p) == IF Cardinality(claimed[c]) < Few THEN pct[p] ELSE level[c]

\* The search ends without a URL, or goes on to test the queue.
Conclude(c, p) ==
    /\ claimed' = [claimed EXCEPT ![c] = {}]
    /\ level' = [level EXCEPT ![c] = 1]
    /\ Goto(c, IF claimed[c] = {} /\ Seen(c, p) = Levels THEN "idle" ELSE "search")
    /\ UNCHANGED <<rows, hold, bounds>>

\* Seeded fault: sample_pct is never raised.
EnqueueUnraised(c) ==
    /\ pc[c] = "enqueue"
    /\ UNCHANGED pct
    /\ Refill(c, procOf[c])
    /\ Conclude(c, procOf[c])

\* Seeded fault: sample_pct is raised past 100.
EnqueueUncapped(c) ==
    /\ pc[c] = "enqueue"
    /\ pct' = [pct EXCEPT ![procOf[c]] = IF Swaps(c, procOf[c]) THEN @ + 1 ELSE @]
    /\ Refill(c, procOf[c])
    /\ Conclude(c, procOf[c])

\* Few rows raise sample_pct, if no other coroutine has done so meanwhile; the
\* search ends without a URL, or the batch goes to the queue.
Enqueue(c) ==
    /\ pc[c] = "enqueue"
    /\ pct' = [pct EXCEPT ![procOf[c]] =
                  IF Swaps(c, procOf[c]) /\ @ < Levels THEN @ + 1 ELSE @]
    /\ Refill(c, procOf[c])
    /\ Conclude(c, procOf[c])

\* The query fails: again if it was rolled back, else the error escapes.
QueryFails(c) ==
    /\ pc[c] = "search" /\ Empty(procOf[c])
    /\ faults < MaxFaults
    /\ faults' = faults + 1
    /\ Goto(c, "search") \/ Goto(c, "idle")
    /\ UNCHANGED <<rows, queue, pct, hold, level, claimed, ageings>>

\* The second try_pop; without a URL the search is over.
Repop(c) ==
    /\ pc[c] = "repop"
    /\ TryPop(c, "idle")
    /\ UNCHANGED <<rows, pct, level, claimed, bounds>>

-----------------------------------------------------------------------------
(* getNextCrawlPage and the crawl *)

\* A page that was crawled, or could not be: it is not due for three days, or
\* it is deleted when its last success is a month old, which is not kept here.
Crawled(u) == {NoRow} \cup
    (IF u \in InTable THEN {[rows[u] EXCEPT !.due = FALSE]} ELSE {})

\* shouldCrawl refuses the URL: the row as it is spelt is updated, or deleted.
Block(c) ==
    /\ pc[c] = "held"
    /\ \E row \in Crawled(hold[c]) : rows' = [rows EXCEPT ![hold[c]] = row]
    /\ hold' = [hold EXCEPT ![c] = NoUrl]
    /\ Goto(c, "idle")
    /\ UNCHANGED <<queue, pct, level, claimed, bounds>>

\* crawlPage of tlgs::Url(url_str).str(): its row is inserted or updated, or
\* deleted, and the links it holds are inserted where they have no row yet.
Crawl(c) ==
    /\ pc[c] = "held"
    /\ LET url == Norm[hold[c]]
       IN  \E row \in Crawled(url) \cup {[due |-> FALSE, queued |-> IsQueued(url)]},
              found \in SUBSET (Urls \ InTable) :
              rows' = [u \in Urls |-> IF u = url THEN row
                                      ELSE IF u \in found THEN NewRow ELSE rows[u]]
    /\ hold' = [hold EXCEPT ![c] = NoUrl]
    /\ Goto(c, "idle")
    /\ UNCHANGED <<queue, pct, level, claimed, bounds>>

-----------------------------------------------------------------------------
(* Processes, the server, the operator and time *)

\* The process is gone and starts again, with its seeds.
Restart(p) ==
    /\ faults < MaxFaults
    /\ faults' = faults + 1
    /\ queue' = [queue EXCEPT ![p] = SeedQueue]
    /\ pct' = [pct EXCEPT ![p] = 1]
    /\ pc' = [c \in Crawlers |-> IF procOf[c] = p THEN "idle" ELSE pc[c]]
    /\ hold' = [c \in Crawlers |-> IF procOf[c] = p THEN NoUrl ELSE hold[c]]
    /\ claimed' = [c \in Crawlers |-> IF procOf[c] = p THEN {} ELSE claimed[c]]
    /\ level' = [c \in Crawlers |-> IF procOf[c] = p THEN 1 ELSE level[c]]
    /\ UNCHANGED <<rows, ageings>>

\* tools.cpp add_seed: INSERT ... ON CONFLICT DO NOTHING
AddSeed(u) ==
    /\ u \notin InTable
    /\ rows' = [rows EXCEPT ![u] = NewRow]
    /\ UNCHANGED <<queue, pct, crawler, bounds>>

\* tlgs_ctl purge
Purge(u) ==
    /\ u \in InTable
    /\ rows' = [rows EXCEPT ![u] = NoRow]
    /\ UNCHANGED <<queue, pct, crawler, bounds>>

\* Five minutes after the claim.
ClaimLapses(u) ==
    /\ IsQueued(u)
    /\ rows' = [rows EXCEPT ![u].queued = FALSE]
    /\ UNCHANGED <<queue, pct, crawler, bounds>>

\* Three days after the crawl, and so after the claim.
BecomesDue(u) ==
    /\ u \in InTable /\ ~IsDue(u) /\ ~IsQueued(u)
    /\ ageings < MaxAgeings
    /\ ageings' = ageings + 1
    /\ rows' = [rows EXCEPT ![u].due = TRUE]
    /\ UNCHANGED <<queue, pct, crawler, faults>>

-----------------------------------------------------------------------------
Step(c) ==
    \/ Pop(c) \/ Refilled(c) \/ Claim(c) \/ Enqueue(c) \/ Repop(c)
    \/ Block(c) \/ Crawl(c)

\* Not part of the code: notes which URLs are in hand though their claim, if
\* there was one, has not lasted.  No coroutine changes its process.
Watch == /\ lapsed' = Seeds \cup {u \in Urls : Wanted(u)' /\ (u \in lapsed \/ ~IsQueued(u)')}
         /\ UNCHANGED procOf

Next ==
    /\ \/ \E c \in Crawlers : Step(c) \/ QueryFails(c)
       \/ \E p \in Procs : Restart(p)
       \/ \E u \in Urls : AddSeed(u) \/ Purge(u) \/ ClaimLapses(u) \/ BecomesDue(u)
    /\ Watch

\* Coroutines run, their queries and crawls come to an end (they have time
\* limits), the crawler is started again for ever, and minutes pass.
Fairness ==
    /\ \A c \in Crawlers : WF_vars(Step(c) /\ Watch)
    /\ \A u \in Urls : WF_vars(ClaimLapses(u) /\ Watch)

SafeSpec == Init /\ [][Next]_vars
Spec == SafeSpec /\ Fairness

-----------------------------------------------------------------------------
(* Properties *)

TypeOK ==
    /\ procOf \in [Crawlers -> Procs]
    /\ rows \in [Urls -> Rows \cup {NoRow}]
    /\ queue \in [Procs -> [Urls -> Nat]]
    /\ pct \in [Procs -> 1..Levels]
    /\ pc \in [Crawlers -> PCs]
    /\ hold \in [Crawlers -> Urls \cup {NoUrl}]
    /\ level \in [Crawlers -> 1..Levels]
    /\ claimed \in [Crawlers -> SUBSET Urls]
    /\ ageings \in 0..MaxAgeings /\ faults \in 0..MaxFaults
    /\ lapsed \subseteq Urls

\* Two crawlers, of one process or of two, never work on the same row of pages
\* while the claim of the row lasts: neither concurrent queries nor the batches
\* of one process, its failures and its restarts hand a URL out twice.  Seeds
\* are not claimed.
ClaimIsExclusive ==
    \A u \in Urls \ lapsed :
        /\ \A c, d \in Hands(u) : c = d /\ ~(hold[c] = u /\ u \in claimed[c])
        /\ \A p, q \in Queues(u) : p = q /\ queue[p][u] = 1
        /\ Hands(u) = {} \/ Queues(u) = {}

OneSpelling(u) == \A v \in Urls : Norm[v] = u <=> v = u

\* A page is not requested again before three days are over, unless it is a
\* seed, it has lost its claim on the way, or pages may hold it in another
\* spelling too.
NotRecrawledEarly ==
    [][\A c \in Crawlers :
          Crawl(c) /\ hold[c] \notin lapsed /\ OneSpelling(hold[c]) => IsDue(hold[c])]_vars

\* Every normalised page that is due is crawled, or refused, in the end: not
\* one is lost with the queue of a process that is gone, missed by the samples
\* for ever or forgotten between two crawlers.
DueIsCrawled == \A u \in Urls : Norm[u] = u => (IsDue(u) ~> ~IsDue(u))

-----------------------------------------------------------------------------
(* What a comment says and the code does not do *)

\* crawler.cpp 325-327: a row whose URL is not normalised is removed when it is
\* crawled.  But getNextCrawlPage has normalised the URL before crawlPage
\* compares it, so the row stays, due for ever.
UnnormalisedIsRemoved ==
    [][\A c \in Crawlers : Crawl(c) /\ Norm[hold[c]] # hold[c] => rows'[hold[c]] = NoRow]_vars

=============================================================================
