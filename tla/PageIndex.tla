------------------------------ MODULE PageIndex ------------------------------
(***************************************************************************)
(* GeminiCrawler::crawlPage (tlgs/crawler/crawler.cpp 320-600) for one URL,*)
(* one database statement per step.  The statements are not in one         *)
(* transaction: other crawls of the URL run between them (the claim of a   *)
(* URL lasts five minutes and seeds are not claimed at all), a statement   *)
(* may fail, and the process may be gone between any two of them: main     *)
(* quits as soon as awaitEnd returns, whatever crawls are left.            *)
(*                                                                         *)
(* A content stands for what a capsule serves; its hashes, its body and    *)
(* its links are those of the content (hash collisions are left out), so   *)
(* the row holds two contents: the one whose body and hashes were stored   *)
(* last, and the one that search_vector was built from.  Time is held in   *)
(* the ages the code compares.                                             *)
(***************************************************************************)
EXTENDS Naturals, FiniteSets

CONSTANTS Crawls,      \* crawls of the URL that may be in flight together
          Contents,    \* what the capsule may serve with status 2x
          Targets,     \* URLs that contents link to
          LinksOf,     \* the links of each content
          ForceReindex, \* force_reindex_
          NoRow,       \* pages has no row of the URL
          MaxChanges,  \* bound: changes of what the capsule serves
          MaxFaults    \* bound: failed statements and processes gone

VARIABLES row,         \* the row of the URL in pages, or NoRow
          links,       \* how many rows of links lead from the URL to each target
          pages,       \* targets that have a row in pages
          pc,          \* the statement each crawl is at
          seen,        \* the stored content whose hashes the crawl has read
          got,         \* the content the crawl has fetched
          served,      \* what the capsule answers
          barred,      \* robots.txt, the blacklist or the host's timeouts bar it
          changes,     \* changes of served and barred so far
          purging,     \* tlgs_ctl purge has deleted the page, not yet its links
          faults,      \* faults so far
          torn,        \* parts of the index a crawl died short of updating, or
                       \* a purge has taken from a page stored again
          overlapped   \* two crawls of the URL have been in flight together since
                       \* a content was last stored by one that was alone

local == <<pc, seen, got>>
db    == <<row, links, pages>>
env   == <<served, barred, changes, purging>>
ghost == <<torn, overlapped>>
vars  == <<db, local, env, faults, ghost>>

None == "nothing"
Never == 4              \* the age of a last_crawled_at that is NULL

\* "gone": a status other than 1x, 2x, 3x; "proxy": status 53; "down": no
\* answer, or one that crawlPage refuses with an exception.
Answers == Contents \cup {"gone", "proxy", "down"}

\* Age of last_crawled_at: 0 within 3 days, 1 within 21 days, 2 within 147
\* days, 3 older.
\* Age of last_crawl_success_at: that of last_crawled_at, or more than that
\* and within 30 days, or older.
Rows == [stored  : Contents \cup {None},
         indexed : Contents \cup {None},
         crawled : 0..Never,
         success : {"never", "fresh", "month", "older"},
         proxied : BOOLEAN]              \* last_status is 53

ASSUME ConstantsAssumption ==
    /\ IsFiniteSet(Crawls)
    /\ LinksOf \in [Contents -> SUBSET Targets]
    /\ ForceReindex \in BOOLEAN
    /\ {"gone", "proxy", "down", "nothing"} \cap Contents = {}
    /\ NoRow \notin Rows
    /\ MaxChanges \in Nat /\ MaxFaults \in Nat

NewRow == [stored |-> None, indexed |-> None, crawled |-> Never,
           success |-> "never", proxied |-> FALSE]

PCs == {"idle", "vet", "select", "insert", "rest", "fetch", "touch", "store",
        "vector", "unlink", "link", "addPages", "refused", "refused53",
        "drop", "fail", "purge"}

\* After the catch no exception is caught any more: it ends the process.
AfterCatch == {"fail", "purge"}

\* Between the UPDATE of the hashes and the last write to links.
Reindexing == {"vector", "unlink", "link"}

Init ==
    /\ row \in {NoRow, NewRow}
    /\ links = [t \in Targets |-> 0]
    /\ pages = {}
    /\ pc = [c \in Crawls |-> "idle"]
    /\ seen = [c \in Crawls |-> None]
    /\ got = [c \in Crawls |-> None]
    /\ served \in Answers /\ barred = FALSE
    /\ changes = 0 /\ faults = 0 /\ purging = FALSE
    /\ torn = {} /\ overlapped = FALSE

Goto(c, label) == pc' = [pc EXCEPT ![c] = label]

Overlaps(c) == \E d \in Crawls \ {c} : pc[d] # "idle"

\* crawlPage returns.
Finish(c) == /\ Goto(c, "idle")
             /\ seen' = [seen EXCEPT ![c] = None]
             /\ got' = [got EXCEPT ![c] = None]

\* Seeded fault: the UPDATE is an upsert.
UpsertTo(changed) == row' = IF row = NoRow THEN [url |-> "url"] ELSE changed

\* UPDATE pages SET ... WHERE url = $1 changes nothing when there is no row.
UpdateTo(changed) == row' = IF row = NoRow THEN NoRow ELSE changed

\* The row after a crawl without success at this time.
Failed(proxyError) ==
    [row EXCEPT !.crawled = 0, !.proxied = proxyError,
                !.success = IF @ = "fresh" THEN "month" ELSE @]

-----------------------------------------------------------------------------
(* crawlPage up to the answer *)

\* What the query that claims URLs asks for.
Due == row # NoRow /\ row.crawled # 0

\* A crawl of the URL starts.  It may be a seed, which need not be due.
Begin(c) ==
    /\ pc[c] = "idle"
    /\ Goto(c, "vet")
    /\ overlapped' = (overlapped \/ Overlaps(c))
    /\ UNCHANGED <<db, seen, got, env, faults, torn>>

\* shouldCrawl(url): allowed, or an exception is thrown.
Vet(c) ==
    /\ pc[c] = "vet"
    /\ Goto(c, IF barred THEN "fail" ELSE "select")
    /\ UNCHANGED <<db, seen, got, env, faults, ghost>>

\* if(last_status == 53 && last_crawled_at.after(21*7*24*3600) < now)
ProxyRests == row.proxied /\ row.crawled >= 3

\* SELECT the hashes, the last status and the last crawl.
Select(c) ==
    /\ pc[c] = "select"
    /\ IF row = NoRow
         THEN Goto(c, "insert") /\ UNCHANGED seen
         ELSE /\ seen' = [seen EXCEPT ![c] = row.stored]
              /\ Goto(c, IF ProxyRests THEN "rest" ELSE "fetch")
    /\ UNCHANGED <<db, got, env, faults, ghost>>

\* INSERT INTO pages, which fails when another crawl has come first.
Insert(c) ==
    /\ pc[c] = "insert"
    /\ IF row = NoRow
         THEN row' = NewRow /\ Goto(c, "fetch")
         ELSE UNCHANGED row /\ Goto(c, "fail")
    /\ UNCHANGED <<links, pages, seen, got, env, faults, ghost>>

\* The skip of a page that answered 53: last_status becomes 0.
Rest(c) ==
    /\ pc[c] = "rest"
    /\ UpdateTo(Failed(FALSE))
    /\ Finish(c)
    /\ UNCHANGED <<links, pages, env, faults, ghost>>

\* Seeded fault: any stored hash counts as the hash of the content.
UnchangedIfStored(c, content) == seen[c] # None

\* The content is the one whose hashes are stored.  force_reindex_ turns off
\* the first comparison of hashes, not the second.
Unchanged(c, content) ==
    \/ ~ForceReindex /\ content = seen[c]
    \/ content = seen[c]

\* The request, its redirects followed, and the comparisons of hashes.
Fetch(c) ==
    /\ pc[c] = "fetch"
    /\ \/ /\ served \in Contents
          /\ got' = [got EXCEPT ![c] = served]
          /\ Goto(c, IF Unchanged(c, served) THEN "touch" ELSE "store")
       \/ served = "gone" /\ Goto(c, "refused") /\ UNCHANGED got
       \/ served = "proxy" /\ Goto(c, "refused53") /\ UNCHANGED got
       \/ served = "down" /\ Goto(c, "fail") /\ UNCHANGED got
    /\ UNCHANGED <<db, seen, env, faults, ghost>>

-----------------------------------------------------------------------------
(* crawlPage after the answer *)

\* The content has not changed: only the times and the status are updated.
Touch(c) ==
    /\ pc[c] = "touch"
    /\ UpdateTo([row EXCEPT !.crawled = 0, !.success = "fresh", !.proxied = FALSE])
    /\ Finish(c)
    /\ UNCHANGED <<links, pages, env, faults, ghost>>

\* Seeded fault: the search vector is not rebuilt.
StoreOnly(c) ==
    /\ pc[c] = "store"
    /\ UpdateTo([row EXCEPT !.stored = got[c], !.crawled = 0,
                            !.success = "fresh", !.proxied = FALSE])
    /\ Goto(c, "unlink")
    /\ overlapped' = Overlaps(c)
    /\ UNCHANGED <<links, pages, seen, got, env, faults, torn>>

\* UPDATE pages SET content_body, ..., indexed_content_hash, raw_content_hash
Store(c) ==
    /\ pc[c] = "store"
    /\ UpdateTo([row EXCEPT !.stored = got[c], !.crawled = 0,
                            !.success = "fresh", !.proxied = FALSE])
    /\ Goto(c, "vector")
    /\ overlapped' = Overlaps(c)
    /\ UNCHANGED <<links, pages, seen, got, env, faults, torn>>

\* UPDATE pages SET search_vector = to_tsvector(... content_body), whatever
\* content_body is by now.  Without links that is all.
Vector(c) ==
    /\ pc[c] = "vector"
    /\ UpdateTo([row EXCEPT !.indexed = row.stored])
    /\ torn' = torn \ {"vector"}
    /\ IF LinksOf[got[c]] = {}
         THEN Finish(c)
         ELSE Goto(c, "unlink") /\ UNCHANGED <<seen, got>>
    /\ UNCHANGED <<links, pages, env, faults, overlapped>>

\* Seeded fault: the old links are left.
UnlinkNothing(c) ==
    /\ pc[c] = "unlink"
    /\ Goto(c, "link")
    /\ UNCHANGED <<db, seen, got, env, faults, ghost>>

\* DELETE FROM links WHERE url = $1
Unlink(c) ==
    /\ pc[c] = "unlink"
    /\ links' = [t \in Targets |-> 0]
    /\ Goto(c, "link")
    /\ UNCHANGED <<row, pages, seen, got, env, faults, ghost>>

\* INSERT INTO links ... ON CONFLICT DO NOTHING: links has no key, so nothing
\* ever conflicts.
Link(c) ==
    /\ pc[c] = "link"
    /\ links' = [t \in Targets |-> links[t] + IF t \in LinksOf[got[c]] THEN 1 ELSE 0]
    /\ torn' = torn \ {"links"}
    /\ Goto(c, "addPages")
    /\ UNCHANGED <<row, pages, seen, got, env, faults, overlapped>>

\* INSERT INTO pages the targets that shouldCrawl let through.
AddPages(c) ==
    /\ pc[c] = "addPages"
    /\ \E allowed \in SUBSET LinksOf[got[c]] : pages' = pages \cup allowed
    /\ Finish(c)
    /\ UNCHANGED <<row, links, env, faults, ghost>>

\* Seeded fault: a refused page is recorded and kept for ever.
RefusedKept(c) ==
    /\ pc[c] \in {"refused", "refused53"}
    /\ UpdateTo(Failed(pc[c] = "refused53"))
    /\ Finish(c)
    /\ UNCHANGED <<links, pages, env, faults, ghost>>

\* A status other than 1x, 2x: it is recorded, inside the try block ...
Refused(c) ==
    /\ pc[c] \in {"refused", "refused53"}
    /\ UpdateTo(Failed(pc[c] = "refused53"))
    /\ Goto(c, "drop")
    /\ UNCHANGED <<links, pages, seen, got, env, faults, ghost>>

\* ... and so is an error, after the catch ...
Fail(c) ==
    /\ pc[c] = "fail"
    /\ UpdateTo(Failed(FALSE))
    /\ Goto(c, "purge")
    /\ UNCHANGED <<links, pages, seen, got, env, faults, ghost>>

\* ... and a page not crawled with success for 30 days is deleted, in either
\* place.
Purge(c) ==
    /\ pc[c] \in {"drop", "purge"}
    /\ row' = IF row # NoRow /\ row.success = "older" THEN NoRow ELSE row
    /\ Finish(c)
    /\ UNCHANGED <<links, pages, env, faults, ghost>>

-----------------------------------------------------------------------------
(* Faults, time and the capsule *)

\* What a crawl that stops here leaves undone.
Undone(c) == CASE pc[c] = "vector"           -> {"vector", "links"}
               [] pc[c] \in {"unlink", "link"} -> {"links"}
               [] OTHER                        -> {}

\* A statement inside the try block throws.
Throw(c) ==
    /\ pc[c] \notin {"idle"} \cup AfterCatch
    /\ faults < MaxFaults
    /\ faults' = faults + 1
    /\ torn' = torn \cup Undone(c)
    /\ Goto(c, "fail")
    /\ UNCHANGED <<db, seen, got, env, overlapped>>

\* The crawler's process is gone, or a statement after the catch throws and
\* takes it along.
Kill(c) ==
    /\ pc[c] # "idle"
    /\ faults < MaxFaults
    /\ faults' = faults + 1
    /\ torn' = torn \cup Undone(c)
    /\ Finish(c)
    /\ UNCHANGED <<db, env, overlapped>>

\* Days go by.  A crawl is over in minutes, so the ages are taken to pass
\* their limits between crawls, in their order, and last_crawled_at is never
\* older than last_crawl_success_at.
Quiet == \A c \in Crawls : pc[c] = "idle"

AgeCrawled ==
    /\ row # NoRow /\ Quiet
    /\ row.crawled \in 0..2
    /\ row.crawled = 2 => row.success \notin {"fresh", "month"}
    /\ row' = [row EXCEPT !.crawled = @ + 1]
    /\ UNCHANGED <<links, pages, local, env, faults, ghost>>

AgeSuccess ==
    /\ row # NoRow /\ Quiet
    /\ \/ row.success = "fresh" /\ row.crawled # 0
       \/ row.success = "month"
    /\ row' = [row EXCEPT !.success = "older"]
    /\ UNCHANGED <<links, pages, local, env, faults, ghost>>

Change ==
    /\ changes < MaxChanges
    /\ changes' = changes + 1
    /\ \/ served' \in Answers \ {served} /\ UNCHANGED barred
       \/ barred' = ~barred /\ UNCHANGED served
    /\ UNCHANGED <<db, local, purging, faults, ghost>>

\* tlgs_ctl purge: DELETE FROM pages; it is one of the faults ...
PurgePage ==
    /\ ~purging /\ faults < MaxFaults
    /\ faults' = faults + 1
    /\ row' = NoRow
    /\ purging' = TRUE
    /\ UNCHANGED <<links, pages, local, served, barred, changes, ghost>>

\* ... and DELETE FROM links WHERE url, not in one transaction: a crawl may have
\* stored the page again.  (The links to the page are those of others.)
PurgeLinks ==
    /\ purging
    /\ links' = [t \in Targets |-> 0]
    /\ purging' = FALSE
    /\ torn' = IF row = NoRow THEN torn ELSE torn \cup {"links"}
    /\ UNCHANGED <<row, pages, local, served, barred, changes, faults, overlapped>>

-----------------------------------------------------------------------------
Step(c) ==
    \/ Vet(c) \/ Select(c) \/ Insert(c) \/ Rest(c) \/ Fetch(c) \/ Touch(c)
    \/ Store(c) \/ Vector(c) \/ Unlink(c) \/ Link(c) \/ AddPages(c)
    \/ Refused(c) \/ Fail(c) \/ Purge(c)

Next ==
    \/ \E c \in Crawls : Begin(c) \/ Step(c) \/ Throw(c) \/ Kill(c)
    \/ AgeCrawled \/ AgeSuccess \/ Change \/ PurgePage \/ PurgeLinks

\* Statements and requests come to an end, time passes, and the crawler, that
\* systemd restarts for ever, comes back to a page that is due.
Fairness ==
    /\ \A c \in Crawls : WF_vars(Step(c))
    /\ WF_vars(AgeCrawled) /\ SF_vars(AgeSuccess)
    /\ WF_vars(Due /\ \E c \in Crawls : Begin(c))

SafeSpec == Init /\ [][Next]_vars
Spec == SafeSpec /\ Fairness

-----------------------------------------------------------------------------
(* Properties *)

TypeOK ==
    /\ row \in Rows \cup {NoRow}
    /\ links \in [Targets -> Nat]
    /\ pages \subseteq Targets
    /\ pc \in [Crawls -> PCs]
    /\ seen \in [Crawls -> Contents \cup {None}]
    /\ got \in [Crawls -> Contents \cup {None}]
    /\ served \in Answers /\ barred \in BOOLEAN /\ purging \in BOOLEAN
    /\ changes \in 0..MaxChanges /\ faults \in 0..MaxFaults
    /\ torn \subseteq {"vector", "links"} /\ overlapped \in BOOLEAN

\* search_vector is built from another content than the one stored only while
\* a crawl is about to rebuild it, or after one has died there: crawls that
\* overlap never leave the two apart.
VectorLagsOnlyInFlight ==
    row # NoRow /\ row.indexed # row.stored =>
        "vector" \in torn \/ \E c \in Crawls : pc[c] = "vector"

\* As long as crawls of the page do not overlap, links holds each link of the
\* stored content once and no other, save while a crawl is rewriting it, after
\* one has died there or a purge has met one, or when the content has lost its
\* last link (crawlPage returns before the DELETE then).  What an overlap leaves
\* is gone with the next content that a crawl alone with the page stores.
LinksLagOnlyInFlight ==
    row # NoRow /\ row.stored # None /\ ~overlapped =>
        \/ links = [t \in Targets |-> IF t \in LinksOf[row.stored] THEN 1 ELSE 0]
        \/ LinksOf[row.stored] = {}
        \/ "links" \in torn
        \/ \E c \in Crawls : pc[c] \in Reindexing

\* A page whose capsule serves a content for good has that content stored in
\* the end, whatever crawls, faults and stale reads came before.
IndexCatchesUp ==
    \A content \in Contents :
        <>[](served = content /\ ~barred) => <>[](row # NoRow => row.stored = content)

\* doc_indexing.csp: a page is removed after a month of failing to retrieve
\* it again, or of being forbidden to; one never retrieved is kept.  Its
\* crawls are taken not to follow one another without a gap.
GoneIsRemoved ==
    <>[](barred \/ served \notin Contents) /\ []<>Quiet =>
        <>[](row = NoRow \/ row.success = "never")

-----------------------------------------------------------------------------
(* What comments and docs say and the code does not do *)

\* crawler.cpp 489: "Absolutelly no reason to reindex if the content hasn't
\* changed even after post processing"; 423: "force_reindex_ is used to force
\* reindexing of files".
SkipLeavesIndexed ==
    [][\A c \in Crawls : Touch(c) /\ row # NoRow => row.indexed = got[c] \/ Overlaps(c)]_vars

\* crawler.cpp 348-349 and doc_indexing.csp: a page that answered 53 is not
\* requested again within 21 days.
ProxyErrorRests ==
    [][\A c \in Crawls : Fetch(c) => ~(row # NoRow /\ row.proxied /\ row.crawled \in 0..1)]_vars

=============================================================================
