------------------------------ MODULE Redirects ------------------------------
(***************************************************************************)
(* The redirect loop of crawlPage (tlgs/crawler/crawler.cpp) and the table *)
(* perma_redirects that all crawls share: a redirect a capsule has called  *)
(* permanent is followed from the table without a request and without      *)
(* shouldCrawl, and counts twice, because `continue` goes to the condition *)
(* of the loop, which counts as well.  PageIndex has what is done with the *)
(* answer; here a crawl ends with it.  One step lasts from one co_await to *)
(* the next.                                                               *)
(***************************************************************************)
EXTENDS Naturals

CONSTANTS Crawls,   \* crawls of several pages at a time
          Urls,     \* normalised URLs
          NoUrl     \* no row, no URL

ASSUME NoUrlAssumption == NoUrl \notin Urls

VARIABLES redirects,  \* perma_redirects: from_url -> to_url
          forbidden,  \* the URLs shouldCrawl refuses at present
          pc,         \* the await each crawl is at
          cur,        \* crawl_url
          count,      \* redirection_count
          status,     \* status
          target,     \* redirect_url
          requests,   \* requests it has made; resp is null at 0
          hops,       \* redirects it has followed
          vetted      \* the URLs shouldCrawl has ever allowed

crawl == <<pc, cur, count, status, target, requests, hops>>
vars  == <<redirects, forbidden, crawl, vetted>>

PCs == {"idle", "lookup", "request", "vet", "save", "done"}

\* 3x but 31, 31, 1x or 2x, any other; "cached" is the 30 a row of the table
\* leaves.
Redirections == {"redirect", "permanent"}
Answers == Redirections \cup {"page", "failure"}
Status == Answers \cup {"unset", "cached"}

MaxRedirects == 5

Init ==
    /\ redirects = [u \in Urls |-> NoUrl]
    /\ forbidden \in SUBSET Urls
    /\ pc = [c \in Crawls |-> "idle"]
    /\ cur = [c \in Crawls |-> NoUrl]
    /\ count = [c \in Crawls |-> 0]
    /\ status = [c \in Crawls |-> "unset"]
    /\ target = [c \in Crawls |-> NoUrl]
    /\ requests = [c \in Crawls |-> 0]
    /\ hops = [c \in Crawls |-> 0]
    /\ vetted = {}

Goto(c, label) == pc' = [pc EXCEPT ![c] = label]

\* crawlPage of a page that shouldCrawl allows.
Begin(c) ==
    /\ pc[c] = "idle"
    /\ \E url \in Urls \ forbidden :
          /\ cur' = [cur EXCEPT ![c] = url]
          /\ vetted' = vetted \cup {url}
    /\ Goto(c, "lookup")
    /\ UNCHANGED <<redirects, forbidden, count, status, target, requests, hops>>

\* Seeded fault: one redirect too many.
AdvanceLate(c, url, n) ==
    /\ cur' = [cur EXCEPT ![c] = url]
    /\ target' = [target EXCEPT ![c] = NoUrl]
    /\ hops' = [hops EXCEPT ![c] = @ + 1]
    /\ count' = [count EXCEPT ![c] = n + 1]
    /\ Goto(c, IF n =< MaxRedirects THEN "lookup" ELSE "done")

\* The end of the loop body after a redirect to url, redirection_count being n:
\* while(status / 10 == 3 && redirection_count++ < 5)
Advance(c, url, n) ==
    /\ cur' = [cur EXCEPT ![c] = url]
    /\ target' = [target EXCEPT ![c] = NoUrl]
    /\ hops' = [hops EXCEPT ![c] = @ + 1]
    /\ count' = [count EXCEPT ![c] = n + 1]
    /\ Goto(c, IF n < MaxRedirects THEN "lookup" ELSE "done")

\* Seeded fault: continue does not count.
FollowCachedUncounted(c) ==
    /\ pc[c] = "lookup" /\ redirects[cur[c]] # NoUrl
    /\ status' = [status EXCEPT ![c] = "cached"]
    /\ cur' = [cur EXCEPT ![c] = redirects[cur[c]]]
    /\ UNCHANGED <<redirects, forbidden, pc, count, hops, target, requests, vetted>>

\* SELECT to_url FROM perma_redirects has a row: redirection_count++, continue.
FollowCached(c) ==
    /\ pc[c] = "lookup" /\ redirects[cur[c]] # NoUrl
    /\ status' = [status EXCEPT ![c] = "cached"]
    /\ Advance(c, redirects[cur[c]], count[c] + 1)
    /\ UNCHANGED <<redirects, forbidden, requests, vetted>>

\* ... or it has none.
NotCached(c) ==
    /\ pc[c] = "lookup" /\ redirects[cur[c]] = NoUrl
    /\ Goto(c, "request")
    /\ UNCHANGED <<redirects, forbidden, cur, count, status, target, requests, hops, vetted>>

\* sendRequestCoro.  A redirect to the same URL, or to none, is an error.
Request(c) ==
    /\ pc[c] = "request"
    /\ requests' = [requests EXCEPT ![c] = @ + 1]
    /\ \E answer \in Answers, url \in Urls \ {cur[c]} :
          /\ status' = [status EXCEPT ![c] = answer]
          /\ IF answer \in Redirections
               THEN target' = [target EXCEPT ![c] = url] /\ Goto(c, "vet")
               ELSE UNCHANGED target /\ Goto(c, "done")
    /\ UNCHANGED <<redirects, forbidden, cur, count, hops, vetted>>

\* Seeded fault: the loop is left after its limit is reached, not before.
VetUncounted(c) ==
    /\ pc[c] = "vet" /\ target[c] \notin forbidden
    /\ vetted' = vetted \cup {target[c]}
    /\ IF status[c] = "permanent"
         THEN Goto(c, "save") /\ UNCHANGED <<cur, count, target, hops>>
         ELSE Advance(c, target[c], IF count[c] = 0 THEN 0 ELSE count[c] - 1)
    /\ UNCHANGED <<redirects, forbidden, status, requests>>

\* Seeded fault: a permanent redirect is saved before it is vetted.
VetLater(c) ==
    /\ pc[c] = "vet"
    /\ IF status[c] = "permanent"
         THEN Goto(c, "save") /\ UNCHANGED <<cur, count, target, hops, vetted>>
         ELSE /\ target[c] \notin forbidden
              /\ vetted' = vetted \cup {target[c]}
              /\ Advance(c, target[c], count[c])
    /\ UNCHANGED <<redirects, forbidden, status, requests>>

\* shouldCrawl(redirect_url); it refuses what is not gemini, too.
Vet(c) ==
    /\ pc[c] = "vet" /\ target[c] \notin forbidden
    /\ vetted' = vetted \cup {target[c]}
    /\ IF status[c] = "permanent"
         THEN Goto(c, "save") /\ UNCHANGED <<cur, count, target, hops>>
         ELSE Advance(c, target[c], count[c])
    /\ UNCHANGED <<redirects, forbidden, status, requests>>

\* INSERT INTO perma_redirects ... DO UPDATE SET to_url
Save(c) ==
    /\ pc[c] = "save"
    /\ redirects' = [redirects EXCEPT ![cur[c]] = target[c]]
    /\ Advance(c, target[c], count[c])
    /\ UNCHANGED <<forbidden, status, requests, vetted>>

\* The variables go with the frame of crawlPage.
End(c) ==
    /\ Goto(c, "idle")
    /\ cur' = [cur EXCEPT ![c] = NoUrl]
    /\ count' = [count EXCEPT ![c] = 0]
    /\ status' = [status EXCEPT ![c] = "unset"]
    /\ target' = [target EXCEPT ![c] = NoUrl]
    /\ requests' = [requests EXCEPT ![c] = 0]
    /\ hops' = [hops EXCEPT ![c] = 0]
    /\ UNCHANGED <<redirects, forbidden, vetted>>

\* "No concrete response. Too many redirects?", or a redirect is the last
\* answer there is.
GiveUp(c) ==
    /\ pc[c] = "done"
    /\ status[c] \in Redirections \cup {"cached"}
    /\ End(c)

\* The page failed, or its answer goes on to be indexed.
Conclude(c) ==
    /\ pc[c] = "done"
    /\ status[c] \in {"page", "failure"}
    /\ End(c)

\* A request or a statement fails, or the target of a redirect is refused.
Throw(c) ==
    /\ pc[c] \in {"lookup", "request", "vet", "save"}
    /\ End(c)

\* Robots policies, the blacklist and the time-outs of hosts.
Forbid ==
    /\ forbidden' \in SUBSET Urls
    /\ UNCHANGED <<redirects, crawl, vetted>>

-----------------------------------------------------------------------------
Step(c) ==
    \/ FollowCached(c) \/ NotCached(c) \/ Request(c) \/ Vet(c) \/ Save(c)
    \/ GiveUp(c) \/ Conclude(c) \/ Throw(c)

Next == Forbid \/ \E c \in Crawls : Begin(c) \/ Step(c)

\* Requests have a time limit and statements come to an end.
Fairness == \A c \in Crawls : WF_vars(Step(c))

SafeSpec == Init /\ [][Next]_vars
Spec == SafeSpec /\ Fairness

-----------------------------------------------------------------------------
(* Properties *)

TypeOK ==
    /\ redirects \in [Urls -> Urls \cup {NoUrl}]
    /\ forbidden \subseteq Urls /\ vetted \subseteq Urls
    /\ pc \in [Crawls -> PCs]
    /\ cur \in [Crawls -> Urls \cup {NoUrl}]
    /\ count \in [Crawls -> 0..(MaxRedirects + 2)]
    /\ status \in [Crawls -> Status]
    /\ target \in [Crawls -> Urls \cup {NoUrl}]
    /\ requests \in [Crawls -> Nat]
    /\ hops \in [Crawls -> Nat]

\* No URL is ever requested that shouldCrawl has never allowed, though a crawl
\* follows the redirects other crawls have saved without asking it.
OnlyVettedRequested == \A c \in Crawls : pc[c] = "request" => cur[c] \in vetted

\* However fresh and saved redirects alternate, and whatever other crawls save
\* in the meantime, a crawl makes six requests at most and follows six
\* redirects at most, the last of them in vain.
LoopIsBounded ==
    \A c \in Crawls :
        /\ requests[c] =< MaxRedirects + 1
        /\ hops[c] =< MaxRedirects + 1
        /\ pc[c] = "request" => requests[c] =< MaxRedirects /\ hops[c] =< MaxRedirects

\* A crawl ends, in a cycle of redirects too, be they fresh or saved.
CrawlEnds == \A c \in Crawls : pc[c] # "idle" ~> pc[c] = "idle"

-----------------------------------------------------------------------------
(* What the documentation says and the code does not do *)

\* doc_indexing.csp: "TLGS allows up to 5 redirections before giving up."  But
\* three that are saved exhaust the count, so a chain of three permanent
\* redirects works when it is new and never again.
FiveRedirects == [][\A c \in Crawls : GiveUp(c) => hops[c] > MaxRedirects]_vars

=============================================================================
