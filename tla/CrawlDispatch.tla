---------------------------- MODULE CrawlDispatch ----------------------------
(***************************************************************************)
(* The lock-free dispatcher of the crawler (tlgs/crawler/crawler.cpp,      *)
(* dispatchCrawl, and crawler.hpp, awaitEnd): every call of dispatchCrawl  *)
(* tests ended_, takes a Counter on ongoing_crawlings_, and either returns *)
(* or starts a coroutine that takes a URL, crawls it and posts more calls. *)
(*                                                                         *)
(* A call of dispatchCrawl and the coroutine it may start share one slot   *)
(* of Calls: the coroutine owns the Counter that the call took.  The calls *)
(* run on several threads: the first on the main loop's, those posted by   *)
(* coroutines and by awaitEnd on the crawler's loop_, and the one in the   *)
(* coroutine's exception handler on whatever thread resumed it.  Every     *)
(* access to ongoing_crawlings_ and ended_ is a step of its own; of        *)
(* sample_pct see Query and Claim.                                         *)
(*                                                                         *)
(* URLs are counted, not named: which URL a crawl gets does not matter     *)
(* here.  queued is the size of craw_queue_, rows the number of rows of    *)
(* the pages table that the claiming query would return.  Of sample_pct    *)
(* only matters whether it has reached 100, for good.                      *)
(***************************************************************************)
EXTENDS Integers, FiniteSets

CONSTANTS Calls,      \* slots for calls in flight
          MaxConn,    \* max_concurrent_connections_
          MaxSeeds,   \* bound: URLs given by addUrl before the start
          MaxRows,    \* bound: rows that can be claimed at the start
          MaxFound,   \* bound: new URLs that crawls discover, in total
          MaxFaults   \* bound: exceptions that crawls and queries meet

ASSUME ConstantsAssumption ==
    /\ IsFiniteSet(Calls)
    /\ Calls # {}
    /\ Calls \cap {"main", "loop", "await", "none"} = {}
    /\ {MaxConn, MaxSeeds, MaxRows, MaxFound, MaxFaults} \subseteq Nat

VARIABLES ongoing,      \* ongoing_crawlings_
          ended,        \* ended_
          tasks,        \* dispatchCrawl closures posted on loop_ and not run
          pc,           \* where each call, or the coroutine it started, is
          caller,       \* who made the call of a slot and waits for it
          ticket,       \* Counter::count_ of the call: the value before it,
                        \* forgotten once it was compared
          awaitPc,      \* where awaitEnd is
          finishCount,  \* finish_count of awaitEnd
          queued,       \* size of craw_queue_
          rows,         \* claimable rows of pages
          found,        \* URLs discovered so far
          full,         \* sample_pct is 100
          faults,       \* exceptions so far
          proc          \* the process: "running", "quit" or "aborted"

threads == <<pc, caller, ticket>>
await   == <<awaitPc, finishCount>>
urls    == <<queued, rows, found, full>>
vars    == <<ongoing, ended, tasks, threads, await, urls, faults, proc>>

Callers == Calls \cup {"main", "loop", "await", "none"}

\* The part of a call before dispatchCrawl returns to its caller.
Sync == {"enter", "count", "check"}

\* The coroutine: in getNextCrawlPage ("pop", "query", "repop", "vet", and
\* "sampled" or "whole" while a query is under way), without a URL ("none", "setEnd"), with one ("post", "crawl", "repost"),
\* at its end ("drop") or in its exception handler ("handler", "nested").
Coroutine == {"pop", "query", "sampled", "whole", "repop", "vet", "none",
              "setEnd", "post", "crawl", "repost", "drop", "handler", "nested"}

PCs == {"idle"} \cup Sync \cup Coroutine

\* Calls whose Counter is alive and has not been released.
Holders == {c \in Calls : pc[c] \in {"check"} \cup (Coroutine \ {"setEnd"})}

\* Coroutines that have popped a URL and are not through with it.
WithUrl == {c \in Calls : pc[c] \in {"vet", "post", "crawl"}}

\* A thread is inside the synchronous part of a call made by x.
InCall(x) == \E c \in Calls : pc[c] \in Sync /\ caller[c] = x

\* awaitEnd runs on loop_ too, so it keeps the loop busy while it polls.
LoopFree == ~InCall("loop") /\ awaitPc \notin {"polled", "called"}

Goto(c, label) == pc' = [pc EXCEPT ![c] = label]

\* The call in slot c returns to its caller and leaves the slot at label.
Return(c, label) ==
    /\ Goto(c, label)
    /\ caller' = [caller EXCEPT ![c] = "none"]
    /\ ticket' = [ticket EXCEPT ![c] = 0]

\* The slot of the next call.  Slots have no meaning of their own: which free
\* one is taken does not matter.
Free(c) == pc[c] = "idle" /\ c = (CHOOSE d \in Calls : pc[d] = "idle")

\* dispatchCrawl is called by x, in the free slot c.
Call(c, x) == /\ Free(c)
              /\ Goto(c, "enter")
              /\ caller' = [caller EXCEPT ![c] = x]
              /\ UNCHANGED ticket

\* crawlAll has just made its call of dispatchCrawl, on the main loop.
Init ==
    /\ ongoing = 0 /\ ended = FALSE /\ tasks = 0
    /\ \E c \in Calls : /\ c = (CHOOSE d \in Calls : TRUE)
                       /\ pc = [d \in Calls |-> IF d = c THEN "enter" ELSE "idle"]
    /\ caller = [c \in Calls |-> IF pc[c] = "enter" THEN "main" ELSE "none"]
    /\ ticket = [c \in Calls |-> 0]
    /\ awaitPc = "notStarted" /\ finishCount = 0
    /\ queued \in 0..MaxSeeds /\ rows \in 0..MaxRows /\ found = 0
    /\ full = FALSE
    /\ faults = 0 /\ proc = "running"

-----------------------------------------------------------------------------
(* dispatchCrawl up to its return *)

\* if(ended_) return;
Enter(c) ==
    /\ pc[c] = "enter"
    /\ \/ ended /\ Return(c, "idle")
       \/ ~ended /\ Goto(c, "count") /\ UNCHANGED <<caller, ticket>>
    /\ UNCHANGED <<ongoing, ended, tasks, await, urls, faults, proc>>

\* The Counter's constructor: a fetch_add, whose result it keeps.
Count(c) ==
    /\ pc[c] = "count"
    /\ ticket' = [ticket EXCEPT ![c] = ongoing]
    /\ ongoing' = ongoing + 1
    /\ Goto(c, "check")
    /\ UNCHANGED <<ended, tasks, caller, await, urls, faults, proc>>

\* Seeded fault: the limit is compared off by one.
AdmittedOneMore(c) == ticket[c] =< MaxConn

Admitted(c) == ticket[c] < MaxConn

\* Too many crawls: return, and the Counter's destructor takes 1 off again.
Refuse(c) ==
    /\ pc[c] = "check"
    /\ ~Admitted(c)
    /\ ongoing' = ongoing - 1
    /\ Return(c, "idle")
    /\ UNCHANGED <<ended, tasks, await, urls, faults, proc>>

\* async_run: the coroutine starts, dispatchCrawl returns.
Launch(c) ==
    /\ pc[c] = "check"
    /\ Admitted(c)
    /\ Return(c, "pop")
    /\ UNCHANGED <<ongoing, ended, tasks, await, urls, faults, proc>>

-----------------------------------------------------------------------------
(* The coroutine: getNextCrawlPage *)

\* The first try_pop of getNextPotentialCarwlUrl.
Pop(c) ==
    /\ pc[c] = "pop"
    /\ IF queued > 0
         THEN queued' = queued - 1 /\ Goto(c, "vet")
         ELSE UNCHANGED queued /\ Goto(c, "query")
    /\ UNCHANGED <<ongoing, ended, tasks, caller, ticket, await, rows, found, full, faults, proc>>

\* while(craw_queue_.empty()): another crawl may have filled the queue, else
\* load sample_pct and send the claiming query.
Query(c) ==
    /\ pc[c] = "query"
    /\ Goto(c, IF queued > 0 THEN "repop" ELSE IF full THEN "whole" ELSE "sampled")
    /\ UNCHANGED <<ongoing, ended, tasks, caller, ticket, await, urls, faults, proc>>

\* n rows are claimed and queued; the loop then tests the queue again.
Enqueued(c, n) ==
    /\ n \in 1..rows
    /\ rows' = rows - n /\ queued' = queued + n
    /\ Goto(c, "query")

\* The query of a whole table returns; if it is empty, the search is over.
ClaimWhole(c) ==
    /\ pc[c] = "whole"
    /\ \/ \E n \in 1..rows : Enqueued(c, n)
       \/ rows = 0 /\ Goto(c, "none") /\ UNCHANGED <<queued, rows>>
    /\ UNCHANGED <<ongoing, ended, tasks, caller, ticket, await, found, full, faults, proc>>

\* A query sent before sample_pct was 100 returns.  It may raise sample_pct
\* to 100, or to less, and it may miss rows.  An empty one is repeated, which
\* is no step unless the loop ends, or the compare_exchange_strong loads what
\* another crawl has made of sample_pct: if that is 100 the search is over,
\* though the query was of a sample.
ClaimSampled(c) ==
    /\ pc[c] = "sampled"
    /\ \/ \E n \in 1..rows : Enqueued(c, n) /\ full' \in {full, TRUE}
       \/ ~full /\ full' = TRUE /\ Goto(c, "query") /\ UNCHANGED <<queued, rows>>
       \/ ~full /\ queued > 0 /\ Goto(c, "repop") /\ UNCHANGED <<queued, rows, full>>
       \/ full /\ Goto(c, "none") /\ UNCHANGED <<queued, rows, full>>
    /\ UNCHANGED <<ongoing, ended, tasks, caller, ticket, await, found, faults, proc>>

\* The second try_pop: others may have emptied the queue since.
Repop(c) ==
    /\ pc[c] = "repop"
    /\ IF queued > 0
         THEN queued' = queued - 1 /\ Goto(c, "vet")
         ELSE UNCHANGED queued /\ Goto(c, "none")
    /\ UNCHANGED <<ongoing, ended, tasks, caller, ticket, await, rows, found, full, faults, proc>>

\* shouldCrawl: the URL may be crawled, or is marked as blocked and the next
\* one is asked for.
Vet(c) ==
    /\ pc[c] = "vet"
    /\ \/ Goto(c, "post")
       \/ Goto(c, "pop")
    /\ UNCHANGED <<ongoing, ended, tasks, caller, ticket, await, urls, faults, proc>>

\* A database error escapes getNextCrawlPage; a URL it had popped is lost to
\* this process.
Throw(c) ==
    /\ pc[c] \in {"sampled", "whole", "vet"}
    /\ faults < MaxFaults
    /\ faults' = faults + 1
    /\ Goto(c, "handler")
    /\ UNCHANGED <<ongoing, ended, tasks, caller, ticket, await, urls, proc>>

\* The claiming query is rolled back and tried again.
Rollback(c) ==
    /\ pc[c] \in {"sampled", "whole"}
    /\ faults < MaxFaults
    /\ faults' = faults + 1
    /\ Goto(c, "query")
    /\ UNCHANGED <<ongoing, ended, tasks, caller, ticket, await, urls, proc>>

-----------------------------------------------------------------------------
(* The coroutine: without a URL, with one, and its end *)

\* Seeded fault: release() leaves counter_ set, so the destructor takes 1 off
\* a second time.
ReleaseTwice(c) ==
    /\ pc[c] = "none"
    /\ ongoing' = ongoing - 1
    /\ Goto(c, "drop")
    /\ UNCHANGED <<ended, tasks, caller, ticket, await, urls, faults, proc>>

\* if(counter->release() == 1)
Release(c) ==
    /\ pc[c] = "none"
    /\ ongoing' = ongoing - 1
    /\ Goto(c, IF ongoing' = 1 THEN "setEnd" ELSE "idle")
    /\ UNCHANGED <<ended, tasks, caller, ticket, await, urls, faults, proc>>

\* ended_ = true;
SetEnd(c) ==
    /\ pc[c] = "setEnd"
    /\ ended' = TRUE
    /\ Goto(c, "idle")
    /\ UNCHANGED <<ongoing, tasks, caller, ticket, await, urls, faults, proc>>

\* loop_->runInLoop(dispatchCrawl).  Run at once when the coroutine is on
\* loop_, which is the case where RunTask is the next step.
Post(c) ==
    /\ pc[c] = "post"
    /\ tasks' = tasks + 1
    /\ Goto(c, "crawl")
    /\ UNCHANGED <<ongoing, ended, caller, ticket, await, urls, faults, proc>>

\* crawlPage returns, having inserted the new URLs it found into pages.
Crawl(c) ==
    /\ pc[c] = "crawl"
    /\ \E n \in 0..(MaxFound - found) : rows' = rows + n /\ found' = found + n
    /\ Goto(c, "repost")
    /\ UNCHANGED <<ongoing, ended, tasks, caller, ticket, await, queued, full, faults, proc>>

\* An exception escapes crawlPage: abort().
Abort(c) ==
    /\ pc[c] = "crawl"
    /\ faults < MaxFaults
    /\ faults' = faults + 1
    /\ proc' = "aborted"
    /\ UNCHANGED <<ongoing, ended, tasks, threads, await, urls>>

\* loop_->queueInLoop(dispatchCrawl), while the Counter is still held.
Repost(c) ==
    /\ pc[c] = "repost"
    /\ tasks' = tasks + 1
    /\ Goto(c, "drop")
    /\ UNCHANGED <<ongoing, ended, caller, ticket, await, urls, faults, proc>>

\* Seeded fault: the Counter moved from is not given back.
DropLeaking(c) ==
    /\ pc[c] = "drop"
    /\ Goto(c, "idle")
    /\ UNCHANGED <<ongoing, ended, tasks, caller, ticket, await, urls, faults, proc>>

\* The coroutine's frame goes, and with it the last reference to the Counter.
Drop(c) ==
    /\ pc[c] = "drop"
    /\ ongoing' = ongoing - 1
    /\ Goto(c, "idle")
    /\ UNCHANGED <<ended, tasks, caller, ticket, await, urls, faults, proc>>

\* The handler calls dispatchCrawl, in slot d, with its own Counter held ...
Handle(c, d) ==
    /\ pc[c] = "handler"
    /\ Free(d)
    /\ pc' = [pc EXCEPT ![c] = "nested", ![d] = "enter"]
    /\ caller' = [caller EXCEPT ![d] = c]
    /\ UNCHANGED <<ongoing, ended, tasks, ticket, await, urls, faults, proc>>

\* ... and ends when that call has returned.
Handled(c) ==
    /\ pc[c] = "nested"
    /\ ~InCall(c)
    /\ Goto(c, "drop")
    /\ UNCHANGED <<ongoing, ended, tasks, caller, ticket, await, urls, faults, proc>>

-----------------------------------------------------------------------------
(* The event loop, awaitEnd and main *)

\* loop_ runs a posted closure.
RunTask(c) ==
    /\ tasks > 0
    /\ LoopFree
    /\ Call(c, "loop")
    /\ tasks' = tasks - 1
    /\ UNCHANGED <<ongoing, ended, await, urls, faults, proc>>

\* crawlAll's call has returned: awaitEnd begins to sleep on loop_.
AwaitStart ==
    /\ awaitPc = "notStarted"
    /\ ~InCall("main")
    /\ awaitPc' = "sleeping"
    /\ UNCHANGED <<ongoing, ended, tasks, threads, finishCount, urls, faults, proc>>

\* 0.2 seconds later: if(ended_) break; ...
AwaitEnded ==
    /\ awaitPc = "sleeping" /\ LoopFree
    /\ ended
    /\ awaitPc' = "done"
    /\ UNCHANGED <<ongoing, ended, tasks, threads, finishCount, urls, faults, proc>>

\* ... else on to ongoing_crawlings_ ...
AwaitPoll ==
    /\ awaitPc = "sleeping" /\ LoopFree
    /\ ~ended
    /\ awaitPc' = "polled"
    /\ UNCHANGED <<ongoing, ended, tasks, threads, finishCount, urls, faults, proc>>

\* Seeded fault: the idle poll is not counted.
AwaitIdleUncounted(c) ==
    /\ awaitPc = "polled"
    /\ ongoing = 0
    /\ awaitPc' = "called"
    /\ Call(c, "await")
    /\ UNCHANGED <<ongoing, ended, tasks, finishCount, urls, faults, proc>>

\* ... and nothing is going on, so that a dispatch is tried on the spot ...
AwaitIdle(c) ==
    /\ awaitPc = "polled"
    /\ ongoing = 0
    /\ finishCount' = finishCount + 1
    /\ awaitPc' = "called"
    /\ Call(c, "await")
    /\ UNCHANGED <<ongoing, ended, tasks, urls, faults, proc>>

\* ... or something is.
AwaitBusy ==
    /\ awaitPc = "polled"
    /\ ongoing # 0
    /\ finishCount' = 0
    /\ awaitPc' = "sleeping"
    /\ UNCHANGED <<ongoing, ended, tasks, threads, urls, faults, proc>>

\* Seeded fault: the poll that should end the crawl is missed.
AwaitJudgeLate ==
    /\ awaitPc = "called"
    /\ ~InCall("await")
    /\ IF finishCount = 6
         THEN ended' = TRUE /\ awaitPc' = "done"
         ELSE awaitPc' = "sleeping" /\ UNCHANGED ended
    /\ UNCHANGED <<ongoing, tasks, threads, finishCount, urls, faults, proc>>

\* if(finish_count == 5): the fifth idle poll in a row ends the crawl.
AwaitJudge ==
    /\ awaitPc = "called"
    /\ ~InCall("await")
    /\ IF finishCount = 5
         THEN ended' = TRUE /\ awaitPc' = "done"
         ELSE awaitPc' = "sleeping" /\ UNCHANGED ended
    /\ UNCHANGED <<ongoing, tasks, threads, finishCount, urls, faults, proc>>

\* main: app().quit() once awaitEnd is over; running crawls go with it.
Quit ==
    /\ awaitPc = "done"
    /\ proc' = "quit"
    /\ UNCHANGED <<ongoing, ended, tasks, threads, await, urls, faults>>

-----------------------------------------------------------------------------
CallStep(c) ==
    \/ Enter(c) \/ Count(c) \/ Refuse(c) \/ Launch(c)
    \/ Pop(c) \/ Query(c) \/ ClaimWhole(c) \/ ClaimSampled(c) \/ Repop(c) \/ Vet(c)
    \/ Release(c) \/ SetEnd(c)
    \/ Post(c) \/ Crawl(c) \/ Repost(c) \/ Drop(c)
    \/ \E d \in Calls : Handle(c, d)
    \/ Handled(c)

Fault(c) == Throw(c) \/ Rollback(c) \/ Abort(c)

AwaitStep ==
    \/ AwaitStart \/ AwaitEnded \/ AwaitPoll \/ AwaitBusy \/ AwaitJudge
    \/ \E c \in Calls : AwaitIdle(c)

\* The process is gone.
Terminated == proc # "running" /\ UNCHANGED vars

Next ==
    \/ /\ proc = "running"
       /\ \/ \E c \in Calls : CallStep(c) \/ Fault(c) \/ RunTask(c)
          \/ AwaitStep
          \/ Quit
    \/ Terminated

\* Threads are scheduled, requests and queries come back (they have time
\* limits), the loop runs what is posted and its timers fire.  Faults are
\* not fair.
Fairness ==
    /\ \A c \in Calls : WF_vars(proc = "running" /\ CallStep(c))
    /\ WF_vars(proc = "running" /\ \E c \in Calls : RunTask(c))
    /\ SF_vars(proc = "running" /\ AwaitStep)
    /\ WF_vars(proc = "running" /\ Quit)

SafeSpec == Init /\ [][Next]_vars
Spec == SafeSpec /\ Fairness

-----------------------------------------------------------------------------
(* Properties *)

\* Every variable has its type.
TypeOK ==
    /\ ongoing \in Int /\ ended \in BOOLEAN /\ tasks \in Nat
    /\ pc \in [Calls -> PCs]
    /\ caller \in [Calls -> Callers]
    /\ ticket \in [Calls -> Int]
    /\ awaitPc \in {"notStarted", "sleeping", "polled", "called", "done"}
    /\ finishCount \in 0..5
    /\ queued \in Nat /\ rows \in Nat /\ found \in 0..MaxFound /\ full \in BOOLEAN
    /\ faults \in 0..MaxFaults
    /\ proc \in {"running", "quit", "aborted"}

\* ongoing_crawlings_ is exactly the number of Counters alive, whichever of
\* the three ways (a refusal, release(), the end of the frame) each one goes:
\* it never wraps below zero and never keeps a crawl that is over.
CounterExact == ongoing = Cardinality(Holders)

\* Coroutines launched and not over, as -c promises to bound them.
Running == {c \in Calls : pc[c] \in Coroutine \ {"setEnd"}}

\* However the calls of dispatchCrawl interleave, no more than
\* max_concurrent_connections_ crawls are under way.
AtMostMaxConn == Cardinality(Running) =< MaxConn

Busy == {c \in Calls : pc[c] \notin {"idle", "enter"}}

\* Once ended_ is set the crawler only winds down: no call gets past the test
\* of ended_ any more, whoever posted it; those already past it may go on.
WindsDown == [][ended => Busy' \subseteq Busy]_vars

\* The dispatcher implements a bounded pool that does not hang, in spite of
\* calls that are refused just before the crawl they yield to is over.
Pool == INSTANCE CrawlPool WITH waiting <- queued + rows,
                                running <- Cardinality(WithUrl),
                                stopped <- ended \/ proc # "running"
PoolSpec == Pool!Spec
PoolSafe == Pool!SafeSpec

\* Coroutines that are looking for a URL.
Searching == {c \in Calls : pc[c] \in {"pop", "query", "sampled", "whole", "repop", "none"}}

\* A poll of awaitEnd does not overtake a search that is bound to fail.
SearchIsPrompt == AwaitBusy => Holders # Searching \/ queued + rows > 0

\* Provided that, from some time on, finding out that no URL is left takes
\* less than the 0.2 seconds between two polls, awaitEnd returns: either two
\* crawls run dry together or five polls in a row find nothing going on.
PromptEnd == <>[][SearchIsPrompt]_vars => <>(proc # "running")

-----------------------------------------------------------------------------
(* What comments of the code say and the code does not do *)

\* crawler.cpp 290-293: crawling has ended if there is no more URL and "The
\* current crawl is the last one in existance".  But release() returns the
\* number of Counters left, which is 1 when another crawl is still going on.
EndedByLastCrawl ==
    [][\A c \in Calls : SetEnd(c) => Running \ {c} = {}]_vars

\* crawler.hpp 43: awaitEnd "co_returns when the crawler is done".  But each
\* idle poll starts a search, and a search still running at the next poll
\* sets finish_count back.
AwaitEndReturns == <>(proc # "running")

=============================================================================
