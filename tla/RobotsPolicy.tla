----------------------------- MODULE RobotsPolicy -----------------------------
(***************************************************************************)
(* How crawlers know the robots.txt of a host (tlgs/crawler/crawler.cpp,   *)
(* shouldCrawl).  A call asks the policy_cache of its process, then the    *)
(* tables robot_policies_status and robot_policies, then the host itself,  *)
(* and in that case replaces what the tables hold in one transaction.      *)
(*                                                                         *)
(* There is one host here: nothing is shared between two.  A robots.txt is *)
(* the set of paths it disallows, and a path is blocked by its own rule.   *)
(* The transaction is destroyed, which sends its COMMIT, before the call   *)
(* decides, so that it may outlive the call; a call and its transaction    *)
(* share one slot of Calls.                                                *)
(***************************************************************************)
EXTENDS Naturals

CONSTANTS Calls,        \* slots for calls of shouldCrawl
          Procs,        \* processes of the crawler
          ProcOf,       \* the process of each call
          Paths,        \* paths asked for, and the rules that block them
          NoFile,       \* the host serves no robots.txt of a type that is read
          NoPolicy,     \* no entry in the cache, no row in robot_policies_status
          TimeoutLimit, \* timeouts after which a process leaves a host alone
          MaxChanges,   \* bound: times the host changes its robots.txt
          MaxFaults     \* bound: failed requests and statements, processes gone

ASSUME ConstantsAssumption ==
    /\ ProcOf \in [Calls -> Procs]
    /\ \A file \in SUBSET Paths : NoFile # file /\ NoPolicy # file
    /\ NoPolicy \notin [fresh : BOOLEAN, have : BOOLEAN]
    /\ TimeoutLimit \in Nat /\ MaxChanges \in Nat /\ MaxFaults \in Nat

VARIABLES served,    \* what the host serves as /robots.txt
          stored,    \* rows of robot_policies, each with the call that inserted it
          status,    \* the row of robot_policies_status
          cache,     \* policy_cache of each process
          timeouts,  \* host_timeout_count_ of each process
          pc,        \* where each call is
          path,      \* the path it asks about
          policy,    \* its disallowed_path, NoFile if the host has none
          tx,        \* how far its transaction is
          doomed,    \* the rows its DELETE has found
          verdict,   \* what it returned, and why
          changes,   \* changes of robots.txt so far
          faults,    \* faults so far
          opened,    \* paths that some robots.txt has left open so far
          closed,    \* paths that some robots.txt has disallowed so far
          last,      \* the robots.txt of the refresh that committed last
          missed,    \* the calls whose COMMIT came after the DELETE of each
          heirs      \* the call that committed last and those it had missed

host   == <<served, changes, opened, closed>>
tables == <<stored, status, last, heirs>>
memory == <<cache, timeouts>>
call   == <<pc, path, policy, verdict>>
trans  == <<tx, doomed, missed>>
vars   == <<host, tables, memory, call, trans, faults>>

Rules(file) == IF file = NoFile THEN {} ELSE file

Rows == [rule : Paths, by : Calls]
StatusRows == [fresh : BOOLEAN, have : BOOLEAN]

\* Seeded fault: the rows are taken for the rules.
RulesInAsRows(rows) == rows

RulesIn(rows) == {r.rule : r \in rows}

\* Where its transaction is when a call has begun one: before its DELETE
\* ("begun"), in it ("waiting" for rows that others have locked), before the
\* INSERT of the status ("deleted"), destroyed ("closing").
Txs == {"none", "begun", "waiting", "deleted", "closing"}
PCs == {"idle", "status", "fetch", "store", "rules", "decide"}
HasDeleted(c) == tx[c] \in {"waiting", "deleted", "closing"}

Verdicts == {"none", "crawl", "refuse", "down", "unasked"}

Init ==
    /\ served \in {NoFile} \cup SUBSET Paths
    /\ stored = {} /\ status = NoPolicy
    /\ cache = [p \in Procs |-> NoPolicy]
    /\ timeouts = [p \in Procs |-> 0]
    /\ pc = [c \in Calls |-> "idle"]
    /\ path \in [Calls -> Paths]
    /\ policy = [c \in Calls |-> {}]
    /\ tx = [c \in Calls |-> "none"]
    /\ doomed = [c \in Calls |-> {}]
    /\ verdict = [c \in Calls |-> "none"]
    /\ changes = 0 /\ faults = 0
    /\ opened = Paths \ Rules(served) /\ closed = Rules(served)
    /\ last = NoFile
    /\ missed = [c \in Calls |-> {}] /\ heirs = {}

Fault == faults < MaxFaults /\ faults' = faults + 1

Judged(file, u) == IF u \in Rules(file) THEN "refuse" ELSE "crawl"

\* The call returns.
Return(c, v) ==
    /\ pc' = [pc EXCEPT ![c] = "idle"]
    /\ verdict' = [verdict EXCEPT ![c] = v]

-----------------------------------------------------------------------------
(* A call that is answered from memory *)

\* A URL that is no good, not of Gemini or blacklisted does not get here.
Begin(c, u) ==
    /\ pc[c] = "idle" /\ tx[c] = "none"
    /\ path' = [path EXCEPT ![c] = u]
    /\ UNCHANGED <<host, tables, memory, trans, faults>>

IsDown(p) == timeouts[p] > TimeoutLimit

HostIsDown(c, u) ==
    /\ Begin(c, u)
    /\ IsDown(ProcOf[c])
    /\ Return(c, "down")
    /\ UNCHANGED policy

\* findAndFetch finds the policy.
Cached(c, u) ==
    /\ Begin(c, u)
    /\ ~IsDown(ProcOf[c]) /\ cache[ProcOf[c]] # NoPolicy
    /\ Return(c, Judged(cache[ProcOf[c]], u))
    /\ UNCHANGED policy

Miss(c, u) ==
    /\ Begin(c, u)
    /\ ~IsDown(ProcOf[c]) /\ cache[ProcOf[c]] = NoPolicy
    /\ pc' = [pc EXCEPT ![c] = "status"]
    /\ verdict' = [verdict EXCEPT ![c] = "none"]
    /\ policy' = [policy EXCEPT ![c] = {}]

-----------------------------------------------------------------------------
(* A call that asks the tables *)

\* SELECT have_policy ... last_crawled_at > CURRENT_TIMESTAMP - INTERVAL '2' DAY
SelectStatus(c) ==
    /\ pc[c] = "status"
    /\ pc' = [pc EXCEPT ![c] = IF status = NoPolicy THEN "fetch"
                               ELSE IF ~status.fresh THEN "fetch"
                               ELSE IF status.have THEN "rules" ELSE "decide"]
    /\ UNCHANGED <<host, tables, memory, path, policy, verdict, trans, faults>>

\* SELECT disallowed FROM robot_policies
SelectRules(c) ==
    /\ pc[c] = "rules"
    /\ policy' = [policy EXCEPT ![c] = RulesIn(stored)]
    /\ pc' = [pc EXCEPT ![c] = "decide"]
    /\ UNCHANGED <<host, tables, memory, path, verdict, trans, faults>>

\* isPathBlocked, and the insertion in the cache for 60 s.
Decide(c) ==
    /\ pc[c] = "decide"
    /\ cache' = [cache EXCEPT ![ProcOf[c]] = Rules(policy[c])]
    /\ Return(c, Judged(policy[c], path[c]))
    /\ UNCHANGED <<host, tables, timeouts, path, policy, trans, faults>>

\* A SELECT fails: the exception escapes.
SelectFails(c) ==
    /\ pc[c] \in {"status", "rules"}
    /\ Fault
    /\ Return(c, "none")
    /\ UNCHANGED <<host, tables, memory, path, policy, trans>>

-----------------------------------------------------------------------------
(* A call that asks the host *)

\* The request fails: crawl.  Time-outs and network failures are counted.
FetchFails(c) ==
    /\ pc[c] = "fetch"
    /\ Fault
    /\ \/ timeouts' = [timeouts EXCEPT ![ProcOf[c]] = @ + 1]
       \/ UNCHANGED timeouts
    /\ Return(c, "unasked")
    /\ UNCHANGED <<host, tables, cache, path, policy, trans>>

\* An answer: parseRobotsTxt of what is served.
Fetch(c) ==
    /\ pc[c] = "fetch"
    /\ policy' = [policy EXCEPT ![c] = served]
    /\ pc' = [pc EXCEPT ![c] = "store"]
    /\ tx' = [tx EXCEPT ![c] = "begun"]
    /\ UNCHANGED <<host, tables, memory, path, verdict, doomed, missed, faults>>

\* Seeded fault: the old rules are not deleted.
DeleteNothing(c) ==
    /\ tx[c] = "begun"
    /\ tx' = [tx EXCEPT ![c] = "waiting"]
    /\ UNCHANGED <<host, tables, memory, call, doomed, missed, faults>>

\* Seeded fault: the DELETE is not part of the transaction.
DeleteAtOnce(c) ==
    /\ tx[c] = "begun"
    /\ stored' = {}
    /\ tx' = [tx EXCEPT ![c] = "waiting"]
    /\ UNCHANGED <<host, status, last, heirs, memory, call, doomed, missed, faults>>

\* DELETE FROM robot_policies: the rows that are committed now.
Delete(c) ==
    /\ tx[c] = "begun"
    /\ doomed' = [doomed EXCEPT ![c] = stored]
    /\ tx' = [tx EXCEPT ![c] = "waiting"]
    /\ UNCHANGED <<host, tables, memory, call, missed, faults>>

\* The DELETE ends when no other transaction has its rows locked.  The INSERTs
\* that follow are seen by nobody before the COMMIT.
Deleted(c) ==
    /\ tx[c] = "waiting"
    /\ \A d \in Calls \ {c} :
          tx[d] \in {"deleted", "closing"} => doomed[d] \cap doomed[c] = {}
    /\ tx' = [tx EXCEPT ![c] = "deleted"]
    /\ UNCHANGED <<host, tables, memory, call, doomed, missed, faults>>

\* INSERT INTO robot_policies_status ... ON CONFLICT ..., one transaction at a
\* time; t is destroyed, its COMMIT is sent and nobody waits for it.
Upsert(c) ==
    /\ tx[c] = "deleted"
    /\ \A d \in Calls : tx[d] # "closing"
    /\ tx' = [tx EXCEPT ![c] = "closing"]
    /\ pc' = [pc EXCEPT ![c] = "decide"]
    /\ UNCHANGED <<host, tables, memory, path, policy, verdict, doomed, missed, faults>>

\* Seeded fault: ON CONFLICT does not set have_policy.
CommitKept(c) ==
    /\ tx[c] = "closing"
    /\ stored' = (stored \ doomed[c]) \cup {[rule |-> u, by |-> c] : u \in Rules(policy[c])}
    /\ status' = [fresh |-> TRUE,
                  have |-> IF status = NoPolicy THEN policy[c] # NoFile ELSE status.have]
    /\ last' = policy[c]
    /\ heirs' = {c} \cup missed[c]
    /\ missed' = [d \in Calls |-> IF d # c /\ HasDeleted(d) THEN missed[d] \cup {c} ELSE {}]
    /\ tx' = [tx EXCEPT ![c] = "none"]
    /\ doomed' = [d \in Calls |-> IF d = c THEN {} ELSE doomed[d] \ doomed[c]]
    /\ UNCHANGED <<host, memory, call, faults>>

\* Rows that are gone are gone for the DELETEs that wait for them too.
Commit(c) ==
    /\ tx[c] = "closing"
    /\ stored' = (stored \ doomed[c]) \cup {[rule |-> u, by |-> c] : u \in Rules(policy[c])}
    /\ status' = [fresh |-> TRUE, have |-> policy[c] # NoFile]
    /\ last' = policy[c]
    /\ heirs' = {c} \cup missed[c]
    /\ missed' = [d \in Calls |-> IF d # c /\ HasDeleted(d) THEN missed[d] \cup {c} ELSE {}]
    /\ tx' = [tx EXCEPT ![c] = "none"]
    /\ doomed' = [d \in Calls |-> IF d = c THEN {} ELSE doomed[d] \ doomed[c]]
    /\ UNCHANGED <<host, memory, call, faults>>

\* A statement fails, a deadlock is found or the COMMIT is lost: the call goes
\* on with the policy it has read.
RollBack(c) ==
    /\ tx[c] # "none"
    /\ Fault
    /\ tx' = [tx EXCEPT ![c] = "none"]
    /\ doomed' = [doomed EXCEPT ![c] = {}]
    /\ missed' = [missed EXCEPT ![c] = {}]
    /\ pc' = [pc EXCEPT ![c] = IF @ = "store" THEN "decide" ELSE @]
    /\ UNCHANGED <<host, tables, memory, path, policy, verdict>>

-----------------------------------------------------------------------------
(* The host, time and the processes *)

Change ==
    /\ changes < MaxChanges
    /\ changes' = changes + 1
    /\ served' \in ({NoFile} \cup SUBSET Paths) \ {served}
    /\ opened' = opened \cup (Paths \ Rules(served'))
    /\ closed' = closed \cup Rules(served')
    /\ UNCHANGED <<tables, memory, call, trans, faults>>

\* Two days after the refresh.
StatusAges ==
    /\ status # NoPolicy /\ status.fresh
    /\ status' = [status EXCEPT !.fresh = FALSE]
    /\ UNCHANGED <<host, stored, last, heirs, memory, call, trans, faults>>

\* 60 s after the policy was put in, or was last asked for.
CacheExpires(p) ==
    /\ cache[p] # NoPolicy
    /\ cache' = [cache EXCEPT ![p] = NoPolicy]
    /\ UNCHANGED <<host, tables, timeouts, call, trans, faults>>

\* crawlPage counts the time-outs of pages too.
PageTimesOut(p) ==
    /\ Fault
    /\ timeouts' = [timeouts EXCEPT ![p] = @ + 1]
    /\ UNCHANGED <<host, tables, cache, call, trans>>

\* The process is gone and starts again; its open transactions are rolled back,
\* and of those that were closing too (one that was not is a Commit before).
Restart(p) ==
    /\ Fault
    /\ cache' = [cache EXCEPT ![p] = NoPolicy]
    /\ timeouts' = [timeouts EXCEPT ![p] = 0]
    /\ pc' = [c \in Calls |-> IF ProcOf[c] = p THEN "idle" ELSE pc[c]]
    /\ policy' = [c \in Calls |-> IF ProcOf[c] = p THEN {} ELSE policy[c]]
    /\ verdict' = [c \in Calls |-> IF ProcOf[c] = p THEN "none" ELSE verdict[c]]
    /\ tx' = [c \in Calls |-> IF ProcOf[c] = p THEN "none" ELSE tx[c]]
    /\ doomed' = [c \in Calls |-> IF ProcOf[c] = p THEN {} ELSE doomed[c]]
    /\ missed' = [c \in Calls |-> IF ProcOf[c] = p THEN {} ELSE missed[c]]
    /\ UNCHANGED <<host, tables, path>>

-----------------------------------------------------------------------------
Start(c) == \E u \in Paths : HostIsDown(c, u) \/ Cached(c, u) \/ Miss(c, u)

Step(c) ==
    \/ SelectStatus(c) \/ SelectRules(c) \/ Decide(c) \/ Fetch(c)
    \/ Delete(c) \/ Deleted(c) \/ Upsert(c) \/ Commit(c)

Next ==
    \/ \E c \in Calls : Start(c) \/ Step(c) \/ SelectFails(c) \/ FetchFails(c) \/ RollBack(c)
    \/ \E p \in Procs : CacheExpires(p) \/ PageTimesOut(p) \/ Restart(p)
    \/ Change \/ StatusAges

\* Pages of the host are crawled for ever, requests and statements come to an
\* end, and days pass.
Fairness ==
    /\ \A c \in Calls : WF_vars(Start(c)) /\ WF_vars(Step(c))
    /\ WF_vars(StatusAges)

SafeSpec == Init /\ [][Next]_vars
Spec == SafeSpec /\ Fairness

-----------------------------------------------------------------------------
(* Properties *)

TypeOK ==
    /\ served \in {NoFile} \cup SUBSET Paths
    /\ stored \subseteq Rows
    /\ status \in StatusRows \cup {NoPolicy}
    /\ cache \in [Procs -> {NoPolicy} \cup SUBSET Paths]
    /\ timeouts \in [Procs -> Nat]
    /\ pc \in [Calls -> PCs]
    /\ path \in [Calls -> Paths]
    /\ policy \in [Calls -> {NoFile} \cup SUBSET Paths]
    /\ tx \in [Calls -> Txs]
    /\ doomed \in [Calls -> SUBSET Rows]
    /\ verdict \in [Calls -> Verdicts]
    /\ changes \in 0..MaxChanges /\ faults \in 0..MaxFaults
    /\ opened \subseteq Paths /\ closed \subseteq Paths
    /\ last \in {NoFile} \cup SUBSET Paths
    /\ missed \in [Calls -> SUBSET Calls] /\ heirs \subseteq Calls

\* A path that every robots.txt of the host has disallowed is not crawled when
\* the host could be asked, and one that none has disallowed is not refused:
\* no call sees the tables between the deletion of old rules and the insertion
\* of new ones, in the two SELECTs it makes or in the copy it caches.
VerdictsWereServed ==
    \A c \in Calls : /\ verdict[c] = "crawl" => path[c] \in opened
                     /\ verdict[c] = "refuse" => path[c] \in closed

\* Concurrent refreshes, of one process or of several, neither lose the rules
\* of the one that commits last nor heap up those of older ones: the tables hold
\* every rule of the last refresh, say whether it found a robots.txt, and hold no
\* other rules than of refreshes that committed while it was under way.
LastRefreshIsStored ==
    /\ Rules(last) \subseteq RulesIn(stored)
    /\ status # NoPolicy => (status.have <=> last # NoFile)
    /\ \A r \in stored : r.by \in heirs

\* When the host leaves its robots.txt alone, calls come to judge by it, if the
\* entries in the caches do expire: nothing old stays in the tables for ever.
PolicyCatchesUp ==
    (\A p \in Procs : []<>(cache[p] = NoPolicy)) =>
        <>[](\A c \in Calls :
                verdict[c] \in {"crawl", "refuse"} => verdict[c] = Judged(served, path[c]))

-----------------------------------------------------------------------------
(* What a comment says and the code does not do *)

\* crawler.cpp 185-186: to request robots.txt several times at once "does not
\* cause any problems otherwise".  But of two refreshes whose DELETEs both ran
\* before either COMMIT, each keeps the rules that the other inserts, so that
\* rules the host has withdrawn are obeyed for two days more.
RefreshesDoNotMix ==
    (\A c \in Calls : tx[c] = "none") /\ last # NoFile => RulesIn(stored) = last

=============================================================================
