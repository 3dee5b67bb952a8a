------------------------- MODULE CrawlDispatchProofs -------------------------
(***************************************************************************)
(* What holds of the dispatcher for every number of slots, connections,    *)
(* URLs and faults: its types, that ongoing_crawlings_ counts the Counters *)
(* alive, that -c bounds the crawls, that the crawler winds down once      *)
(* ended_ is set, that it implements CrawlPool's safety part, and that its *)
(* work runs down.                                                         *)
(***************************************************************************)
EXTENDS CrawlDispatch, FiniteSetTheorems, TLAPS

\* The calls that will be, or are, coroutines: those in "check" that saw a
\* free connection when they took their Counter are as good as launched.
Winners == {c \in Calls : \/ pc[c] \in Coroutine \ {"setEnd"}
                          \/ pc[c] = "check" /\ Admitted(c)}

\* awaitEnd goes back to sleep only before its fifth idle poll.
PollsCounted == awaitPc \in {"notStarted", "sleeping", "polled"} => finishCount < 5

\* The inductive invariant.
IInv == /\ TypeOK
        /\ PollsCounted
        /\ CounterExact
        /\ Cardinality(Winners) =< MaxConn

-----------------------------------------------------------------------------
(* Finite sets of calls *)

LEMMA CallSets ==
    ASSUME NEW S \in SUBSET Calls
    PROVE  IsFiniteSet(S) /\ Cardinality(S) \in Nat
  BY FS_Subset, FS_CardinalityType, ConstantsAssumption DEF ConstantsAssumption

LEMMA CallAdded ==
    ASSUME NEW S \in SUBSET Calls, NEW c \in Calls, c \notin S
    PROVE  Cardinality(S \cup {c}) = Cardinality(S) + 1
  BY CallSets, FS_AddElement

LEMMA CallRemoved ==
    ASSUME NEW S \in SUBSET Calls, NEW c \in S
    PROVE  Cardinality(S \ {c}) = Cardinality(S) - 1
  BY CallSets, FS_RemoveElement

LEMMA CallSubset ==
    ASSUME NEW S \in SUBSET Calls, NEW T \in SUBSET S
    PROVE  Cardinality(T) =< Cardinality(S)
  BY CallSets, FS_Subset

-----------------------------------------------------------------------------
(* Type correctness *)

Typed == TypeOK /\ PollsCounted

LEMMA InitTyped == Init => Typed
<1> SUFFICES ASSUME Init
             PROVE  Typed
  OBVIOUS
<1> USE ConstantsAssumption DEF Init, ConstantsAssumption
<1>1. pc \in [Calls -> PCs]
  BY DEF PCs, Sync
<1>2. caller \in [Calls -> Callers] /\ ticket \in [Calls -> Int]
  BY DEF Callers
<1>3. MaxSeeds \in Nat /\ MaxRows \in Nat /\ MaxFound \in Nat /\ MaxFaults \in Nat
  OBVIOUS
<1>4. queued \in Nat /\ rows \in Nat /\ found \in 0..MaxFound /\ faults \in 0..MaxFaults
  BY <1>3
<1>5. ongoing \in Int /\ tasks \in Nat
  OBVIOUS
<1>6. ended \in BOOLEAN /\ full \in BOOLEAN
  BY Zenon
<1>7. /\ awaitPc \in {"notStarted", "sleeping", "polled", "called", "done"}
      /\ finishCount \in 0..5 /\ finishCount < 5
      /\ proc \in {"running", "quit", "aborted"}
  OBVIOUS
<1>. QED
  BY <1>1, <1>2, <1>4, <1>5, <1>6, <1>7 DEF Typed, TypeOK, PollsCounted

LEMMA CallStepTyped ==
    ASSUME Typed, NEW c \in Calls, CallStep(c)
    PROVE  Typed'
<1> USE ConstantsAssumption DEF Typed, TypeOK, PollsCounted, ConstantsAssumption,
        PCs, Sync, Coroutine, Callers, Goto, Return, threads, await, urls, Free, Enqueued
<1>1. CASE Enter(c)
  BY <1>1 DEF Enter
<1>2. CASE Count(c)
  BY <1>2 DEF Count
<1>3. CASE Refuse(c)
  BY <1>3 DEF Refuse
<1>4. CASE Launch(c)
  BY <1>4 DEF Launch
<1>5. CASE Pop(c)
  BY <1>5 DEF Pop
<1>6. CASE Query(c)
  BY <1>6 DEF Query
<1>17. CASE ClaimWhole(c)
  BY <1>17 DEF ClaimWhole
<1>18. CASE ClaimSampled(c)
  <2>1. full' \in BOOLEAN
    BY Zenon, <1>18 DEF ClaimSampled
  <2>2. \/ UNCHANGED <<queued, rows>>
        \/ \E n \in 1..rows : rows' = rows - n /\ queued' = queued + n
    BY <1>18 DEF ClaimSampled
  <2>3. queued' \in Nat /\ rows' \in Nat
    BY <2>2
  <2>4. pc' \in [Calls -> PCs]
    BY <1>18 DEF ClaimSampled
  <2>. QED
    BY <1>18, <2>1, <2>3, <2>4 DEF ClaimSampled
<1>7. CASE Repop(c)
  BY <1>7 DEF Repop
<1>8. CASE Vet(c)
  BY <1>8 DEF Vet
<1>9. CASE Release(c)
  BY <1>9 DEF Release
<1>10. CASE SetEnd(c)
  BY <1>10 DEF SetEnd
<1>11. CASE Post(c)
  BY <1>11 DEF Post
<1>12. CASE Crawl(c)
  BY <1>12 DEF Crawl
<1>13. CASE Repost(c)
  BY <1>13 DEF Repost
<1>14. CASE Drop(c)
  BY <1>14 DEF Drop
<1>15. ASSUME NEW d \in Calls, Handle(c, d)
       PROVE  Typed'
  BY <1>15 DEF Handle
<1>16. CASE Handled(c)
  BY <1>16 DEF Handled
<1>. QED
  BY <1>1, <1>2, <1>3, <1>4, <1>5, <1>6, <1>7, <1>8, <1>9, <1>10, <1>11,
     <1>12, <1>13, <1>14, <1>15, <1>16, <1>17, <1>18 DEF CallStep

LEMMA OtherStepTyped ==
    ASSUME Typed
    PROVE  /\ \A c \in Calls : Fault(c) \/ RunTask(c) => Typed'
           /\ AwaitStep \/ Quit \/ UNCHANGED vars => Typed'
<1> USE ConstantsAssumption DEF Typed, TypeOK, PollsCounted, ConstantsAssumption,
        PCs, Sync, Coroutine, Callers, Goto, Call, threads, await, urls, Free
<1>1. ASSUME NEW c \in Calls, Throw(c)
      PROVE  Typed'
  BY <1>1 DEF Throw
<1>11. ASSUME NEW c \in Calls, Rollback(c)
       PROVE  Typed'
  BY <1>11 DEF Rollback
<1>12. CASE AwaitPoll
  BY <1>12 DEF AwaitPoll
<1>2. ASSUME NEW c \in Calls, Abort(c)
      PROVE  Typed'
  BY <1>2 DEF Abort
<1>3. ASSUME NEW c \in Calls, RunTask(c)
      PROVE  Typed'
  BY <1>3 DEF RunTask
<1>4. CASE AwaitStart
  BY <1>4 DEF AwaitStart
<1>5. CASE AwaitEnded
  BY <1>5 DEF AwaitEnded
<1>6. CASE AwaitBusy
  BY <1>6 DEF AwaitBusy
<1>7. CASE AwaitJudge
  <2>1. CASE finishCount = 5
    BY <1>7, <2>1 DEF AwaitJudge
  <2>2. CASE finishCount # 5
    BY <1>7, <2>2 DEF AwaitJudge
  <2>. QED
    BY <2>1, <2>2
<1>8. ASSUME NEW c \in Calls, AwaitIdle(c)
      PROVE  Typed'
  BY <1>8 DEF AwaitIdle
<1>9. CASE Quit
  BY <1>9 DEF Quit
<1>10. CASE UNCHANGED vars
  BY <1>10 DEF vars
<1>. QED
  BY <1>1, <1>2, <1>3, <1>4, <1>5, <1>6, <1>7, <1>8, <1>9, <1>10, <1>11, <1>12
  DEF Fault, AwaitStep

\* Every variable keeps its type, whatever the constants.
THEOREM TypeCorrect == SafeSpec => []TypeOK
<1>1. Typed /\ [Next]_vars => Typed'
  BY CallStepTyped, OtherStepTyped DEF Next, Terminated
<1>. QED
  BY InitTyped, <1>1, PTL DEF SafeSpec, Typed

-----------------------------------------------------------------------------
(* ongoing_crawlings_ and the bound on crawls *)

Counted == CounterExact /\ Cardinality(Winners) =< MaxConn

\* A Counter that is in use is a Counter that is held.
LEMMA WinnersHold == Winners \subseteq Holders
  BY DEF Winners, Holders

LEMMA RunningWin == Running \subseteq Winners
  BY DEF Winners, Running

LEMMA InitCounted == Init => Counted
<1> SUFFICES ASSUME Init
             PROVE  Counted
  OBVIOUS
<1>1. Holders = {}
  BY DEF Init, Holders, Coroutine
<1>2. Winners = {}
  BY <1>1, WinnersHold
<1>3. ongoing = 0 /\ MaxConn \in Nat
  BY ConstantsAssumption DEF Init, ConstantsAssumption
<1>. QED
  BY <1>1, <1>2, <1>3, FS_EmptySet DEF Counted, CounterExact

\* A step that neither takes nor gives back a Counter, nor launches a call
\* that was refused.
Quiet == ongoing' = ongoing /\ Holders' = Holders /\ Winners' \subseteq Winners

LEMMA QuietCounted ==
    ASSUME Counted, Quiet
    PROVE  Counted'
<1>1. Winners \in SUBSET Calls /\ Winners' \in SUBSET Winners
  BY DEF Winners, Quiet
<1>2. Cardinality(Winners') =< Cardinality(Winners)
  BY <1>1, CallSubset
<1>3. Cardinality(Winners') \in Nat /\ Cardinality(Winners) \in Nat /\ MaxConn \in Nat
  BY <1>1, CallSets, ConstantsAssumption DEF ConstantsAssumption
<1>. QED
  BY <1>2, <1>3 DEF Counted, CounterExact, Quiet

\* A step that gives back the Counter of c.
LEMMA ReleaseCounted ==
    ASSUME Counted, NEW c \in Holders,
           ongoing' = ongoing - 1, Holders' = Holders \ {c}, Winners' \subseteq Winners
    PROVE  Counted'
<1>1. Winners \in SUBSET Calls /\ Winners' \in SUBSET Winners /\ Holders \in SUBSET Calls
  BY DEF Winners, Holders
<1>2. Cardinality(Winners') =< Cardinality(Winners)
  BY <1>1, CallSubset
<1>3. Cardinality(Winners') \in Nat /\ Cardinality(Winners) \in Nat /\ MaxConn \in Nat
  BY <1>1, CallSets, ConstantsAssumption DEF ConstantsAssumption
<1>4. Cardinality(Holders') = Cardinality(Holders) - 1
  BY <1>1, CallRemoved
<1>. QED
  BY <1>2, <1>3, <1>4 DEF Counted, CounterExact

\* The heart of the matter: among the Counters alive, a call that reads less
\* than MaxConn is one of at most MaxConn, for all winners hold a Counter.
LEMMA CountCounted ==
    ASSUME TypeOK, Counted, NEW c \in Calls, Count(c)
    PROVE  Counted'
<1> USE DEF Count, Goto, TypeOK
<1>1. c \notin Holders /\ Holders \in SUBSET Calls /\ Winners \in SUBSET Holders
  BY WinnersHold DEF Holders, Coroutine
<1>2. Holders' = Holders \cup {c}
  BY DEF Holders, Coroutine
<1>3. Cardinality(Holders') = ongoing'
  BY <1>1, <1>2, CallAdded DEF Counted, CounterExact
<1>4. Cardinality(Winners') =< MaxConn
  <2>0. /\ Cardinality(Winners) \in Nat /\ Cardinality(Holders) \in Nat
        /\ MaxConn \in Nat
    BY <1>1, CallSets, ConstantsAssumption DEF ConstantsAssumption
  <2>1. CASE ongoing < MaxConn
    <3>1. Winners' = Winners \cup {c}
      BY <2>1 DEF Winners, Coroutine, Admitted
    <3>2. Cardinality(Winners') = Cardinality(Winners) + 1
      BY <1>1, <3>1, CallAdded
    <3>3. Cardinality(Winners) =< Cardinality(Holders)
      BY <1>1, CallSubset
    <3>. QED
      BY <2>0, <2>1, <3>2, <3>3 DEF Counted, CounterExact
  <2>2. CASE ~(ongoing < MaxConn)
    <3>1. Winners' = Winners
      BY <2>2 DEF Winners, Coroutine, Admitted
    <3>. QED
      BY <3>1 DEF Counted
  <2>. QED
    BY <2>1, <2>2
<1>. QED
  BY <1>3, <1>4 DEF Counted, CounterExact

LEMMA CallStepCounted ==
    ASSUME TypeOK, Counted, NEW c \in Calls, CallStep(c)
    PROVE  Counted'
<1> USE DEF TypeOK, Goto, Return, Holders, Winners, Coroutine, Admitted
<1>1. CASE Enter(c)
  <2>. Quiet
    BY <1>1 DEF Enter, Quiet
  <2>. QED
    BY QuietCounted
<1>2. CASE Count(c)
  BY <1>2, CountCounted
<1>3. CASE Refuse(c)
  <2>. c \in Holders /\ ongoing' = ongoing - 1 /\ Holders' = Holders \ {c} /\ Winners' \subseteq Winners
    BY <1>3 DEF Refuse
  <2>. QED
    BY ReleaseCounted
<1>4. CASE Launch(c)
  <2>. Quiet
    BY <1>4 DEF Launch, Quiet
  <2>. QED
    BY QuietCounted
<1>5. CASE \/ Pop(c) \/ Query(c) \/ Repop(c) \/ Vet(c)
           \/ SetEnd(c) \/ Post(c) \/ Crawl(c) \/ Repost(c) \/ Handled(c)
  <2>. Quiet
    BY <1>5 DEF Pop, Query, Repop, Vet, SetEnd, Post, Crawl, Repost, Handled, Quiet
  <2>. QED
    BY QuietCounted
<1>9. CASE ClaimWhole(c) \/ ClaimSampled(c)
  <2>1. ongoing' = ongoing /\ ticket' = ticket
    BY <1>9 DEF ClaimWhole, ClaimSampled
  <2>2. /\ pc[c] \in {"sampled", "whole"}
        /\ Goto(c, "query") \/ Goto(c, "none") \/ Goto(c, "repop")
    BY <1>9 DEF ClaimWhole, ClaimSampled, Enqueued
  <2>. Quiet
    BY <2>1, <2>2 DEF Quiet
  <2>. QED
    BY QuietCounted
<1>6. CASE Release(c)
  <2>. c \in Holders /\ ongoing' = ongoing - 1 /\ Holders' = Holders \ {c} /\ Winners' \subseteq Winners
    BY <1>6 DEF Release
  <2>. QED
    BY ReleaseCounted
<1>7. CASE Drop(c)
  <2>. c \in Holders /\ ongoing' = ongoing - 1 /\ Holders' = Holders \ {c} /\ Winners' \subseteq Winners
    BY <1>7 DEF Drop
  <2>. QED
    BY ReleaseCounted
<1>8. ASSUME NEW d \in Calls, Handle(c, d)
      PROVE  Counted'
  <2>. Quiet
    BY <1>8 DEF Handle, Free, Quiet
  <2>. QED
    BY QuietCounted
<1>. QED
  BY <1>1, <1>2, <1>3, <1>4, <1>5, <1>6, <1>7, <1>8, <1>9 DEF CallStep

LEMMA OtherStepCounted ==
    ASSUME TypeOK, Counted
    PROVE  /\ \A c \in Calls : Fault(c) \/ RunTask(c) => Counted'
           /\ AwaitStep \/ Quit \/ UNCHANGED vars => Counted'
<1> USE DEF TypeOK, Goto, Call, Free, Holders, Winners, Coroutine, Admitted, Quiet, threads
<1>1. ASSUME NEW c \in Calls, Throw(c) \/ Rollback(c) \/ Abort(c)
      PROVE  Quiet
  BY <1>1 DEF Throw, Rollback, Abort
<1>2. ASSUME NEW c \in Calls, RunTask(c) \/ AwaitIdle(c)
      PROVE  Quiet
  BY <1>2 DEF RunTask, AwaitIdle
<1>3. AwaitStart \/ AwaitEnded \/ AwaitPoll \/ AwaitBusy \/ AwaitJudge \/ Quit \/ UNCHANGED vars
      => Quiet
  BY DEF AwaitStart, AwaitEnded, AwaitPoll, AwaitBusy, AwaitJudge, Quit, vars
<1>. QED
  BY <1>1, <1>2, <1>3, QuietCounted DEF Fault, AwaitStep

\* ongoing_crawlings_ is the number of Counters alive, and the coroutines
\* are within -c, for every number of calls in flight.
THEOREM IndInvariant == SafeSpec => []IInv
<1>1. Init => IInv
  BY InitTyped, InitCounted DEF IInv, Typed, Counted
<1>2. IInv /\ [Next]_vars => IInv'
  <2> SUFFICES ASSUME IInv, [Next]_vars
               PROVE  IInv'
    OBVIOUS
  <2>1. Typed /\ Counted
    BY DEF IInv, Typed, Counted
  <2>2. Typed'
    BY <2>1, CallStepTyped, OtherStepTyped DEF Next, Terminated
  <2>3. Counted'
    BY <2>1, CallStepCounted, OtherStepCounted DEF Next, Terminated, Typed
  <2>. QED
    BY <2>2, <2>3 DEF IInv, Typed, Counted
<1>. QED
  BY <1>1, <1>2, PTL DEF SafeSpec

THEOREM CounterIsExact == SafeSpec => []CounterExact
<1>1. IInv => CounterExact
  BY DEF IInv
<1>. QED
  BY <1>1, IndInvariant, PTL

\* No interleaving of dispatchCrawl calls starts a crawl too many.
THEOREM ConnectionsBounded == SafeSpec => []AtMostMaxConn
<1>1. IInv => AtMostMaxConn
  <2> SUFFICES ASSUME IInv
               PROVE  AtMostMaxConn
    OBVIOUS
  <2>1. Winners \in SUBSET Calls /\ Running \in SUBSET Winners
    BY RunningWin DEF Winners
  <2>2. Cardinality(Running) =< Cardinality(Winners)
    BY <2>1, CallSubset
  <2>3. /\ Cardinality(Running) \in Nat /\ Cardinality(Winners) \in Nat
        /\ MaxConn \in Nat
    BY <2>1, CallSets, ConstantsAssumption DEF ConstantsAssumption
  <2>. QED
    BY <2>2, <2>3 DEF IInv, AtMostMaxConn
<1>. QED
  BY <1>1, IndInvariant, PTL

-----------------------------------------------------------------------------
(* After ended_ *)

\* Once ended_ is set, no call passes its test: the calls past it only thin
\* out, and the crawler ends when they have.
THEOREM WindDown == SafeSpec => WindsDown
<1>1. TypeOK /\ [Next]_vars => [ended => Busy' \subseteq Busy]_vars
  <2> SUFFICES ASSUME TypeOK, Next, ended
               PROVE  Busy' \subseteq Busy
    OBVIOUS
  <2> USE DEF TypeOK, Busy, Goto, Return, Call, Free, threads
  <2>1. ASSUME NEW c \in Calls, CallStep(c)
        PROVE  Busy' \subseteq Busy
    <3>1. CASE Enter(c)
      BY <3>1 DEF Enter
    <3>2. CASE Count(c) \/ Refuse(c) \/ Launch(c) \/ Pop(c) \/ Query(c) \/ Repop(c) \/ Vet(c)
      BY <3>2 DEF Count, Refuse, Launch, Pop, Query, Repop, Vet
    <3>5. CASE ClaimWhole(c) \/ ClaimSampled(c)
      BY <3>5 DEF ClaimWhole, ClaimSampled, Enqueued
    <3>3. CASE Release(c) \/ SetEnd(c) \/ Post(c) \/ Crawl(c) \/ Repost(c) \/ Drop(c) \/ Handled(c)
      BY <3>3 DEF Release, SetEnd, Post, Crawl, Repost, Drop, Handled
    <3>4. ASSUME NEW d \in Calls, Handle(c, d)
          PROVE  Busy' \subseteq Busy
      BY <3>4 DEF Handle
    <3>. QED
      BY <2>1, <3>1, <3>2, <3>3, <3>4, <3>5 DEF CallStep
  <2>2. ASSUME NEW c \in Calls, Fault(c) \/ RunTask(c) \/ AwaitIdle(c)
        PROVE  Busy' \subseteq Busy
    BY <2>2 DEF Fault, Throw, Rollback, Abort, RunTask, AwaitIdle
  <2>3. CASE AwaitStart \/ AwaitEnded \/ AwaitPoll \/ AwaitBusy \/ AwaitJudge \/ Quit \/ Terminated
    BY <2>3 DEF AwaitStart, AwaitEnded, AwaitPoll, AwaitBusy, AwaitJudge, Quit, Terminated, vars
  <2>. QED
    BY <2>1, <2>2, <2>3 DEF Next, AwaitStep
<1>. QED
  BY <1>1, TypeCorrect, PTL DEF SafeSpec, WindsDown

-----------------------------------------------------------------------------
(* The dispatcher implements the safety part of CrawlPool *)

LEMMA WithUrlSets == WithUrl \in SUBSET Calls /\ WithUrl \subseteq Running
  BY DEF WithUrl, Running, Coroutine

\* A coroutine without a URL leaves room for the one it is about to take.
LEMMA RoomForOne ==
    ASSUME IInv, NEW c \in Running, c \notin WithUrl
    PROVE  Cardinality(WithUrl) < MaxConn
<1>1. Running \in SUBSET Calls /\ Running \in SUBSET Winners /\ Winners \in SUBSET Calls
  BY RunningWin DEF Running, Winners
<1>2. WithUrl \in SUBSET (Running \ {c}) /\ (Running \ {c}) \in SUBSET Calls
  BY <1>1, WithUrlSets
<1>3. Cardinality(WithUrl) =< Cardinality(Running \ {c})
  BY <1>2, CallSubset
<1>4. Cardinality(Running \ {c}) = Cardinality(Running) - 1
  BY <1>1, CallRemoved
<1>5. Cardinality(Running) =< Cardinality(Winners)
  BY <1>1, CallSubset
<1>6. /\ Cardinality(WithUrl) \in Nat /\ Cardinality(Running) \in Nat
      /\ Cardinality(Winners) \in Nat /\ Cardinality(Running \ {c}) \in Nat
      /\ MaxConn \in Nat
  BY <1>1, <1>2, WithUrlSets, CallSets, ConstantsAssumption DEF ConstantsAssumption
<1>. QED
  BY <1>3, <1>4, <1>5, <1>6 DEF IInv

\* try_pop gives c a URL.
LEMMA TakeStarts ==
    ASSUME IInv, NEW c \in Calls, pc[c] \in {"pop", "repop"}, queued > 0,
           queued' = queued - 1, Goto(c, "vet"), UNCHANGED <<rows, ended, proc>>
    PROVE  Pool!Start
<1> USE DEF IInv, TypeOK, Goto
<1>1. c \in Running /\ c \notin WithUrl /\ WithUrl \in SUBSET Calls
  BY DEF Running, WithUrl, Coroutine
<1>2. WithUrl' = WithUrl \cup {c}
  BY DEF WithUrl
<1>3. Cardinality(WithUrl') = Cardinality(WithUrl) + 1
  BY <1>1, <1>2, CallAdded
<1>4. queued + rows > 0 /\ queued' + rows' = (queued + rows) - 1
  OBVIOUS
<1>. QED
  BY <1>1, <1>3, <1>4, RoomForOne DEF Pool!Start

\* c is through with its URL, or has lost it.
LEMMA LeaveFinishes ==
    ASSUME IInv, NEW c \in WithUrl, NEW n \in Nat,
           WithUrl' = WithUrl \ {c}, UNCHANGED <<queued, ended, proc>>, rows' = rows + n
    PROVE  Pool!Finish
<1>1. WithUrl \in SUBSET Calls
  BY WithUrlSets
<1>2. Cardinality(WithUrl') = Cardinality(WithUrl) - 1 /\ Cardinality(WithUrl) \in Nat
  BY <1>1, CallRemoved, CallSets
<1>3. Cardinality(WithUrl) > 0
  BY <1>1, <1>2, CallSets, FS_EmptySet
<1>4. queued' + rows' \in Nat /\ queued' + rows' >= queued + rows
  BY DEF IInv, TypeOK
<1>. QED
  BY <1>2, <1>3, <1>4 DEF Pool!Finish

LEMMA CallStepPool ==
    ASSUME IInv, proc = "running", NEW c \in Calls, CallStep(c)
    PROVE  [Pool!Next]_(Pool!vars)
<1> USE DEF IInv, TypeOK, Goto, Return, urls
<1>1. CASE \/ Enter(c) \/ Count(c) \/ Refuse(c) \/ Launch(c)
  <2>1. WithUrl' = WithUrl /\ UNCHANGED <<queued, rows, ended, proc>>
    BY <1>1 DEF Enter, Count, Refuse, Launch, WithUrl
  <2>. QED
    BY <2>1 DEF Pool!vars
<1>2. CASE Pop(c) \/ Repop(c)
  <2>1. CASE queued > 0
    BY <1>2, <2>1, TakeStarts DEF Pop, Repop, Pool!Next
  <2>2. CASE ~(queued > 0)
    <3>1. WithUrl' = WithUrl /\ UNCHANGED <<queued, rows, ended, proc>>
      BY <1>2, <2>2 DEF Pop, Repop, WithUrl
    <3>. QED
      BY <3>1 DEF Pool!vars
  <2>. QED
    BY <2>1, <2>2
<1>3. CASE Query(c) \/ ClaimWhole(c) \/ ClaimSampled(c)
  <2>1. WithUrl' = WithUrl /\ UNCHANGED <<ended, proc>>
    BY <1>3 DEF Query, ClaimWhole, ClaimSampled, Enqueued, WithUrl
  <2>2. \/ UNCHANGED <<queued, rows>>
        \/ \E n \in 1..rows : rows' = rows - n /\ queued' = queued + n
    BY <1>3 DEF Query, ClaimWhole, ClaimSampled, Enqueued
  <2>3. queued' + rows' = queued + rows
    BY <2>2
  <2>. QED
    BY <2>1, <2>3 DEF Pool!vars
<1>4. CASE Vet(c)
  <2>1. UNCHANGED <<queued, rows, ended, proc>>
    BY <1>4 DEF Vet
  <2>2. CASE pc'[c] = "post"
    <3>1. WithUrl' = WithUrl
      BY <1>4, <2>2 DEF Vet, WithUrl
    <3>. QED
      BY <2>1, <3>1 DEF Pool!vars
  <2>3. CASE pc'[c] = "pop"
    <3>1. c \in WithUrl /\ WithUrl' = WithUrl \ {c} /\ rows' = rows + 0
      BY <1>4, <2>1, <2>3 DEF Vet, WithUrl
    <3>. QED
      BY <2>1, <3>1, LeaveFinishes DEF Pool!Next
  <2>. QED
    BY <1>4, <2>2, <2>3 DEF Vet
<1>5. CASE Release(c) \/ Post(c) \/ Repost(c) \/ Drop(c) \/ Handled(c)
  <2>1. WithUrl' = WithUrl /\ UNCHANGED <<queued, rows, ended, proc>>
    BY <1>5 DEF Release, Post, Repost, Drop, Handled, WithUrl
  <2>. QED
    BY <2>1 DEF Pool!vars
<1>6. CASE SetEnd(c)
  <2>1. WithUrl' = WithUrl /\ UNCHANGED <<queued, rows, proc>> /\ ended' = TRUE
    BY <1>6 DEF SetEnd, WithUrl
  <2>. QED
    BY <2>1 DEF Pool!vars, Pool!Next, Pool!Stop
<1>7. CASE Crawl(c)
  <2>1. PICK n \in 0..(MaxFound - found) : rows' = rows + n
    BY <1>7 DEF Crawl
  <2>2. n \in Nat
    BY <2>1
  <2>3. c \in WithUrl /\ WithUrl' = WithUrl \ {c} /\ UNCHANGED <<queued, ended, proc>>
    BY <1>7 DEF Crawl, WithUrl
  <2>. QED
    BY <2>1, <2>2, <2>3, LeaveFinishes DEF Pool!Next
<1>8. ASSUME NEW d \in Calls, Handle(c, d)
      PROVE  [Pool!Next]_(Pool!vars)
  <2>1. WithUrl' = WithUrl /\ UNCHANGED <<queued, rows, ended, proc>>
    BY <1>8 DEF Handle, Free, WithUrl
  <2>. QED
    BY <2>1 DEF Pool!vars
<1>. QED
  BY <1>1, <1>2, <1>3, <1>4, <1>5, <1>6, <1>7, <1>8 DEF CallStep

LEMMA OtherStepPool ==
    ASSUME IInv, proc = "running"
    PROVE  /\ \A c \in Calls : Fault(c) \/ RunTask(c) => [Pool!Next]_(Pool!vars)
           /\ AwaitStep \/ Quit => [Pool!Next]_(Pool!vars)
<1> USE DEF IInv, TypeOK, Goto, Call, Free, urls, threads
<1>1. ASSUME NEW c \in Calls, Throw(c)
      PROVE  [Pool!Next]_(Pool!vars)
  <2>0. UNCHANGED <<queued, rows, ended, proc>>
    BY <1>1 DEF Throw
  <2>1. CASE pc[c] \in {"sampled", "whole"}
    <3>1. WithUrl' = WithUrl
      BY <1>1, <2>1 DEF Throw, WithUrl
    <3>. QED
      BY <2>0, <3>1 DEF Pool!vars
  <2>2. CASE pc[c] = "vet"
    <3>1. c \in WithUrl /\ WithUrl' = WithUrl \ {c} /\ rows' = rows + 0
      BY <1>1, <2>0, <2>2 DEF Throw, WithUrl
    <3>. QED
      BY <2>0, <3>1, LeaveFinishes DEF Pool!Next
  <2>. QED
    BY <1>1, <2>1, <2>2 DEF Throw
<1>7. ASSUME NEW c \in Calls, Rollback(c)
      PROVE  [Pool!Next]_(Pool!vars)
  <2>1. WithUrl' = WithUrl /\ UNCHANGED <<queued, rows, ended, proc>>
    BY <1>7 DEF Rollback, WithUrl
  <2>. QED
    BY <2>1 DEF Pool!vars
<1>2. ASSUME NEW c \in Calls, Abort(c)
      PROVE  [Pool!Next]_(Pool!vars)
  <2>1. WithUrl' = WithUrl /\ UNCHANGED <<queued, rows, ended>> /\ proc' = "aborted"
    BY <1>2 DEF Abort, WithUrl
  <2>. QED
    BY <2>1 DEF Pool!vars, Pool!Next, Pool!Stop
<1>3. ASSUME NEW c \in Calls, RunTask(c) \/ AwaitIdle(c)
      PROVE  [Pool!Next]_(Pool!vars)
  <2>1. WithUrl' = WithUrl /\ UNCHANGED <<queued, rows, ended, proc>>
    BY <1>3 DEF RunTask, AwaitIdle, WithUrl
  <2>. QED
    BY <2>1 DEF Pool!vars
<1>4. CASE AwaitStart \/ AwaitEnded \/ AwaitPoll \/ AwaitBusy
  <2>1. WithUrl' = WithUrl /\ UNCHANGED <<queued, rows, ended, proc>>
    BY <1>4 DEF AwaitStart, AwaitEnded, AwaitPoll, AwaitBusy, WithUrl
  <2>. QED
    BY <2>1 DEF Pool!vars
<1>5. CASE AwaitJudge
  <2>1. WithUrl' = WithUrl /\ UNCHANGED <<queued, rows, proc>>
    BY <1>5 DEF AwaitJudge, WithUrl
  <2>2. ended' = ended \/ ended' = TRUE
    BY <1>5 DEF AwaitJudge
  <2>. QED
    BY <2>1, <2>2 DEF Pool!vars, Pool!Next, Pool!Stop
<1>6. CASE Quit
  <2>1. WithUrl' = WithUrl /\ UNCHANGED <<queued, rows, ended>> /\ proc' = "quit"
    BY <1>6 DEF Quit, WithUrl
  <2>. QED
    BY <2>1 DEF Pool!vars, Pool!Next, Pool!Stop
<1>. QED
  BY <1>1, <1>2, <1>3, <1>4, <1>5, <1>6, <1>7 DEF Fault, AwaitStep

\* Every behaviour of the dispatcher is one of the bounded pool.
THEOREM ImplementsPool == SafeSpec => PoolSafe
<1>1. Init => Pool!Init
  <2> SUFFICES ASSUME Init
               PROVE  Pool!Init
    OBVIOUS
  <2>1. WithUrl = {}
    BY DEF Init, WithUrl
  <2>2. ended = FALSE /\ proc = "running"
    BY DEF Init
  <2>3. MaxSeeds \in Nat /\ MaxRows \in Nat
    BY ConstantsAssumption DEF ConstantsAssumption
  <2>4. queued + rows \in Nat
    BY <2>3 DEF Init
  <2>. QED
    BY <2>1, <2>2, <2>4, FS_EmptySet DEF Pool!Init
<1>2. IInv /\ [Next]_vars => [Pool!Next]_(Pool!vars)
  <2> SUFFICES ASSUME IInv, [Next]_vars
               PROVE  [Pool!Next]_(Pool!vars)
    OBVIOUS
  <2>1. CASE UNCHANGED vars
    <3>1. WithUrl' = WithUrl /\ UNCHANGED <<queued, rows, ended, proc>>
      BY <2>1 DEF vars, threads, urls, WithUrl
    <3>. QED
      BY <3>1 DEF Pool!vars
  <2>2. CASE Next
    BY <2>1, <2>2, CallStepPool, OtherStepPool DEF Next, Terminated
  <2>. QED
    BY <2>1, <2>2
<1>. QED
  BY <1>1, <1>2, IndInvariant, PTL DEF SafeSpec, PoolSafe, Pool!SafeSpec

-----------------------------------------------------------------------------
(* The work that is left *)

\* The steps that a call, or the coroutine it started, has left at most, without
\* those for more URLs than the one in its hands: one in "vet" may be refused
\* ("pop") or have two calls made ("post", "repost").
Cost(label) ==
    CASE label = "enter"   -> 9
      [] label = "count"   -> 8
      [] label = "check"   -> 7
      [] label = "pop"     -> 6
      [] label = "query"   -> 5
      [] label = "sampled" -> 4
      [] label = "whole"   -> 4
      [] label = "repop"   -> 3
      [] label = "none"    -> 2
      [] label = "setEnd"  -> 1
      [] label = "vet"     -> 25
      [] label = "post"    -> 24
      [] label = "crawl"   -> 13
      [] label = "repost"  -> 12
      [] label = "drop"    -> 1
      [] label = "handler" -> 12
      [] label = "nested"  -> 2
      [] OTHER             -> 0

\* The steps of all calls, told apart so that they can be counted.
TodoOf(places) == {t \in Calls \X (1..25) : t[2] =< Cost(places[t[1]])}

\* What there is left to do: for URLs that are queued, in the table or to be
\* found (a query that claims some makes its loop go round once more, and so
\* does the one that raises sample_pct to 100), for the closures on loop_, for
\* exceptions to come, and for the calls under way.
Work == 23 * queued + 25 * (rows + (MaxFound - found)) + (IF full THEN 0 ELSE 2)
        + 10 * tasks + 9 * (MaxFaults - faults) + Cardinality(TodoOf(pc))

LEMMA CostType ==
    ASSUME NEW label \in PCs
    PROVE  Cost(label) \in 0..25
  BY SMT DEF Cost, PCs, Sync, Coroutine

LEMMA Costs ==
    /\ Cost("idle") = 0 /\ Cost("enter") = 9 /\ Cost("count") = 8 /\ Cost("check") = 7
    /\ Cost("pop") = 6 /\ Cost("query") = 5 /\ Cost("sampled") = 4 /\ Cost("whole") = 4
    /\ Cost("repop") = 3 /\ Cost("vet") = 25 /\ Cost("none") = 2 /\ Cost("setEnd") = 1
    /\ Cost("post") = 24 /\ Cost("crawl") = 13 /\ Cost("repost") = 12 /\ Cost("drop") = 1
    /\ Cost("handler") = 12 /\ Cost("nested") = 2
  BY DEF Cost

LEMMA UpTo ==
    ASSUME NEW n \in Nat
    PROVE  IsFiniteSet(1..n) /\ Cardinality(1..n) = n
<1>1. 1 \in Int /\ n \in Int
  OBVIOUS
<1>2. IF 1 > n THEN n = 0 ELSE n - 1 + 1 = n
  OBVIOUS
<1>3. IsFiniteSet(1..n) /\ Cardinality(1..n) = IF 1 > n THEN 0 ELSE n - 1 + 1
  BY <1>1, FS_Interval
<1>. QED
  BY <1>2, <1>3

LEMMA TodoIsFinite ==
    ASSUME NEW places
    PROVE  IsFiniteSet(TodoOf(places)) /\ Cardinality(TodoOf(places)) \in Nat
<1>1. IsFiniteSet(Calls) /\ IsFiniteSet(1..25)
  <2>1. 25 \in Nat
    OBVIOUS
  <2>. QED
    BY <2>1, ConstantsAssumption, UpTo DEF ConstantsAssumption
<1>2. IsFiniteSet(Calls \X (1..25))
  BY <1>1, FS_Product
<1>3. TodoOf(places) \in SUBSET (Calls \X (1..25))
  BY DEF TodoOf
<1>. QED
  BY <1>2, <1>3, FS_Subset, FS_CardinalityType

\* A call that moves changes what is to be done by what its places cost.
LEMMA TodoMoves ==
    ASSUME NEW from \in [Calls -> PCs], NEW to \in [Calls -> PCs], NEW c \in Calls,
           \A d \in Calls \ {c} : to[d] = from[d]
    PROVE  Cardinality(TodoOf(to)) = Cardinality(TodoOf(from)) - Cost(from[c]) + Cost(to[c])
<1> DEFINE Rest == {t \in Calls \X (1..25) : t[1] # c /\ t[2] =< Cost(from[t[1]])}
           Own(places) == {c} \X (1..Cost(places[c]))
<1>1. ASSUME NEW places \in [Calls -> PCs], \A d \in Calls \ {c} : places[d] = from[d]
      PROVE  Cardinality(TodoOf(places)) = Cardinality(Rest) + Cost(places[c])
  <2>1. Cost(places[c]) \in 0..25
    BY CostType
  <2>2. TodoOf(places) = Rest \cup Own(places) /\ Rest \cap Own(places) = {}
    <3>1. ASSUME NEW d \in Calls, NEW n \in 1..25
          PROVE  n =< Cost(places[d]) <=> \/ d # c /\ n =< Cost(from[d])
                                          \/ d = c /\ n \in 1..Cost(places[c])
      BY <1>1, <2>1
    <3>2. 1..Cost(places[c]) \subseteq 1..25
      BY <2>1
    <3>. QED
      BY <3>1, <3>2 DEF TodoOf
  <2>3. IsFiniteSet(Own(places)) /\ Cardinality(Own(places)) = Cost(places[c])
    <3>1. IsFiniteSet({c}) /\ Cardinality({c}) = 1
      BY FS_Singleton
    <3>5. Cost(places[c]) \in Nat
      BY <2>1
    <3>2. IsFiniteSet(1..Cost(places[c])) /\ Cardinality(1..Cost(places[c])) = Cost(places[c])
      BY Zenon, <3>5, UpTo
    <3>3. /\ IsFiniteSet({c} \X (1..Cost(places[c])))
          /\ Cardinality({c} \X (1..Cost(places[c]))) = 1 * Cost(places[c])
      <4>1. /\ IsFiniteSet({c} \X (1..Cost(places[c])))
            /\ Cardinality({c} \X (1..Cost(places[c])))
                  = Cardinality({c}) * Cardinality(1..Cost(places[c]))
        BY <3>1, <3>2, FS_Product
      <4>. QED
        BY Zenon, <3>1, <3>2, <4>1
    <3>4. 1 * Cost(places[c]) = Cost(places[c])
      BY <2>1
    <3>. QED
      BY <3>3, <3>4
  <2>4. IsFiniteSet(Rest) /\ Cardinality(Rest) \in Nat
    <3>1. Rest \in SUBSET TodoOf(from)
      BY DEF TodoOf
    <3>. QED
      BY <3>1, TodoIsFinite, FS_Subset, FS_CardinalityType
  <2>5. Cardinality({}) = 0
    BY FS_EmptySet
  <2> HIDE DEF Rest, Own
  <2>6. Cardinality(Rest \cup Own(places)) =
           Cardinality(Rest) + Cardinality(Own(places)) - Cardinality(Rest \cap Own(places))
    BY <2>3, <2>4, FS_Union
  <2>7. Cardinality(TodoOf(places)) = Cardinality(Rest \cup Own(places))
    BY Zenon, <2>2
  <2>8. Cardinality(Rest \cap Own(places)) = 0
    BY Zenon, <2>2, <2>5
  <2>. QED
    BY <2>1, <2>3, <2>4, <2>6, <2>7, <2>8
<1>2. Cost(from[c]) \in 0..25 /\ Cost(to[c]) \in 0..25
  BY CostType
<1>3. Cardinality(Rest) \in Nat
  <2>1. Rest \in SUBSET TodoOf(from)
    BY DEF TodoOf
  <2>. QED
    BY <2>1, TodoIsFinite, FS_Subset, FS_CardinalityType
<1> HIDE DEF Rest
<1>. QED
  BY <1>1, <1>2, <1>3

LEMMA WorkIsNumber == TypeOK => Work \in Nat
  BY TodoIsFinite, ConstantsAssumption DEF TypeOK, Work, ConstantsAssumption

\* The work that a step of one call leaves, if the rest of it goes by hand.
LEMMA GoingCosts ==
    ASSUME TypeOK, NEW c \in Calls, NEW label \in PCs, Goto(c, label)
    PROVE  Cardinality(TodoOf(pc')) = Cardinality(TodoOf(pc)) - Cost(pc[c]) + Cost(label)
<1>1. /\ pc \in [Calls -> PCs] /\ pc' \in [Calls -> PCs]
      /\ pc'[c] = label /\ \A d \in Calls \ {c} : pc'[d] = pc[d]
  BY DEF TypeOK, Goto
<1>. QED
  BY <1>1, TodoMoves

\* Each step of a call leaves less to do, whatever other calls it brings about.
LEMMA CallStepWorks ==
    ASSUME TypeOK, NEW c \in Calls, CallStep(c)
    PROVE  Work' < Work
<1> DEFINE todo == Cardinality(TodoOf(pc))
<1>0. /\ todo \in Nat /\ Cardinality(TodoOf(pc')) \in Nat
      /\ Work = 23 * queued + 25 * (rows + (MaxFound - found)) + (IF full THEN 0 ELSE 2) + 10 * tasks
                + 9 * (MaxFaults - faults) + todo
      /\ Work' = 23 * queued' + 25 * (rows' + (MaxFound - found')) + (IF full' THEN 0 ELSE 2) + 10 * tasks'
                 + 9 * (MaxFaults - faults')
                 + Cardinality(TodoOf(pc'))
      /\ queued \in Nat /\ rows \in Nat /\ found \in Nat /\ tasks \in Nat /\ faults \in Nat
      /\ MaxFound \in Nat /\ MaxFaults \in Nat
  BY TodoIsFinite, ConstantsAssumption DEF TypeOK, Work, ConstantsAssumption
<1>1. ASSUME NEW label \in PCs, Goto(c, label)
      PROVE  Cardinality(TodoOf(pc')) = todo - Cost(pc[c]) + Cost(label)
  BY <1>1, GoingCosts
<1>2. PCs = {"idle", "enter", "count", "check", "pop", "query", "sampled", "whole", "repop", "vet",
             "none", "setEnd", "post", "crawl", "repost", "drop", "handler", "nested"}
  BY DEF PCs, Sync, Coroutine
<1> HIDE DEF todo
<1> USE Costs
<1>3. CASE Enter(c) \/ Count(c) \/ Refuse(c) \/ Launch(c)
  <2>1. queued' = queued /\ rows' = rows /\ found' = found /\ full' = full /\ tasks' = tasks /\ faults' = faults
    BY <1>3 DEF Enter, Count, Refuse, Launch, urls
  <2>2. \/ pc[c] = "enter" /\ (Goto(c, "idle") \/ Goto(c, "count"))
        \/ pc[c] = "count" /\ Goto(c, "check")
        \/ pc[c] = "check" /\ (Goto(c, "idle") \/ Goto(c, "pop"))
    BY <1>3 DEF Enter, Count, Refuse, Launch, Return
  <2>3. Cardinality(TodoOf(pc')) < todo
    BY <1>0, <1>1, <1>2, <2>2
  <2>. QED
    BY <1>0, <2>1, <2>3
<1>4. CASE Pop(c)
  BY <1>0, <1>1, <1>2, <1>4 DEF Pop
<1>5. CASE Repop(c)
  BY <1>0, <1>1, <1>2, <1>5 DEF Repop
<1>6. CASE Query(c)
  BY <1>0, <1>1, <1>2, <1>6 DEF Query, urls
<1>12. ASSUME NEW n, Enqueued(c, n), pc[c] \in {"sampled", "whole"}, full' = full \/ full' = TRUE,
              UNCHANGED <<tasks, found, faults>>
       PROVE  Work' < Work
  <2>1. Cardinality(TodoOf(pc')) = todo + 1
    BY <1>0, <1>1, <1>2, <1>12 DEF Enqueued
  <2>2. n \in Nat /\ n >= 1 /\ rows' = rows - n /\ queued' = queued + n
    BY <1>0, <1>12 DEF Enqueued
  <2>3. (IF full' THEN 0 ELSE 2) =< (IF full THEN 0 ELSE 2)
    BY <1>12
  <2>. QED
    BY <1>0, <1>12, <2>1, <2>2, <2>3
<1>13. CASE ClaimWhole(c)
  <2>1. CASE \E n \in 1..rows : Enqueued(c, n)
    BY <1>12, <1>13, <2>1 DEF ClaimWhole
  <2>2. CASE ~\E n \in 1..rows : Enqueued(c, n)
    BY <1>0, <1>1, <1>2, <1>13, <2>2 DEF ClaimWhole
  <2>. QED
    BY <2>1, <2>2
<1>14. CASE ClaimSampled(c)
  <2>1. CASE \E n \in 1..rows : Enqueued(c, n) /\ full' \in {full, TRUE}
    BY <1>12, <1>14, <2>1 DEF ClaimSampled
  <2>2. CASE ~full /\ full' = TRUE /\ Goto(c, "query") /\ UNCHANGED <<queued, rows>>
    BY <1>0, <1>1, <1>2, <1>14, <2>2 DEF ClaimSampled
  <2>3. CASE (Goto(c, "repop") \/ Goto(c, "none")) /\ UNCHANGED <<queued, rows, full>>
    BY <1>0, <1>1, <1>2, <1>14, <2>3 DEF ClaimSampled
  <2>. QED
    BY <1>14, <2>1, <2>2, <2>3 DEF ClaimSampled
<1>7. CASE Vet(c) \/ Release(c) \/ SetEnd(c) \/ Drop(c) \/ Handled(c)
  <2>1. queued' = queued /\ rows' = rows /\ found' = found /\ full' = full /\ tasks' = tasks /\ faults' = faults
    BY <1>7 DEF Vet, Release, SetEnd, Drop, Handled, urls
  <2>2. \/ pc[c] = "vet" /\ (Goto(c, "post") \/ Goto(c, "pop"))
        \/ pc[c] = "none" /\ (Goto(c, "setEnd") \/ Goto(c, "idle"))
        \/ pc[c] \in {"setEnd", "drop"} /\ Goto(c, "idle")
        \/ pc[c] = "nested" /\ Goto(c, "drop")
    BY <1>7 DEF Vet, Release, SetEnd, Drop, Handled
  <2>3. Cardinality(TodoOf(pc')) < todo
    BY <1>0, <1>1, <1>2, <2>2
  <2>. QED
    BY <1>0, <2>1, <2>3
<1>8. CASE Post(c)
  BY <1>0, <1>1, <1>2, <1>8 DEF Post, urls
<1>9. CASE Repost(c)
  BY <1>0, <1>1, <1>2, <1>9 DEF Repost, urls
<1>10. CASE Crawl(c)
  BY <1>0, <1>1, <1>2, <1>10 DEF Crawl
<1>11. ASSUME NEW d \in Calls, Handle(c, d)
      PROVE  Work' < Work
  <2> DEFINE between == [pc EXCEPT ![c] = "nested"]
  <2>1. /\ pc \in [Calls -> PCs] /\ between \in [Calls -> PCs] /\ pc' \in [Calls -> PCs]
        /\ c # d /\ pc[c] = "handler" /\ between[c] = "nested" /\ between[d] = "idle" /\ pc'[d] = "enter"
        /\ \A e \in Calls \ {c} : between[e] = pc[e]
        /\ \A e \in Calls \ {d} : pc'[e] = between[e]
    BY <1>2, <1>11 DEF TypeOK, Handle, Free
  <2> HIDE DEF between
  <2>2. Cardinality(TodoOf(between)) = todo - Cost("handler") + Cost("nested")
    BY <2>1, TodoMoves DEF todo
  <2>3. Cardinality(TodoOf(pc')) = Cardinality(TodoOf(between)) - Cost("idle") + Cost("enter")
    BY <2>1, TodoMoves
  <2>5. Cardinality(TodoOf(pc')) = todo - 1
    BY <1>0, <2>2, <2>3
  <2>6. queued' = queued /\ rows' = rows /\ found' = found /\ full' = full /\ tasks' = tasks /\ faults' = faults
    BY <1>11 DEF Handle, urls
  <2>. QED
    BY <1>0, <2>5, <2>6
<1>. QED
  BY <1>3, <1>4, <1>5, <1>6, <1>7, <1>8, <1>9, <1>10, <1>11, <1>13, <1>14 DEF CallStep

\* So do an exception and a closure run by loop_; the closure has a place of its
\* own in Work until then.
LEMMA FaultWorks ==
    ASSUME TypeOK, NEW c \in Calls, Fault(c) \/ RunTask(c)
    PROVE  Work' < Work
<1>0. /\ Cardinality(TodoOf(pc)) \in Nat /\ Cardinality(TodoOf(pc')) \in Nat
      /\ Work = 23 * queued + 25 * (rows + (MaxFound - found)) + (IF full THEN 0 ELSE 2) + 10 * tasks
                + 9 * (MaxFaults - faults)
                + Cardinality(TodoOf(pc))
      /\ Work' = 23 * queued' + 25 * (rows' + (MaxFound - found')) + (IF full' THEN 0 ELSE 2) + 10 * tasks'
                 + 9 * (MaxFaults - faults')
                 + Cardinality(TodoOf(pc'))
      /\ queued \in Nat /\ rows \in Nat /\ found \in Nat /\ tasks \in Nat /\ faults \in Nat
      /\ MaxFound \in Nat /\ MaxFaults \in Nat
  BY TodoIsFinite, ConstantsAssumption DEF TypeOK, Work, ConstantsAssumption
<1>1. {"enter", "handler", "query"} \subseteq PCs
  BY DEF PCs, Sync, Coroutine
<1>2. ASSUME NEW label \in PCs, Goto(c, label)
      PROVE  Cardinality(TodoOf(pc')) = Cardinality(TodoOf(pc)) - Cost(pc[c]) + Cost(label)
  BY <1>2, GoingCosts
<1> USE Costs
<1>3. CASE Throw(c)
  BY <1>0, <1>1, <1>2, <1>3 DEF Throw, urls
<1>6. CASE Rollback(c)
  BY <1>0, <1>1, <1>2, <1>6 DEF Rollback, urls
<1>4. CASE Abort(c)
  BY <1>0, <1>4 DEF Abort, urls, threads
<1>5. CASE RunTask(c)
  BY <1>0, <1>1, <1>2, <1>5 DEF RunTask, Call, Free, urls
<1>. QED
  BY <1>3, <1>4, <1>5, <1>6 DEF Fault

\* A poll that finds nothing going on adds the steps of one call.
LEMMA PollWorks ==
    ASSUME TypeOK, NEW c \in Calls, AwaitIdle(c)
    PROVE  Work' = Work + 9
<1>1. "enter" \in PCs /\ Goto(c, "enter") /\ pc[c] = "idle"
  BY DEF AwaitIdle, Call, Free, PCs, Sync
<1>2. Cardinality(TodoOf(pc')) = Cardinality(TodoOf(pc)) - Cost(pc[c]) + Cost("enter")
  BY <1>1, GoingCosts
<1>3. Cost(pc[c]) = 0 /\ Cost("enter") = 9
  BY <1>1, Costs
<1>. QED
  BY <1>2, <1>3, TodoIsFinite, ConstantsAssumption DEF TypeOK, Work, AwaitIdle, urls, ConstantsAssumption

\* The dispatcher does not go round for ever, neither in calls that make calls nor
\* in searches that lose their URL to another: every step of a call, every
\* exception and every closure run leaves less to do.  Only a poll of awaitEnd that
\* finds nothing going on adds something, and no more than the steps of one call.
WorkRunsDown ==
    [][/\ (\E c \in Calls : CallStep(c) \/ Fault(c) \/ RunTask(c)) => Work' < Work
       /\ Work' > Work => Work' = Work + 9 /\ \E c \in Calls : AwaitIdle(c)]_vars

THEOREM WorkIsBounded == SafeSpec => WorkRunsDown /\ [](Work \in Nat)
<1>1. TypeOK /\ TypeOK' /\ [Next]_vars =>
        [/\ (\E c \in Calls : CallStep(c) \/ Fault(c) \/ RunTask(c)) => Work' < Work
         /\ Work' > Work => Work' = Work + 9 /\ \E c \in Calls : AwaitIdle(c)]_vars
  <2> SUFFICES ASSUME TypeOK, TypeOK', Next
               PROVE  /\ (\E c \in Calls : CallStep(c) \/ Fault(c) \/ RunTask(c)) => Work' < Work
                      /\ Work' > Work => Work' = Work + 9 /\ \E c \in Calls : AwaitIdle(c)
    OBVIOUS
  <2>1. ASSUME NEW c \in Calls, CallStep(c) \/ Fault(c) \/ RunTask(c)
        PROVE  Work' < Work
    BY <2>1, CallStepWorks, FaultWorks
  <2>2. ASSUME NEW c \in Calls, AwaitIdle(c)
        PROVE  Work' = Work + 9
    BY <2>2, PollWorks
  <2>3. ASSUME AwaitStart \/ AwaitEnded \/ AwaitPoll \/ AwaitBusy \/ AwaitJudge \/ Quit \/ Terminated
        PROVE  Work' = Work
    BY <2>3 DEF AwaitStart, AwaitEnded, AwaitPoll, AwaitBusy, AwaitJudge, Quit, Terminated, Work, threads, urls, vars
  <2>4. Work \in Nat /\ Work' \in Nat
    BY WorkIsNumber, TodoIsFinite, ConstantsAssumption DEF TypeOK, Work, ConstantsAssumption
  <2>5. \/ \E c \in Calls : CallStep(c) \/ Fault(c) \/ RunTask(c)
        \/ Work' = Work + 9 /\ \E c \in Calls : AwaitIdle(c)
        \/ Work' = Work
    BY <2>2, <2>3 DEF Next, AwaitStep
  <2>. QED
    BY <2>1, <2>4, <2>5
<1>. QED
  BY <1>1, WorkIsNumber, TypeCorrect, PTL DEF SafeSpec, WorkRunsDown

=============================================================================
