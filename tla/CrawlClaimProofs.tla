--------------------------- MODULE CrawlClaimProofs ---------------------------
(***************************************************************************)
(* Theorems about CrawlClaim, for any number of processes, coroutines,     *)
(* URLs, restarts and failures: a claimed URL is in one hand or queue, and *)
(* no page is requested early.  Seeds, and URLs whose claim has lapsed,    *)
(* are exempt, as they are in the properties.                              *)
(***************************************************************************)
EXTENDS CrawlClaim, TLAPS

\* Where a coroutine is says what it has: a URL in hand only when one was
\* popped, a batch only between the query and the queue.
HandsMatchPc ==
    \A c \in Crawlers :
        /\ pc[c] = "held" <=> hold[c] # NoUrl
        /\ pc[c] # "enqueue" => claimed[c] = {}

\* The claim of one URL, as ClaimIsExclusive says it.
InOneHand(u) ==
    /\ \A c, d \in Hands(u) : c = d /\ ~(hold[c] = u /\ u \in claimed[c])
    /\ \A p, q \in Queues(u) : p = q /\ queue[p][u] = 1
    /\ Hands(u) = {} \/ Queues(u) = {}

\* What holds of a wanted URL whose claim has lasted: the row says so, nobody
\* else has it, and it is still due if its row is written by its crawls only.
Guarded(u) ==
    /\ IsQueued(u)
    /\ InOneHand(u)
    /\ OneSpelling(u) => IsDue(u)

WantedAreGuarded == \A u \in Urls \ lapsed : Wanted(u) => Guarded(u)

\* ClaimIsExclusive is not inductive: a query claims the rows that are not
\* queued, and only because no row in a hand looks so does it claim none twice.
IInv == TypeOK /\ HandsMatchPc /\ WantedAreGuarded

-----------------------------------------------------------------------------
(* Rows *)

\* A row is known from its two parts.
LEMMA RowParts ==
    ASSUME NEW r \in Rows
    PROVE  /\ r.due \in BOOLEAN /\ r.queued \in BOOLEAN /\ r # NoRow
           /\ [r EXCEPT !.due = FALSE] \in Rows /\ [r EXCEPT !.due = TRUE] \in Rows
           /\ [r EXCEPT !.queued = FALSE] \in Rows /\ [r EXCEPT !.queued = TRUE] \in Rows
           /\ [r EXCEPT !.queued = FALSE].due = r.due /\ [r EXCEPT !.queued = TRUE].due = r.due
           /\ [r EXCEPT !.due = TRUE].due = TRUE
BY ConstantsAssumption DEF Rows

\* What a crawl leaves of a row is a row or none.
LEMMA CrawledRows ==
    ASSUME TypeOK, NEW u \in Urls
    PROVE  Crawled(u) \subseteq Rows \cup {NoRow}
<1>1. Crawled(u) \subseteq {NoRow, [rows[u] EXCEPT !.due = FALSE]}
  BY DEF Crawled
<1>2. CASE u \in InTable
  <2>1. rows[u] \in Rows
    BY <1>2 DEF InTable, TypeOK
  <2>2. [rows[u] EXCEPT !.due = FALSE] \in Rows
    BY <2>1, RowParts
  <2>. QED
    BY <1>1, <2>2
<1>3. CASE u \notin InTable
  BY <1>3 DEF Crawled
<1>. QED
  BY <1>2, <1>3

LEMMA NewRowIsRow == NewRow \in Rows /\ NewRow # NoRow /\ NewRow.due = TRUE
<1>1. NewRow \in Rows
  BY DEF NewRow, Rows
<1>2. NewRow # NoRow
  BY <1>1, ConstantsAssumption DEF Rows
<1>3. NewRow.due = TRUE
  BY DEF NewRow
<1>. QED
  BY <1>1, <1>2, <1>3

LEMMA SeedQueueType == SeedQueue \in [Urls -> Nat]
BY DEF SeedQueue

-----------------------------------------------------------------------------
(* Types *)

LEMMA InitIInv == Init => IInv
<1> SUFFICES ASSUME Init
             PROVE  IInv
  OBVIOUS
<1>1. TypeOK
  BY ConstantsAssumption, NewRowIsRow, SeedQueueType DEF ConstantsAssumption, Init, TypeOK, PCs
<1>2. HandsMatchPc
  BY DEF Init, HandsMatchPc
<1>3. ASSUME NEW u \in Urls \ lapsed
      PROVE  ~Wanted(u)
  BY <1>3, ConstantsAssumption DEF Init, Wanted, Hands, Queues, SeedQueue
<1>. QED
  BY <1>1, <1>2, <1>3 DEF IInv, WantedAreGuarded

\* try_pop moves a URL from the queue to the hand.
LEMMA TryPopType ==
    ASSUME TypeOK, NEW c \in Crawlers, NEW otherwise \in PCs, TryPop(c, otherwise)
    PROVE  /\ queue' \in [Procs -> [Urls -> Nat]]
           /\ pc' \in [Crawlers -> PCs]
           /\ hold' \in [Crawlers -> Urls \cup {NoUrl}]
<1>1. CASE \E u \in Urls :
              /\ queue[procOf[c]][u] > 0
              /\ queue' = [queue EXCEPT ![procOf[c]][u] = @ - 1]
              /\ hold' = [hold EXCEPT ![c] = u]
              /\ Goto(c, "held")
  <2>1. PICK u \in Urls :
              /\ queue[procOf[c]][u] > 0
              /\ queue' = [queue EXCEPT ![procOf[c]][u] = @ - 1]
              /\ hold' = [hold EXCEPT ![c] = u]
              /\ Goto(c, "held")
    BY <1>1
  <2>2. procOf[c] \in Procs /\ queue[procOf[c]] \in [Urls -> Nat]
    BY ConstantsAssumption DEF TypeOK
  <2>3. queue[procOf[c]][u] - 1 \in Nat
    BY <2>1, <2>2
  <2>. QED
    BY <2>1, <2>2, <2>3 DEF TypeOK, Goto, PCs
<1>2. CASE /\ \A u \in Urls : queue[procOf[c]][u] = 0
           /\ Goto(c, otherwise)
           /\ UNCHANGED <<queue, hold>>
  BY <1>2 DEF TypeOK, Goto
<1>. QED
  BY <1>1, <1>2 DEF TryPop

LEMMA StepType ==
    ASSUME TypeOK, HandsMatchPc, NEW c \in Crawlers, Step(c) \/ QueryFails(c)
    PROVE  /\ rows' \in [Urls -> Rows \cup {NoRow}]
           /\ queue' \in [Procs -> [Urls -> Nat]]
           /\ pct' \in [Procs -> 1..Levels]
           /\ pc' \in [Crawlers -> PCs]
           /\ hold' \in [Crawlers -> Urls \cup {NoUrl}]
           /\ level' \in [Crawlers -> 1..Levels]
           /\ claimed' \in [Crawlers -> SUBSET Urls]
           /\ ageings' \in 0..MaxAgeings /\ faults' \in 0..MaxFaults
<1>p. procOf[c] \in Procs /\ {"idle", "search", "enqueue", "repop", "held"} = PCs
  BY ConstantsAssumption DEF PCs, TypeOK
<1>1. CASE Pop(c)
  BY <1>1, <1>p, TryPopType DEF Pop, TypeOK, bounds
<1>2. CASE Refilled(c)
  BY <1>2, <1>p DEF Refilled, TypeOK, Goto, bounds
<1>3. CASE Claim(c)
  <2>1. PICK chosen \in SUBSET Claimable :
          /\ rows' = [u \in Urls |-> IF u \in chosen THEN [rows[u] EXCEPT !.queued = TRUE]
                                                     ELSE rows[u]]
          /\ claimed' = [claimed EXCEPT ![c] = chosen]
    BY <1>3 DEF Claim, Answers
  <2>2. \A u \in chosen : u \in Urls /\ rows[u] \in Rows
    BY <2>1 DEF Claimable, IsDue, InTable, TypeOK
  <2>3. rows' \in [Urls -> Rows \cup {NoRow}]
    <3>1. \A u \in chosen : [rows[u] EXCEPT !.queued = TRUE] \in Rows
      BY <2>2, RowParts
    <3>. QED
      BY <2>1, <3>1 DEF TypeOK
  <2>4. claimed' \in [Crawlers -> SUBSET Urls]
    BY <2>1, <2>2 DEF TypeOK
  <2>. QED
    BY <1>3, <1>p, <2>3, <2>4 DEF Claim, TypeOK, Goto, bounds
<1>4. CASE Enqueue(c)
  <2>1. pct' \in [Procs -> 1..Levels]
    <3>1. CASE Swaps(c, procOf[c]) /\ pct[procOf[c]] < Levels
      <4>1. pct[procOf[c]] + 1 \in 1..Levels
        BY <3>1, <1>p, ConstantsAssumption DEF TypeOK
      <4>. QED
        BY <1>4, <3>1, <4>1 DEF Enqueue, TypeOK
    <3>2. CASE ~(Swaps(c, procOf[c]) /\ pct[procOf[c]] < Levels)
      BY <1>4, <3>2 DEF Enqueue, TypeOK
    <3>. QED
      BY <3>1, <3>2
  <2>2. queue' \in [Procs -> [Urls -> Nat]]
    <3>1. [u \in Urls |-> queue[procOf[c]][u] + IF u \in claimed[c] THEN 1 ELSE 0]
            \in [Urls -> Nat]
      BY <1>p DEF TypeOK
    <3>. QED
      BY <1>4, <3>1 DEF Enqueue, Refill, TypeOK
  <2>. QED
    BY <1>4, <1>p, <2>1, <2>2, ConstantsAssumption DEF Enqueue, Conclude, TypeOK, Goto, bounds
<1>5. CASE Repop(c)
  BY <1>5, <1>p, TryPopType DEF Repop, TypeOK, bounds
<1>6. CASE Block(c)
  <2>1. hold[c] \in Urls
    BY <1>6 DEF Block, HandsMatchPc, TypeOK
  <2>2. rows' \in [Urls -> Rows \cup {NoRow}]
    BY <1>6, <2>1, CrawledRows DEF Block, TypeOK
  <2>. QED
    BY <1>6, <1>p, <2>2 DEF Block, TypeOK, Goto, bounds
<1>7. CASE Crawl(c)
  <2>1. hold[c] \in Urls /\ Norm[hold[c]] \in Urls
    BY <1>7, ConstantsAssumption DEF Crawl, HandsMatchPc, TypeOK
  <2>2. Crawled(Norm[hold[c]]) \subseteq Rows \cup {NoRow}
    BY <2>1, CrawledRows
  <2>3. [due |-> FALSE, queued |-> IsQueued(Norm[hold[c]])] \in Rows
    <3>1. IsQueued(Norm[hold[c]]) \in BOOLEAN
      BY DEF IsQueued
    <3>. QED
      BY <3>1 DEF Rows
  <2>4. rows' \in [Urls -> Rows \cup {NoRow}]
    <3>1. PICK row \in Crawled(Norm[hold[c]])
                         \cup {[due |-> FALSE, queued |-> IsQueued(Norm[hold[c]])]},
               found \in SUBSET (Urls \ InTable) :
              rows' = [u \in Urls |-> IF u = Norm[hold[c]] THEN row
                                      ELSE IF u \in found THEN NewRow ELSE rows[u]]
      BY <1>7 DEF Crawl
    <3>2. row \in Rows \cup {NoRow}
      BY <2>2, <2>3
    <3>. QED
      BY <3>1, <3>2, NewRowIsRow DEF TypeOK
  <2>. QED
    BY <1>7, <1>p, <2>4 DEF Crawl, TypeOK, Goto, bounds
<1>8. CASE QueryFails(c)
  <2>1. pc' \in [Crawlers -> PCs]
    BY <1>8, <1>p DEF QueryFails, TypeOK, Goto
  <2>2. faults' \in 0..MaxFaults
    BY <1>8, ConstantsAssumption DEF QueryFails, TypeOK
  <2>. QED
    BY <1>8, <2>1, <2>2 DEF QueryFails, TypeOK
<1>. QED
  BY <1>1, <1>2, <1>3, <1>4, <1>5, <1>6, <1>7, <1>8 DEF Step

LEMMA NextType ==
    ASSUME TypeOK, HandsMatchPc, Next
    PROVE  TypeOK'
<1>1. lapsed' \subseteq Urls /\ procOf' \in [Crawlers -> Procs]
  BY ConstantsAssumption DEF Next, Watch, TypeOK
<1>2. ASSUME NEW c \in Crawlers, Step(c) \/ QueryFails(c)
      PROVE  TypeOK'
  BY <1>1, <1>2, StepType DEF TypeOK
<1>3. ASSUME NEW p \in Procs, Restart(p)
      PROVE  TypeOK'
  BY <1>1, <1>3, SeedQueueType, ConstantsAssumption DEF Restart, TypeOK, PCs
<1>4. ASSUME NEW u \in Urls, AddSeed(u) \/ Purge(u) \/ ClaimLapses(u) \/ BecomesDue(u)
      PROVE  TypeOK'
  <2>1. rows' \in [Urls -> Rows \cup {NoRow}]
    <3>1. CASE AddSeed(u)
      BY <3>1, NewRowIsRow DEF AddSeed, TypeOK
    <3>2. CASE Purge(u)
      BY <3>2 DEF Purge, TypeOK
    <3>3. CASE ClaimLapses(u) \/ BecomesDue(u)
      <4>1. rows[u] \in Rows
        BY <3>3 DEF ClaimLapses, BecomesDue, IsQueued, InTable, TypeOK
      <4>2. [rows[u] EXCEPT !.queued = FALSE] \in Rows /\ [rows[u] EXCEPT !.due = TRUE] \in Rows
        BY <4>1, RowParts
      <4>. QED
        BY <3>3, <4>2 DEF ClaimLapses, BecomesDue, TypeOK
    <3>. QED
      BY <1>4, <3>1, <3>2, <3>3
  <2>2. ageings' \in 0..MaxAgeings
    BY <1>4, ConstantsAssumption DEF AddSeed, Purge, ClaimLapses, BecomesDue, bounds, TypeOK
  <2>3. UNCHANGED <<queue, pct, crawler, faults>>
    BY <1>4 DEF AddSeed, Purge, ClaimLapses, BecomesDue, bounds
  <2>. QED
    BY <1>1, <2>1, <2>2, <2>3 DEF TypeOK, crawler
<1>. QED
  BY <1>2, <1>3, <1>4 DEF Next

LEMMA NextHandsMatchPc ==
    ASSUME TypeOK, HandsMatchPc, Next
    PROVE  HandsMatchPc'
<1>1. ASSUME NEW c \in Crawlers, Step(c) \/ QueryFails(c)
      PROVE  HandsMatchPc'
  <2>1. CASE Pop(c) \/ Repop(c)
    <3>1. PICK otherwise \in {"search", "idle"} : TryPop(c, otherwise)
      BY <2>1 DEF Pop, Repop
    <3>2. \A u \in Urls : u # NoUrl
      BY ConstantsAssumption
    <3>. QED
      BY <2>1, <3>1, <3>2 DEF Pop, Repop, TryPop, Goto, HandsMatchPc, TypeOK
  <2>2. CASE Refilled(c) \/ Claim(c) \/ Enqueue(c)
    BY <2>2 DEF Refilled, Claim, Enqueue, Conclude, Goto, HandsMatchPc, TypeOK
  <2>3. CASE Block(c) \/ Crawl(c) \/ QueryFails(c)
    BY <2>3 DEF Block, Crawl, QueryFails, Goto, HandsMatchPc, TypeOK
  <2>. QED
    BY <1>1, <2>1, <2>2, <2>3 DEF Step
<1>2. ASSUME NEW p \in Procs, Restart(p)
      PROVE  HandsMatchPc'
  BY <1>2 DEF Restart, HandsMatchPc, TypeOK
<1>3. ASSUME NEW u \in Urls, AddSeed(u) \/ Purge(u) \/ ClaimLapses(u) \/ BecomesDue(u)
      PROVE  HandsMatchPc'
  BY <1>3 DEF AddSeed, Purge, ClaimLapses, BecomesDue, crawler, HandsMatchPc
<1>. QED
  BY <1>1, <1>2, <1>3 DEF Next

-----------------------------------------------------------------------------
(* Claims *)

\* A URL that is wanted after a step with its claim in force had it before.
LEMMA Watched ==
    ASSUME Watch, NEW u \in Urls \ lapsed', Wanted(u)'
    PROVE  u \notin Seeds /\ u \notin lapsed /\ IsQueued(u)'
BY DEF Watch

\* A URL nobody new has got hold of stays in one hand.
LEMMA FewerHands ==
    ASSUME NEW u \in Urls, InOneHand(u),
           \A c \in Crawlers : /\ hold'[c] = u => hold[c] = u
                               /\ u \in claimed'[c] => u \in claimed[c],
           \A p \in Procs : queue'[p][u] = queue[p][u] \/ queue'[p][u] = 0
    PROVE  InOneHand(u)' /\ (Wanted(u)' => Wanted(u))
<1>1. Hands(u)' \subseteq Hands(u)
  BY DEF Hands
<1>2. Queues(u)' \subseteq Queues(u) /\ \A p \in Queues(u)' : queue'[p][u] = queue[p][u]
  BY DEF Queues
<1>3. \A c, d \in Hands(u)' : c = d /\ ~(hold'[c] = u /\ u \in claimed'[c])
  BY <1>1 DEF InOneHand, Hands
<1>4. \A p, q \in Queues(u)' : p = q /\ queue'[p][u] = 1
  BY <1>2 DEF InOneHand
<1>. QED
  BY <1>1, <1>2, <1>3, <1>4 DEF InOneHand, Wanted

\* Whether it is wanted or not, a URL with its claim in force is in one hand.
LEMMA GuardedIsInOneHand ==
    ASSUME WantedAreGuarded, NEW u \in Urls \ lapsed
    PROVE  InOneHand(u) /\ (Wanted(u) => IsQueued(u) /\ (OneSpelling(u) => IsDue(u)))
BY DEF WantedAreGuarded, Guarded, Wanted, InOneHand

LEMMA TryPopGuarded ==
    ASSUME IInv, NEW c \in Crawlers, NEW otherwise \in PCs, TryPop(c, otherwise),
           pc[c] # "held", UNCHANGED <<rows, claimed>>,
           NEW u \in Urls \ lapsed, Wanted(u)'
    PROVE  InOneHand(u)' /\ (OneSpelling(u) => IsDue(u)')
<1>1. InOneHand(u) /\ (Wanted(u) => IsQueued(u) /\ (OneSpelling(u) => IsDue(u)))
  BY GuardedIsInOneHand DEF IInv
<1>2. IsDue(u)' = IsDue(u)
  BY DEF IsDue, InTable
<1>3. CASE UNCHANGED <<queue, hold>>
  BY <1>1, <1>2, <1>3, FewerHands
<1>4. CASE \E v \in Urls :
              /\ queue[procOf[c]][v] > 0
              /\ queue' = [queue EXCEPT ![procOf[c]][v] = @ - 1]
              /\ hold' = [hold EXCEPT ![c] = v]
  <2>1. PICK v \in Urls :
              /\ queue[procOf[c]][v] > 0
              /\ queue' = [queue EXCEPT ![procOf[c]][v] = @ - 1]
              /\ hold' = [hold EXCEPT ![c] = v]
    BY <1>4
  <2>2. procOf[c] \in Procs /\ queue \in [Procs -> [Urls -> Nat]] /\ hold \in [Crawlers -> Urls \cup {NoUrl}]
    BY ConstantsAssumption DEF IInv, TypeOK
  <2>3. CASE u # v
    <3>1. \A d \in Crawlers : hold'[d] = u => hold[d] = u
      BY <2>1, <2>2, <2>3
    <3>2. \A p \in Procs : queue'[p][u] = queue[p][u]
      BY <2>1, <2>2, <2>3
    <3>. QED
      BY <1>1, <1>2, <3>1, <3>2, FewerHands
  <2>4. CASE u = v
    <3>1. procOf[c] \in Queues(u)
      BY <2>1, <2>2, <2>4 DEF Queues
    <3>2. Hands(u) = {} /\ Queues(u) = {procOf[c]} /\ queue[procOf[c]][u] = 1 /\ Wanted(u)
      BY <1>1, <3>1 DEF InOneHand, Wanted
    <3>3. Hands(u)' = {c} /\ u \notin claimed'[c]
      BY <2>1, <2>2, <2>4, <3>2 DEF Hands
    <3>4. queue'[procOf[c]][u] = 0
      BY <2>1, <2>2, <2>4, <3>2
    <3>5. \A p \in Procs : p # procOf[c] => queue'[p][u] = queue[p][u]
      BY <2>1, <2>2
    <3>6. Queues(u)' = {}
      BY <3>2, <3>4, <3>5 DEF Queues
    <3>. QED
      BY <1>1, <1>2, <3>2, <3>3, <3>6 DEF InOneHand
  <2>. QED
    BY <2>3, <2>4
<1>. QED
  BY <1>3, <1>4 DEF TryPop

\* A query claims what is in no hand, since what is in a hand is queued.
LEMMA ClaimGuarded ==
    ASSUME IInv, NEW c \in Crawlers, Claim(c), NEW u \in Urls \ lapsed, Wanted(u)'
    PROVE  InOneHand(u)' /\ (OneSpelling(u) => IsDue(u)')
<1>1. InOneHand(u) /\ (Wanted(u) => IsQueued(u) /\ (OneSpelling(u) => IsDue(u)))
  BY GuardedIsInOneHand DEF IInv
<1>2. PICK chosen \in SUBSET Claimable :
          /\ rows' = [v \in Urls |-> IF v \in chosen THEN [rows[v] EXCEPT !.queued = TRUE]
                                                     ELSE rows[v]]
          /\ claimed' = [claimed EXCEPT ![c] = chosen]
  BY DEF Claim, Answers
<1>3. hold' = hold /\ queue' = queue /\ claimed[c] = {} /\ hold[c] \notin Urls
      /\ claimed \in [Crawlers -> SUBSET Urls]
  BY ConstantsAssumption DEF Claim, IInv, HandsMatchPc, TypeOK
<1>4. CASE u \in chosen
  <2>1. IsDue(u) /\ ~IsQueued(u) /\ ~Wanted(u)
    BY <1>1, <1>2, <1>4 DEF Claimable
  <2>2. Hands(u)' = {c} /\ Queues(u)' = {}
    BY <1>2, <1>3, <1>4, <2>1 DEF Hands, Queues, Wanted
  <2>3. InOneHand(u)'
    BY <1>3, <2>2 DEF InOneHand
  <2>4. rows[u] \in Rows /\ rows'[u] = [rows[u] EXCEPT !.queued = TRUE]
    BY <1>2, <1>4, <2>1 DEF IsDue, InTable, IInv, TypeOK
  <2>5. IsDue(u)'
    BY <2>1, <2>4, RowParts DEF IsDue, InTable
  <2>. QED
    BY <2>3, <2>5
<1>5. CASE u \notin chosen
  <2>1. InOneHand(u)' /\ Wanted(u)
    BY <1>1, <1>2, <1>3, <1>5, FewerHands
  <2>2. rows'[u] = rows[u]
    BY <1>2, <1>5
  <2>. QED
    BY <1>1, <2>1, <2>2 DEF IsDue, InTable
<1>. QED
  BY <1>4, <1>5

\* A batch goes from the hand to the queue.
LEMMA EnqueueGuarded ==
    ASSUME IInv, NEW c \in Crawlers, Enqueue(c), NEW u \in Urls \ lapsed, Wanted(u)'
    PROVE  InOneHand(u)' /\ (OneSpelling(u) => IsDue(u)')
<1>1. InOneHand(u) /\ (Wanted(u) => IsQueued(u) /\ (OneSpelling(u) => IsDue(u)))
  BY GuardedIsInOneHand DEF IInv
<1>2. /\ hold' = hold /\ rows' = rows
      /\ claimed' = [claimed EXCEPT ![c] = {}]
      /\ queue' = [queue EXCEPT ![procOf[c]] =
                      [v \in Urls |-> @[v] + IF v \in claimed[c] THEN 1 ELSE 0]]
  BY DEF Enqueue, Refill, Conclude
<1>3. /\ procOf[c] \in Procs /\ queue \in [Procs -> [Urls -> Nat]]
      /\ claimed \in [Crawlers -> SUBSET Urls] /\ hold[c] \notin Urls
  BY ConstantsAssumption DEF Enqueue, IInv, TypeOK, HandsMatchPc
<1>4. \A d \in Crawlers : u \in claimed'[d] => u \in claimed[d]
  BY <1>2, <1>3
<1>5. CASE u \notin claimed[c]
  <2>1. \A p \in Procs : queue'[p][u] = queue[p][u]
    BY <1>2, <1>3, <1>5
  <2>2. InOneHand(u)' /\ Wanted(u)
    BY <1>1, <1>2, <1>4, <2>1, FewerHands
  <2>. QED
    BY <1>1, <1>2, <2>2 DEF IsDue, InTable
<1>6. CASE u \in claimed[c]
  <2>1. Hands(u) = {c} /\ Queues(u) = {} /\ Wanted(u)
    BY <1>1, <1>6 DEF InOneHand, Hands, Wanted
  <2>2. Hands(u)' = {}
    BY <1>2, <1>3, <2>1 DEF Hands
  <2>3. \A p \in Procs : queue[p][u] = 0
    BY <1>3, <2>1 DEF Queues
  <2>4. queue'[procOf[c]][u] = 1
    BY <1>2, <1>3, <1>6, <2>3
  <2>5. \A p \in Procs : p # procOf[c] => queue'[p][u] = 0
    BY <1>2, <1>3, <2>3
  <2>6. InOneHand(u)'
    BY <2>2, <2>4, <2>5 DEF InOneHand, Queues
  <2>. QED
    BY <1>1, <1>2, <2>1, <2>6 DEF IsDue, InTable
<1>. QED
  BY <1>5, <1>6

\* A crawl writes the row of its URL, which nobody else has, and new rows.
LEMMA CrawlGuarded ==
    ASSUME IInv, NEW c \in Crawlers, Block(c) \/ Crawl(c), NEW u \in Urls \ lapsed, Wanted(u)'
    PROVE  InOneHand(u)' /\ (OneSpelling(u) => IsDue(u)')
<1>1. InOneHand(u) /\ (Wanted(u) => IsQueued(u) /\ (OneSpelling(u) => IsDue(u)))
  BY GuardedIsInOneHand DEF IInv
<1>2. /\ hold' = [hold EXCEPT ![c] = NoUrl] /\ claimed' = claimed /\ queue' = queue
      /\ hold \in [Crawlers -> Urls \cup {NoUrl}] /\ NoUrl \notin Urls /\ hold[c] \in Urls
  BY ConstantsAssumption DEF Block, Crawl, IInv, TypeOK, HandsMatchPc
<1>3. InOneHand(u)' /\ Wanted(u)
  BY <1>1, <1>2, FewerHands
<1>4. hold[c] # u
  <2>1. SUFFICES ASSUME hold[c] = u
                 PROVE  ~Wanted(u)'
    OBVIOUS
  <2>2. Hands(u) = {c} /\ Queues(u) = {} /\ u \notin claimed[c]
    BY <1>1, <2>1 DEF InOneHand, Hands
  <2>. QED
    BY <1>2, <2>1, <2>2 DEF Wanted, Hands, Queues
<1>5. ASSUME OneSpelling(u)
      PROVE  IsDue(u)'
  <2>1. IsDue(u)
    BY <1>1, <1>3, <1>5
  <2>2. rows'[u] = rows[u]
    <3>1. CASE Block(c)
      BY <1>4, <3>1 DEF Block, IInv, TypeOK
    <3>2. CASE Crawl(c)
      <4>1. Norm[hold[c]] # u
        BY <1>2, <1>4, <1>5 DEF OneSpelling
      <4>2. PICK row \in Crawled(Norm[hold[c]])
                           \cup {[due |-> FALSE, queued |-> IsQueued(Norm[hold[c]])]},
                 found \in SUBSET (Urls \ InTable) :
              rows' = [v \in Urls |-> IF v = Norm[hold[c]] THEN row
                                      ELSE IF v \in found THEN NewRow ELSE rows[v]]
        BY <3>2 DEF Crawl
      <4>. QED
        BY <2>1, <4>1, <4>2 DEF IsDue
    <3>. QED
      BY <3>1, <3>2
  <2>. QED
    BY <2>1, <2>2 DEF IsDue, InTable
<1>. QED
  BY <1>3, <1>5

\* What a process held is nobody's after its end, but for its seeds.
LEMMA RestartGuarded ==
    ASSUME IInv, NEW p \in Procs, Restart(p),
           NEW u \in Urls \ lapsed, u \notin Seeds, Wanted(u)'
    PROVE  InOneHand(u)' /\ (OneSpelling(u) => IsDue(u)')
<1>1. InOneHand(u) /\ (Wanted(u) => IsQueued(u) /\ (OneSpelling(u) => IsDue(u)))
  BY GuardedIsInOneHand DEF IInv
<1>2. NoUrl \notin Urls /\ SeedQueue[u] = 0
  BY ConstantsAssumption DEF SeedQueue
<1>3. \A c \in Crawlers : /\ hold'[c] = u => hold[c] = u
                          /\ u \in claimed'[c] => u \in claimed[c]
  BY <1>2 DEF Restart
<1>4. \A q \in Procs : queue'[q][u] = queue[q][u] \/ queue'[q][u] = 0
  BY <1>2 DEF Restart, IInv, TypeOK
<1>5. InOneHand(u)' /\ Wanted(u)
  BY <1>1, <1>3, <1>4, FewerHands
<1>. QED
  BY <1>1, <1>5 DEF Restart, IsDue, InTable

\* The others change rows, and those that are wanted and stay queued remain due.
LEMMA OthersGuarded ==
    ASSUME IInv, NEW v \in Urls, AddSeed(v) \/ Purge(v) \/ ClaimLapses(v) \/ BecomesDue(v),
           NEW u \in Urls \ lapsed, Wanted(u)', IsQueued(u)'
    PROVE  InOneHand(u)' /\ (OneSpelling(u) => IsDue(u)')
<1>1. InOneHand(u) /\ (Wanted(u) => IsQueued(u) /\ (OneSpelling(u) => IsDue(u)))
  BY GuardedIsInOneHand DEF IInv
<1>2. UNCHANGED <<hold, claimed, queue>>
  BY DEF AddSeed, Purge, ClaimLapses, BecomesDue, crawler
<1>3. InOneHand(u)' /\ Wanted(u)
  BY <1>1, <1>2, FewerHands
<1>4. CASE u # v
  <2>1. rows'[u] = rows[u]
    BY <1>4 DEF AddSeed, Purge, ClaimLapses, BecomesDue, IInv, TypeOK
  <2>. QED
    BY <1>1, <1>3, <2>1 DEF IsDue, InTable
<1>5. CASE u = v
  <2>1. rows \in [Urls -> Rows \cup {NoRow}] /\ rows[u] \in Rows
    BY <1>1, <1>3 DEF IsQueued, InTable, IInv, TypeOK
  <2>2. CASE AddSeed(v)
    BY <1>1, <1>3, <1>5, <2>2 DEF AddSeed, IsQueued
  <2>3. CASE Purge(v)
    BY <1>5, <2>1, <2>3 DEF Purge, IsQueued, InTable
  <2>4. CASE ClaimLapses(v)
    <3>1. rows'[u].due = rows[u].due /\ rows'[u] # NoRow
      BY <1>5, <2>1, <2>4, RowParts DEF ClaimLapses
    <3>. QED
      BY <1>1, <1>3, <3>1 DEF IsDue, InTable
  <2>5. CASE BecomesDue(v)
    BY <1>1, <1>3, <1>5, <2>5 DEF BecomesDue
  <2>. QED
    BY <2>2, <2>3, <2>4, <2>5
<1>. QED
  BY <1>4, <1>5

LEMMA NextGuarded ==
    ASSUME IInv, Next
    PROVE  WantedAreGuarded'
<1> SUFFICES ASSUME NEW u \in Urls, u \notin lapsed', Wanted(u)'
             PROVE  Guarded(u)'
  BY DEF WantedAreGuarded
<1>1. u \notin Seeds /\ u \notin lapsed /\ IsQueued(u)'
  BY Watched DEF Next
<1>2. ASSUME NEW c \in Crawlers, Step(c) \/ QueryFails(c)
      PROVE  InOneHand(u)' /\ (OneSpelling(u) => IsDue(u)')
  <2>1. CASE Pop(c) \/ Repop(c)
    BY <1>1, <2>1, TryPopGuarded DEF Pop, Repop, PCs
  <2>2. CASE Claim(c)
    BY <1>1, <2>2, ClaimGuarded
  <2>3. CASE Enqueue(c)
    BY <1>1, <2>3, EnqueueGuarded
  <2>4. CASE Block(c) \/ Crawl(c)
    BY <1>1, <2>4, CrawlGuarded
  <2>5. CASE Refilled(c) \/ QueryFails(c)
    <3>1. UNCHANGED <<hold, claimed, queue, rows>>
      BY <2>5 DEF Refilled, QueryFails
    <3>2. InOneHand(u) /\ (Wanted(u) => IsQueued(u) /\ (OneSpelling(u) => IsDue(u)))
      BY <1>1, GuardedIsInOneHand DEF IInv
    <3>3. InOneHand(u)' /\ Wanted(u)
      BY <3>1, <3>2, FewerHands
    <3>. QED
      BY <3>1, <3>2, <3>3 DEF IsDue, InTable
  <2>. QED
    BY <1>2, <2>1, <2>2, <2>3, <2>4, <2>5 DEF Step
<1>3. ASSUME NEW p \in Procs, Restart(p)
      PROVE  InOneHand(u)' /\ (OneSpelling(u) => IsDue(u)')
  BY <1>1, <1>3, RestartGuarded
<1>4. ASSUME NEW v \in Urls, AddSeed(v) \/ Purge(v) \/ ClaimLapses(v) \/ BecomesDue(v)
      PROVE  InOneHand(u)' /\ (OneSpelling(u) => IsDue(u)')
  BY <1>1, <1>4, OthersGuarded
<1>5. InOneHand(u)' /\ (OneSpelling(u) => IsDue(u)')
  BY <1>2, <1>3, <1>4 DEF Next
<1>6. OneSpelling(u)' = OneSpelling(u)
  BY DEF OneSpelling
<1>. QED
  BY <1>1, <1>5, <1>6 DEF Guarded

LEMMA Inductive == IInv /\ [Next]_vars => IInv'
<1> SUFFICES ASSUME IInv, [Next]_vars
             PROVE  IInv'
  OBVIOUS
<1>1. CASE Next
  BY <1>1, NextType, NextHandsMatchPc, NextGuarded DEF IInv
<1>2. CASE UNCHANGED vars
  <2>1. UNCHANGED <<procOf, rows, queue, pct, pc, hold, level, claimed, ageings, faults, lapsed>>
    BY <1>2 DEF vars, crawler, bounds
  <2>2. TypeOK'
    BY <2>1 DEF IInv, TypeOK
  <2>3. HandsMatchPc'
    BY <2>1 DEF IInv, HandsMatchPc
  <2>4. WantedAreGuarded'
    BY <2>1 DEF IInv, WantedAreGuarded, Guarded, InOneHand, Wanted, Hands, Queues, IsQueued, IsDue,
                InTable, OneSpelling
  <2>. QED
    BY <2>2, <2>3, <2>4 DEF IInv
<1>. QED
  BY <1>1, <1>2

LEMMA Invariance == SafeSpec => []IInv
BY InitIInv, Inductive, PTL DEF SafeSpec

-----------------------------------------------------------------------------
(* Theorems *)

\* TypeOK: sample_pct stays within its range, and what is popped from a queue
\* was in it.
THEOREM TypeCorrect == SafeSpec => []TypeOK
<1>1. IInv => TypeOK
  BY DEF IInv
<1>. QED
  BY <1>1, Invariance, PTL

\* ClaimIsExclusive: no row whose claim lasts is in two hands or queues, however
\* many processes and coroutines there are.
THEOREM ClaimExclusive == SafeSpec => []ClaimIsExclusive
<1>1. IInv => ClaimIsExclusive
  <2> SUFFICES ASSUME IInv, NEW u \in Urls \ lapsed
               PROVE  InOneHand(u)
    BY DEF ClaimIsExclusive, InOneHand
  <2>. QED
    BY GuardedIsInOneHand DEF IInv
<1>. QED
  BY <1>1, Invariance, PTL

\* NotRecrawledEarly: a crawl whose claim lasts finds its page due.
THEOREM NoEarlyRecrawl == SafeSpec => NotRecrawledEarly
<1> DEFINE Early == \A c \in Crawlers :
                      Crawl(c) /\ hold[c] \notin lapsed /\ OneSpelling(hold[c]) => IsDue(hold[c])
<1>1. IInv => Early
  <2> SUFFICES ASSUME IInv, NEW c \in Crawlers, Crawl(c),
                      hold[c] \notin lapsed, OneSpelling(hold[c])
               PROVE  IsDue(hold[c])
    OBVIOUS
  <2>1. hold[c] \in Urls
    BY ConstantsAssumption DEF Crawl, IInv, TypeOK, HandsMatchPc
  <2>2. Wanted(hold[c])
    BY <2>1 DEF Wanted, Hands
  <2>. QED
    BY <2>1, <2>2, GuardedIsInOneHand DEF IInv
<1>2. IInv /\ [Next]_vars => [Early]_vars
  BY <1>1
<1>. QED
  BY <1>2, Invariance, PTL DEF SafeSpec, NotRecrawledEarly

-----------------------------------------------------------------------------
(* The sample *)

\* A search that finds too few rows leaves its process with a larger sample
\* than it asked for, unless it asked for all, and only a restart makes the
\* sample of a process smaller again.
SamplesGrow ==
    /\ \A p \in Procs : pct'[p] < pct[p] => Restart(p)
    /\ \A c \in Crawlers :
          Enqueue(c) /\ Cardinality(claimed[c]) < Few =>
              level[c] = Levels \/ level[c] < pct'[procOf[c]]

\* The sample has not become smaller since a query read it.
SampleWasRead == \A c \in Crawlers : level[c] =< pct[procOf[c]]

LEMMA EnqueueSamples ==
    ASSUME TypeOK, SampleWasRead, NEW c \in Crawlers, Enqueue(c), UNCHANGED procOf
    PROVE  /\ SampleWasRead'
           /\ \A p \in Procs : pct[p] =< pct'[p]
           /\ Cardinality(claimed[c]) < Few => level[c] = Levels \/ level[c] < pct'[procOf[c]]
<1>0. /\ pct \in [Procs -> 1..Levels] /\ level \in [Crawlers -> 1..Levels]
      /\ procOf \in [Crawlers -> Procs] /\ Levels \in Nat
  BY ConstantsAssumption DEF TypeOK, ConstantsAssumption
<1>1. level' = [level EXCEPT ![c] = 1]
  BY DEF Enqueue, Conclude
<1>2. \/ /\ pct' = [pct EXCEPT ![procOf[c]] = pct[procOf[c]] + 1]
         /\ pct[procOf[c]] = level[c]
      \/ /\ pct' = pct
         /\ ~(Swaps(c, procOf[c]) /\ pct[procOf[c]] < Levels)
  <2>1. CASE Swaps(c, procOf[c]) /\ pct[procOf[c]] < Levels
    BY <2>1 DEF Enqueue, Swaps
  <2>2. CASE ~(Swaps(c, procOf[c]) /\ pct[procOf[c]] < Levels)
    <3>1. pct' = [pct EXCEPT ![procOf[c]] = pct[procOf[c]]]
      BY <2>2 DEF Enqueue
    <3>. QED
      BY <1>0, <2>2, <3>1
  <2>. QED
    BY <2>1, <2>2
<1>3. \A p \in Procs : pct[p] \in Nat /\ pct'[p] \in Nat /\ pct[p] =< pct'[p]
  BY <1>0, <1>2
<1>4. \A d \in Crawlers : level'[d] \in Nat /\ level[d] \in Nat /\ level'[d] =< level[d]
  BY <1>0, <1>1
<1>5. SampleWasRead'
  BY <1>0, <1>3, <1>4 DEF SampleWasRead
<1>6. Cardinality(claimed[c]) < Few => level[c] = Levels \/ level[c] < pct'[procOf[c]]
  <2>1. level[c] =< pct[procOf[c]] /\ level[c] =< Levels
    BY <1>0 DEF SampleWasRead
  <2>2. CASE pct[procOf[c]] = level[c]
    BY <1>0, <1>2, <2>1, <2>2 DEF Swaps
  <2>3. CASE pct[procOf[c]] # level[c]
    BY <1>0, <1>2, <2>1, <2>3
  <2>. QED
    BY <2>2, <2>3
<1>. QED
  BY <1>3, <1>5, <1>6

LEMMA RestartSamples ==
    ASSUME TypeOK, SampleWasRead, NEW p \in Procs, Restart(p), UNCHANGED procOf
    PROVE  /\ SampleWasRead'
           /\ \A q \in Procs : pct'[q] < pct[q] => q = p
<1>0. /\ pct \in [Procs -> 1..Levels] /\ level \in [Crawlers -> 1..Levels]
      /\ procOf \in [Crawlers -> Procs]
  BY ConstantsAssumption DEF TypeOK, ConstantsAssumption
<1>1. /\ pct' = [pct EXCEPT ![p] = 1]
      /\ level' = [c \in Crawlers |-> IF procOf[c] = p THEN 1 ELSE level[c]]
  BY DEF Restart
<1>2. SampleWasRead'
  BY <1>0, <1>1 DEF SampleWasRead
<1>3. \A q \in Procs : pct'[q] < pct[q] => q = p
  BY <1>0, <1>1
<1>. QED
  BY <1>2, <1>3

LEMMA Samples == TypeOK /\ SampleWasRead /\ [Next]_vars => SampleWasRead' /\ [SamplesGrow]_vars
<1> SUFFICES ASSUME TypeOK, SampleWasRead, [Next]_vars
             PROVE  SampleWasRead' /\ SamplesGrow
  OBVIOUS
<1>0. /\ pct \in [Procs -> 1..Levels] /\ level \in [Crawlers -> 1..Levels]
      /\ procOf \in [Crawlers -> Procs] /\ procOf' = procOf
  BY ConstantsAssumption DEF TypeOK, ConstantsAssumption, Next, Watch, vars
<1> DEFINE Raised == \A c \in Crawlers :
              Enqueue(c) /\ Cardinality(claimed[c]) < Few =>
                  level[c] = Levels \/ level[c] < pct'[procOf[c]]
<1>1. Raised
  BY <1>0, EnqueueSamples
<1>2. ASSUME NEW c \in Crawlers, Enqueue(c)
      PROVE  SampleWasRead' /\ SamplesGrow
  <2>1. \A p \in Procs : ~(pct'[p] < pct[p])
    <3> SUFFICES ASSUME NEW p \in Procs
                 PROVE  ~(pct'[p] < pct[p])
      OBVIOUS
    <3>1. pct[p] \in Nat /\ pct'[p] \in Nat /\ pct[p] =< pct'[p]
      BY <1>0, <1>2, EnqueueSamples DEF Enqueue, TypeOK
    <3>. QED
      BY <3>1
  <2>. QED
    BY <1>0, <1>1, <1>2, <2>1, EnqueueSamples DEF SamplesGrow
<1>3. ASSUME NEW p \in Procs, Restart(p)
      PROVE  SampleWasRead' /\ SamplesGrow
  BY <1>0, <1>1, <1>3, RestartSamples DEF SamplesGrow
<1>4. ASSUME pct' = pct, SampleWasRead'
      PROVE  SampleWasRead' /\ SamplesGrow
  <2>1. \A p \in Procs : ~(pct'[p] < pct[p])
    BY <1>0, <1>4
  <2>. QED
    BY <1>1, <1>4, <2>1 DEF SamplesGrow
<1>5. ASSUME NEW c \in Crawlers, Claim(c)
      PROVE  SampleWasRead' /\ SamplesGrow
  <2>1. pct' = pct /\ level' = [level EXCEPT ![c] = pct[procOf[c]]]
    BY <1>5 DEF Claim
  <2>2. SampleWasRead'
    BY <1>0, <2>1 DEF SampleWasRead
  <2>. QED
    BY <1>4, <2>1, <2>2
<1>6. CASE pct' = pct /\ level' = level
  BY <1>0, <1>4, <1>6 DEF SampleWasRead
<1>7. ASSUME NEW c \in Crawlers, Pop(c) \/ Refilled(c) \/ Repop(c) \/ Block(c) \/ Crawl(c) \/ QueryFails(c)
      PROVE  pct' = pct /\ level' = level
  BY <1>7 DEF Pop, Refilled, Repop, Block, Crawl, QueryFails
<1>8. ASSUME NEW u \in Urls, AddSeed(u) \/ Purge(u) \/ ClaimLapses(u) \/ BecomesDue(u)
      PROVE  pct' = pct /\ level' = level
  BY <1>8 DEF AddSeed, Purge, ClaimLapses, BecomesDue, crawler
<1>9. CASE UNCHANGED vars
  BY <1>6, <1>9 DEF vars, crawler
<1>. QED
  BY <1>2, <1>3, <1>5, <1>6, <1>7, <1>8, <1>9 DEF Next, Step

\* SamplesGrow, in every step: however the coroutines of a process take turns
\* between their queries and the compare_exchange_strong of sample_pct, none
\* repeats a sample that was too small for it, and none takes back the growth
\* another has brought about: a process that goes on finding too few rows comes
\* to ask for all.
THEOREM SamplesGrowing == SafeSpec => [][SamplesGrow]_vars
<1>1. Init => SampleWasRead
  <2> SUFFICES ASSUME Init, NEW c \in Crawlers
               PROVE  level[c] =< pct[procOf[c]]
    BY DEF SampleWasRead
  <2>1. level[c] = 1 /\ pct[procOf[c]] = 1
    BY ConstantsAssumption DEF Init, ConstantsAssumption
  <2>. QED
    BY <2>1
<1>. QED
  BY <1>1, TypeCorrect, Samples, PTL DEF SafeSpec

=============================================================================
