--------------------------- MODULE RedirectsProofs ---------------------------
(***************************************************************************)
(* What holds of the redirect loop for any number of crawls and URLs.      *)
(***************************************************************************)
EXTENDS Redirects, TLAPS

\* Every redirect that is saved leads to a URL shouldCrawl has allowed.
SavedAreVetted == \A u \in Urls : redirects[u] # NoUrl => redirects[u] \in vetted

\* What a crawl is about to do is vetted, and redirection_count pays for it:
\* a fresh redirect costs one, a saved one two, and the last may overdraw.
Sound(c) ==
    /\ pc[c] = "idle" => requests[c] = 0 /\ hops[c] = 0 /\ count[c] = 0
    /\ pc[c] \in {"lookup", "request"} =>
          /\ cur[c] \in Urls /\ cur[c] \in vetted
          /\ requests[c] =< count[c] /\ hops[c] =< count[c]
          /\ count[c] =< MaxRedirects
    /\ pc[c] \in {"vet", "save"} =>
          /\ cur[c] \in Urls /\ target[c] \in Urls
          /\ requests[c] =< count[c] + 1 /\ hops[c] =< count[c]
          /\ count[c] =< MaxRedirects
    /\ pc[c] = "save" => target[c] \in vetted
    /\ requests[c] =< MaxRedirects + 1 /\ hops[c] =< MaxRedirects + 1

\* The inductive invariant.
IInv == TypeOK /\ SavedAreVetted /\ \A c \in Crawls : Sound(c)

LEMMA InitIInv == Init => IInv
<1> SUFFICES ASSUME Init
             PROVE  IInv
  OBVIOUS
<1>1. TypeOK
  BY DEF Init, TypeOK, PCs, Status, MaxRedirects
<1>2. SavedAreVetted
  BY DEF Init, SavedAreVetted
<1>3. ASSUME NEW c \in Crawls
      PROVE  Sound(c)
  <2>1. pc[c] = "idle" /\ requests[c] = 0 /\ hops[c] = 0 /\ count[c] = 0
    BY DEF Init
  <2>. QED
    BY <2>1 DEF Sound, MaxRedirects
<1>. QED
  BY <1>1, <1>2, <1>3 DEF IInv

\* What another crawl does leaves a crawl's own variables as they are.
LEMMA OthersSound ==
    ASSUME NEW d \in Crawls, Sound(d), vetted \subseteq vetted',
           pc'[d] = pc[d], cur'[d] = cur[d], count'[d] = count[d], target'[d] = target[d],
           requests'[d] = requests[d], hops'[d] = hops[d]
    PROVE  Sound(d)'
  BY DEF Sound

LEMMA AdvanceSound ==
    ASSUME IInv, NEW c \in Crawls, NEW url \in Urls, NEW n \in 0..(MaxRedirects + 1),
           Advance(c, url, n), url \in vetted', vetted \subseteq vetted',
           requests' = requests, requests[c] =< n + 1, hops[c] =< n, hops[c] =< MaxRedirects
    PROVE  /\ \A d \in Crawls : Sound(d)'
           /\ pc' \in [Crawls -> PCs] /\ cur' \in [Crawls -> Urls \cup {NoUrl}]
           /\ count' \in [Crawls -> 0..(MaxRedirects + 2)]
           /\ target' \in [Crawls -> Urls \cup {NoUrl}] /\ hops' \in [Crawls -> Nat]
<1> USE DEF IInv, TypeOK, Advance, Goto, PCs, MaxRedirects
<1>1. /\ pc' \in [Crawls -> PCs] /\ cur' \in [Crawls -> Urls \cup {NoUrl}]
      /\ count' \in [Crawls -> 0..(MaxRedirects + 2)]
      /\ target' \in [Crawls -> Urls \cup {NoUrl}] /\ hops' \in [Crawls -> Nat]
  OBVIOUS
<1>2. Sound(c)'
  BY <1>1 DEF Sound
<1>3. ASSUME NEW d \in Crawls, d # c
      PROVE  Sound(d)'
  BY <1>3, OthersSound
<1>. QED
  BY <1>1, <1>2, <1>3

LEMMA EndSound ==
    ASSUME IInv, NEW c \in Crawls, End(c)
    PROVE  IInv'
<1> USE DEF IInv, End, Goto
<1>1. TypeOK'
  BY DEF TypeOK, PCs, Status, MaxRedirects
<1>2. SavedAreVetted'
  BY DEF SavedAreVetted
<1>3. Sound(c)'
  BY DEF Sound, TypeOK, MaxRedirects
<1>4. ASSUME NEW d \in Crawls, d # c
      PROVE  Sound(d)'
  BY <1>4, OthersSound DEF TypeOK
<1>. QED
  BY <1>1, <1>2, <1>3, <1>4

LEMMA StepSound ==
    ASSUME IInv, NEW c \in Crawls, Begin(c) \/ Step(c)
    PROVE  IInv'
<1>0. Sound(c) /\ TypeOK /\ SavedAreVetted
  BY DEF IInv
<1>1. CASE Begin(c)
  <2> USE <1>1 DEF Begin, Goto
  <2>1. TypeOK'
    BY <1>0 DEF TypeOK, PCs
  <2>2. SavedAreVetted'
    BY <1>0 DEF SavedAreVetted
  <2>3. Sound(c)'
    BY <1>0 DEF Sound, TypeOK, MaxRedirects
  <2>4. ASSUME NEW d \in Crawls, d # c
        PROVE  Sound(d)'
    BY <2>4, OthersSound DEF IInv, TypeOK
  <2>. QED
    BY <2>1, <2>2, <2>3, <2>4 DEF IInv
<1>2. CASE FollowCached(c)
  <2> USE <1>2 DEF FollowCached
  <2>1. cur[c] \in Urls /\ redirects[cur[c]] \in Urls /\ redirects[cur[c]] \in vetted
    BY <1>0 DEF Sound, TypeOK, SavedAreVetted
  <2>2. /\ count[c] + 1 \in 0..(MaxRedirects + 1)
        /\ requests[c] =< count[c] + 1 + 1 /\ hops[c] =< count[c] + 1 /\ hops[c] =< MaxRedirects
    BY <1>0 DEF Sound, TypeOK, MaxRedirects
  <2>3. /\ \A d \in Crawls : Sound(d)'
        /\ pc' \in [Crawls -> PCs] /\ cur' \in [Crawls -> Urls \cup {NoUrl}]
        /\ count' \in [Crawls -> 0..(MaxRedirects + 2)]
        /\ target' \in [Crawls -> Urls \cup {NoUrl}] /\ hops' \in [Crawls -> Nat]
    BY <2>1, <2>2, AdvanceSound
  <2>. QED
    BY <1>0, <2>3 DEF IInv, TypeOK, SavedAreVetted, Status
<1>3. CASE NotCached(c)
  <2> USE <1>3 DEF NotCached, Goto
  <2>1. TypeOK' /\ SavedAreVetted'
    BY <1>0 DEF TypeOK, PCs, SavedAreVetted
  <2>2. Sound(c)'
    BY <1>0 DEF Sound, TypeOK
  <2>3. ASSUME NEW d \in Crawls, d # c
        PROVE  Sound(d)'
    BY <2>3, OthersSound DEF IInv, TypeOK
  <2>. QED
    BY <2>1, <2>2, <2>3 DEF IInv
<1>4. CASE Request(c)
  <2> USE <1>4 DEF Request, Goto
  <2>1. TypeOK'
    BY <1>0 DEF TypeOK, PCs, Status, Answers, Redirections
  <2>2. SavedAreVetted'
    BY <1>0 DEF SavedAreVetted
  <2>3. Sound(c)'
    BY <1>0 DEF Sound, TypeOK, MaxRedirects
  <2>4. ASSUME NEW d \in Crawls, d # c
        PROVE  Sound(d)'
    BY <2>4, OthersSound DEF IInv, TypeOK
  <2>. QED
    BY <2>1, <2>2, <2>3, <2>4 DEF IInv
<1>5. CASE Vet(c)
  <2> USE <1>5 DEF Vet
  <2>1. target[c] \in Urls /\ target[c] \in vetted' /\ vetted \subseteq vetted' /\ vetted' \subseteq Urls
    BY <1>0 DEF Sound, TypeOK
  <2>2. SavedAreVetted'
    BY <1>0, <2>1 DEF SavedAreVetted
  <2>3. CASE status[c] = "permanent"
    <3> USE <2>3 DEF Goto
    <3>1. TypeOK'
      BY <1>0, <2>1 DEF TypeOK, PCs
    <3>2. Sound(c)'
      BY <1>0, <2>1 DEF Sound, TypeOK
    <3>3. ASSUME NEW d \in Crawls, d # c
          PROVE  Sound(d)'
      BY <2>1, <3>3, OthersSound DEF IInv, TypeOK
    <3>. QED
      BY <2>2, <3>1, <3>2, <3>3 DEF IInv
  <2>4. CASE status[c] # "permanent"
    <3>1. /\ count[c] \in 0..(MaxRedirects + 1)
          /\ requests[c] =< count[c] + 1 /\ hops[c] =< count[c] /\ hops[c] =< MaxRedirects
      BY <1>0 DEF Sound, TypeOK, MaxRedirects
    <3>2. Advance(c, target[c], count[c])
      BY <2>4
    <3>3. /\ \A d \in Crawls : Sound(d)'
          /\ pc' \in [Crawls -> PCs] /\ cur' \in [Crawls -> Urls \cup {NoUrl}]
          /\ count' \in [Crawls -> 0..(MaxRedirects + 2)]
          /\ target' \in [Crawls -> Urls \cup {NoUrl}] /\ hops' \in [Crawls -> Nat]
      BY <2>1, <3>1, <3>2, AdvanceSound
    <3>. QED
      BY <1>0, <2>1, <2>2, <3>3 DEF IInv, TypeOK
  <2>. QED
    BY <2>3, <2>4
<1>6. CASE Save(c)
  <2> USE <1>6 DEF Save
  <2>1. cur[c] \in Urls /\ target[c] \in Urls /\ target[c] \in vetted
    BY <1>0 DEF Sound
  <2>2. /\ count[c] \in 0..(MaxRedirects + 1)
        /\ requests[c] =< count[c] + 1 /\ hops[c] =< count[c] /\ hops[c] =< MaxRedirects
    BY <1>0 DEF Sound, TypeOK, MaxRedirects
  <2>3. /\ \A d \in Crawls : Sound(d)'
        /\ pc' \in [Crawls -> PCs] /\ cur' \in [Crawls -> Urls \cup {NoUrl}]
        /\ count' \in [Crawls -> 0..(MaxRedirects + 2)]
        /\ target' \in [Crawls -> Urls \cup {NoUrl}] /\ hops' \in [Crawls -> Nat]
    BY <2>1, <2>2, AdvanceSound
  <2>4. redirects' \in [Urls -> Urls \cup {NoUrl}] /\ SavedAreVetted'
    BY <1>0, <2>1 DEF TypeOK, SavedAreVetted
  <2>. QED
    BY <1>0, <2>3, <2>4 DEF IInv, TypeOK
<1>7. CASE GiveUp(c) \/ Conclude(c) \/ Throw(c)
  BY <1>7, EndSound DEF GiveUp, Conclude, Throw
<1>. QED
  BY <1>1, <1>2, <1>3, <1>4, <1>5, <1>6, <1>7 DEF Step

LEMMA ForbidSound ==
    ASSUME IInv, Forbid
    PROVE  IInv'
  BY DEF IInv, Forbid, TypeOK, SavedAreVetted, Sound, crawl

LEMMA StutterSound ==
    ASSUME IInv, UNCHANGED vars
    PROVE  IInv'
  BY DEF IInv, TypeOK, SavedAreVetted, Sound, vars, crawl

LEMMA Invariance == SafeSpec => []IInv
<1>1. IInv /\ [Next]_vars => IInv'
  BY StepSound, ForbidSound, StutterSound DEF Next
<1>. QED
  BY InitIInv, <1>1, PTL DEF SafeSpec

\* Type correctness of the redirect loop for any crawls and URLs.
THEOREM TypeCorrect == SafeSpec => []TypeOK
<1>1. IInv => TypeOK
  BY DEF IInv
<1>. QED
  BY Invariance, <1>1, PTL

\* Whatever redirects capsules answer with and crawls save for one another,
\* only URLs shouldCrawl has allowed are requested.
THEOREM RequestsAreVetted == SafeSpec => []OnlyVettedRequested
<1>1. IInv => OnlyVettedRequested
  BY DEF IInv, Sound, OnlyVettedRequested
<1>. QED
  BY Invariance, <1>1, PTL

\* No chain or cycle of redirects, fresh or saved, costs a capsule more than
\* six requests.
THEOREM RedirectsAreBounded == SafeSpec => []LoopIsBounded
<1>1. ASSUME IInv, NEW c \in Crawls
      PROVE  /\ requests[c] =< MaxRedirects + 1
             /\ hops[c] =< MaxRedirects + 1
             /\ pc[c] = "request" => requests[c] =< MaxRedirects /\ hops[c] =< MaxRedirects
  <2>1. /\ requests[c] \in Nat /\ hops[c] \in Nat /\ count[c] \in 0..(MaxRedirects + 2)
        /\ Sound(c)
    BY <1>1 DEF IInv, TypeOK
  <2>. QED
    BY <2>1 DEF Sound, MaxRedirects
<1>2. IInv => LoopIsBounded
  BY <1>1 DEF LoopIsBounded
<1>. QED
  BY Invariance, <1>2, PTL

-----------------------------------------------------------------------------
(* What is left of a crawl: the reason for which CrawlEnds needs weak        *)
(* fairness and nothing else                                                 *)

\* A bound on the steps a crawl has left: four for each redirect it may still
\* follow, those of the present round, and the end.
Left(c) ==
    LET further == 4 * (MaxRedirects - count[c])
    IN  CASE pc[c] = "lookup"  -> further + 5
          [] pc[c] = "request" -> further + 4
          [] pc[c] = "vet"     -> further + 3
          [] pc[c] = "save"    -> further + 2
          [] pc[c] = "done"    -> 1
          [] OTHER             -> 0

LEMMA LeftIsNumber ==
    ASSUME IInv, NEW c \in Crawls
    PROVE  /\ Left(c) \in 0..25
           /\ count[c] \in Nat /\ pc[c] \in PCs
           /\ pc[c] \in {"lookup", "request", "vet", "save"} =>
                 Left(c) >= 2 /\ count[c] =< MaxRedirects
<1>1. count[c] \in 0..(MaxRedirects + 2) /\ pc[c] \in PCs /\ Sound(c)
  BY DEF IInv, TypeOK
<1>. QED
  BY <1>1 DEF Left, Sound, PCs, MaxRedirects

LEMMA AdvanceRunsDown ==
    ASSUME IInv, NEW c \in Crawls, pc[c] \in {"lookup", "vet", "save"},
           NEW url, NEW n \in Nat, n >= count[c], Advance(c, url, n)
    PROVE  Left(c)' < Left(c)
<1>1. /\ pc'[c] = (IF n < MaxRedirects THEN "lookup" ELSE "done") /\ count'[c] = n + 1
  BY DEF IInv, TypeOK, Advance, Goto
<1>2. /\ count[c] \in Nat /\ count[c] =< MaxRedirects /\ Left(c) >= 2 /\ Left(c) \in Nat
      /\ Left(c) >= 4 * (MaxRedirects - count[c]) + 2
  BY LeftIsNumber DEF Left, MaxRedirects
<1>3. CASE n < MaxRedirects
  <2>1. Left(c)' = 4 * (MaxRedirects - (n + 1)) + 5
    BY <1>1, <1>3 DEF Left
  <2>. QED
    BY <1>2, <1>3, <2>1 DEF MaxRedirects
<1>4. CASE ~(n < MaxRedirects)
  <2>1. Left(c)' = 1
    BY <1>1, <1>4 DEF Left
  <2>. QED
    BY <1>2, <2>1
<1>. QED
  BY <1>3, <1>4

LEMMA StepRunsDown ==
    ASSUME IInv, NEW c \in Crawls, Step(c)
    PROVE  Left(c)' < Left(c)
<1>0. /\ count[c] \in Nat /\ pc[c] \in PCs /\ TypeOK
      /\ pc[c] \in {"lookup", "request", "vet", "save"} =>
            Left(c) >= 2 /\ Left(c) \in Nat /\ count[c] =< MaxRedirects
  BY LeftIsNumber DEF IInv
<1>1. CASE FollowCached(c)
  BY <1>0, <1>1, AdvanceRunsDown DEF FollowCached
<1>2. CASE NotCached(c)
  BY <1>0, <1>2 DEF NotCached, Goto, Left, TypeOK, MaxRedirects
<1>3. CASE Request(c)
  <2>1. pc[c] = "request" /\ count'[c] = count[c] /\ pc'[c] \in {"vet", "done"}
    BY <1>0, <1>3 DEF Request, Goto, TypeOK
  <2>. QED
    BY <1>0, <2>1 DEF Left, MaxRedirects
<1>4. CASE Vet(c)
  <2>1. CASE status[c] = "permanent"
    <3>1. pc[c] = "vet" /\ count'[c] = count[c] /\ pc'[c] = "save"
      BY <1>0, <1>4, <2>1 DEF Vet, Goto, TypeOK
    <3>. QED
      BY <1>0, <3>1 DEF Left, MaxRedirects
  <2>2. CASE status[c] # "permanent"
    BY <1>0, <1>4, <2>2, AdvanceRunsDown DEF Vet
  <2>. QED
    BY <2>1, <2>2
<1>5. CASE Save(c)
  BY <1>0, <1>5, AdvanceRunsDown DEF Save
<1>6. CASE GiveUp(c) \/ Conclude(c) \/ Throw(c)
  <2>1. /\ pc'[c] = "idle"
        /\ pc[c] = "done" \/ pc[c] \in {"lookup", "request", "vet", "save"}
    BY <1>0, <1>6 DEF GiveUp, Conclude, Throw, End, Goto, TypeOK
  <2>2. Left(c)' = 0
    BY <2>1 DEF Left
  <2>3. pc[c] = "done" => Left(c) = 1
    BY DEF Left
  <2>. QED
    BY <1>0, <2>1, <2>2, <2>3
<1>. QED
  BY <1>1, <1>2, <1>3, <1>4, <1>5, <1>6 DEF Step

\* What other crawls do, to perma_redirects too, gives a crawl no more to do.
LEMMA OthersLeaveLeft ==
    ASSUME IInv, NEW c \in Crawls, Next, pc[c] # "idle"
    PROVE  Left(c)' =< Left(c)
<1>1. Left(c) \in Nat
  BY LeftIsNumber
<1>2. ASSUME pc'[c] = pc[c], count'[c] = count[c]
      PROVE  Left(c)' =< Left(c)
  BY <1>1, <1>2 DEF Left
<1>3. CASE Forbid
  BY <1>2, <1>3 DEF Forbid, crawl
<1>4. ASSUME NEW d \in Crawls, Begin(d) \/ Step(d), d # c
      PROVE  pc'[c] = pc[c] /\ count'[c] = count[c]
  <2>1. pc \in [Crawls -> PCs] /\ count \in [Crawls -> 0..(MaxRedirects + 2)]
    BY DEF IInv, TypeOK
  <2>. QED
    BY <1>4, <2>1 DEF Begin, Step, FollowCached, NotCached, Request, Vet, Save, GiveUp, Conclude, Throw,
                      Advance, End, Goto
<1>5. ASSUME Begin(c) \/ Step(c)
      PROVE  Left(c)' =< Left(c)
  <2>1. Step(c)
    BY <1>5 DEF Begin
  <2>2. IInv' /\ Left(c)' < Left(c)
    BY <2>1, StepRunsDown, StepSound
  <2>3. Left(c)' \in Nat
    <3>1. count'[c] \in 0..(MaxRedirects + 2) /\ pc'[c] \in PCs /\ Sound(c)'
      BY <2>2 DEF IInv, TypeOK
    <3>2. pc'[c] \in {"lookup", "request", "vet", "save"} => count'[c] =< MaxRedirects
      BY <3>1 DEF Sound
    <3>3. Left(c)' \in {4 * (MaxRedirects - count'[c]) + 5, 4 * (MaxRedirects - count'[c]) + 4,
                        4 * (MaxRedirects - count'[c]) + 3, 4 * (MaxRedirects - count'[c]) + 2, 1, 0}
      BY <3>1 DEF Left, PCs
    <3>4. pc'[c] \notin {"lookup", "request", "vet", "save"} => Left(c)' \in {0, 1}
      BY <3>1 DEF Left, PCs
    <3>. QED
      BY <3>1, <3>2, <3>3, <3>4 DEF MaxRedirects
  <2>. QED
    BY <1>1, <2>2, <2>3
<1>. QED
  BY <1>2, <1>3, <1>4, <1>5 DEF Next

\* No crawl goes round for ever: each of its steps lowers a bound that is 25 at
\* most, and nobody else raises it, however fresh and saved redirects alternate.
LoopRunsDown ==
    [][\A c \in Crawls : /\ Step(c) => Left(c)' < Left(c)
                         /\ pc[c] # "idle" => Left(c)' =< Left(c)]_vars

THEOREM CrawlRunsDown == SafeSpec => LoopRunsDown /\ [](\A c \in Crawls : Left(c) \in 0..25)
<1>1. IInv /\ [Next]_vars =>
        [\A c \in Crawls : /\ Step(c) => Left(c)' < Left(c)
                           /\ pc[c] # "idle" => Left(c)' =< Left(c)]_vars
  <2> SUFFICES ASSUME IInv, Next, NEW c \in Crawls
               PROVE  /\ Step(c) => Left(c)' < Left(c)
                      /\ pc[c] # "idle" => Left(c)' =< Left(c)
    OBVIOUS
  <2>. QED
    BY StepRunsDown, OthersLeaveLeft
<1>2. IInv => \A c \in Crawls : Left(c) \in 0..25
  BY LeftIsNumber
<1>. QED
  BY Invariance, <1>1, <1>2, PTL DEF SafeSpec, LoopRunsDown

=============================================================================
