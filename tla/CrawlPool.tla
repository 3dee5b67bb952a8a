------------------------------ MODULE CrawlPool ------------------------------
(***************************************************************************)
(* What the crawler's dispatcher promises, with no word of how it does it: *)
(* a pool that works on at most MaxConn URLs at a time, that starts a URL  *)
(* only when one is waiting, and that does not leave work waiting for ever *)
(* without stopping.  It promises neither to stop only when nothing is     *)
(* waiting nor to stop when nothing is: CrawlDispatch shows that the code  *)
(* can do without either.                                                  *)
(***************************************************************************)
EXTENDS Naturals

CONSTANT MaxConn        \* the -c option of the crawler

VARIABLES waiting,      \* URLs known and not yet handed to a crawl
          running,      \* URLs in the hands of a crawl
          stopped       \* the crawler has declared the end of the crawl

vars == <<waiting, running, stopped>>

Init == /\ waiting \in Nat
        /\ running = 0
        /\ stopped = FALSE

\* A crawl takes a URL.  It may do so shortly after the pool was stopped.
Start == /\ waiting > 0
         /\ running < MaxConn
         /\ waiting' = waiting - 1
         /\ running' = running + 1
         /\ UNCHANGED stopped

\* A crawl is through with its URL and has added the links it found.
Finish == /\ running > 0
          /\ running' = running - 1
          /\ waiting' \in Nat
          /\ waiting' >= waiting
          /\ UNCHANGED stopped

Stop == /\ ~stopped
        /\ stopped' = TRUE
        /\ UNCHANGED <<waiting, running>>

Next == Start \/ Finish \/ Stop

\* The absence of a hang: a pool in which work goes on waiting starts some,
\* or stops.
Spec == Init /\ [][Next]_vars
             /\ WF_vars(waiting > 0 /\ ~stopped /\ (Start \/ Stop))

\* The safety part alone.
SafeSpec == Init /\ [][Next]_vars

=============================================================================
