---------------------------- MODULE MCCrawlClaim ----------------------------
(* An instance of CrawlClaim for TLC: two coroutines, of one process or of   *)
(* two, and URLs with one spelling.                                          *)
EXTENDS CrawlClaim, TLC

CONSTANTS c1, c2, A, B, page, other

MCPlacements == {c1 :> A @@ c2 :> A, c1 :> A @@ c2 :> B}
MCNorm == [u \in Urls |-> u]

=============================================================================
