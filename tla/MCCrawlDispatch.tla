--------------------------- MODULE MCCrawlDispatch ---------------------------
(* Instances of CrawlDispatch for TLC: the .cfg files give the constants.    *)
(* The slots of calls are not declared symmetric: CrawlDispatch!Free already *)
(* takes them in one order.                                                  *)
EXTENDS CrawlDispatch

=============================================================================
