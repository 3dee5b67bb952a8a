----------------------------- MODULE MCPageIndex -----------------------------
(* Instances of PageIndex for TLC: three contents, the last without links. *)
EXTENDS PageIndex, TLC

CONSTANTS c1, c2, c3, t1, t2

MCContents == {c1, c2, c3}
MCTargets == {t1, t2}
MCLinksOf == c1 :> {t1} @@ c2 :> {t1, t2} @@ c3 :> {}

=============================================================================
