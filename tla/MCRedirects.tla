----------------------------- MODULE MCRedirects -----------------------------
(* Instances of Redirects for TLC. *)
EXTENDS Redirects, TLC
=============================================================================
