----------------------------- MODULE MCWebPage -----------------------------
(* Small instances of WebPage. *)
EXTENDS WebPage
=============================================================================
