---------------------------- MODULE MCFetchText ----------------------------
(* Histories of up to nine commits, in pages of two.                      *)
EXTENDS FetchText

FirstAndLater == {1, 2}
=============================================================================
