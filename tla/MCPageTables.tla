---------------------------- MODULE MCPageTables ----------------------------
(* Tables of three entries: nine pages of three words, five of them free. *)
EXTENDS PageTables
=============================================================================
