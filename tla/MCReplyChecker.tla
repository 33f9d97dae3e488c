--------------------------- MODULE MCReplyChecker ---------------------------
(* Instances of ReplyChecker for TLC. *)
EXTENDS ReplyChecker
=============================================================================
