----------------------------- MODULE MCSentHistory -----------------------------
(* Small instances of SentHistory for TLC.                                 *)
EXTENDS SentHistory
=============================================================================
