------------------------- MODULE MCReceivedHistory -------------------------
(* Small instances of ReceivedHistory for TLC.                             *)
EXTENDS ReceivedHistory
=============================================================================
