----------------------------- MODULE MCAckExchange -----------------------------
(* Small instances of AckExchange for TLC.  With Low = 2 a byte has three  *)
(* bits: integers below 2, 16, 1024 and 2^22 take 1, 2, 4 and 8 bytes.     *)
EXTENDS AckExchange

MCEcn == <<1, 2, 16>>
MCRests == {<<>>, <<3>>}
=============================================================================
