--------------------------- MODULE MCPacketNumber ---------------------------
(* Small instances of PacketNumber for TLC.                                *)
EXTENDS PacketNumber
=============================================================================
