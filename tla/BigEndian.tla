------------------------------- MODULE BigEndian -------------------------------
(***************************************************************************)
(* Numbers in network order, util/bigendian.c.                             *)
(***************************************************************************)
EXTENDS Varint

(* bigendian_encode: the low n bytes of v.                                 *)
BigEndianEncode(v, n) == Digits(v, n)

(* bigendian_decode into a variable that holds old, on a host that keeps   *)
(* the low byte first: the bytes above those it is given stay.             *)
BigEndianDecode(old, bytes) ==
  (old - (old % Power[Len(bytes)])) + Worth(bytes)
=============================================================================
