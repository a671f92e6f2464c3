-------------------------------- MODULE Recovery --------------------------------
(***************************************************************************)
(* Proportional rate reduction, congestion/prr.c: while it recovers from a *)
(* loss the sender may send in proportion to what the peer acknowledges.   *)
(***************************************************************************)
EXTENDS Naturals

(* prr_init                                                                *)
PrrInit == [sent |-> 0, delivered |-> 0, acked |-> 0, flight |-> 0]

(* prr_packet_loss                                                         *)
PrrPacketLoss(flight) == [PrrInit EXCEPT !.flight = flight]

(* prr_received_ack                                                        *)
PrrReceivedAck(prr, bytes) ==
  [prr EXCEPT !.delivered = @ + bytes, !.acked = @ + 1]

(* Mutant of PrrSent: a packet that is sent is not counted.               *)
PrrSentUncounted(prr, bytes) == prr

(* What congestion_on_sent adds while it recovers.                         *)
PrrSent(prr, bytes) == [prr EXCEPT !.sent = @ + bytes]

(* prr_check_send                                                          *)
PrrCheckSend(prr, mss, cwnd, flight, threshold) ==
  \/ prr.sent = 0
  \/ flight < mss
  \/ cwnd > flight /\ prr.delivered + prr.acked * mss > prr.sent
  \/ cwnd <= flight /\ prr.delivered * threshold > prr.sent * prr.flight
=============================================================================
