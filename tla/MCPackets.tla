------------------------------ MODULE MCPackets ------------------------------
(* Small instances of Payload and PacketPath for TLC.  With Low = 2 a byte *)
(* has three bits: integers below 2, 16, 1024 and 2^22 take 1, 2, 4 and 8  *)
(* bytes, and packet numbers below 8, 64, 512 and 4096 take 1, 2, 3 and 4. *)
EXTENDS Payload, PacketPath

F(type, values) == [type |-> type, values |-> values, fin |-> FALSE]

(* Every type, with small and large values, without and with data.         *)
MCFrames ==
  {F(type, <<v>>) : type \in {"MAX_DATA", "RETIRE_CONNID"}, v \in {1, 15}}
  \cup {F(type, <<2>>) : type \in {"MAX_STREAMS", "DATA_BLOCKED", "STREAM_BLOCKED"}}
  \cup {F(type, <<1, 16>>) : type \in {"MAX_STREAM_DATA", "STREAM_DATA_BLOCKED"}}
  \cup {F("TOKEN", <<0, <<>> >>), F("TOKEN", <<2, <<6, 1>> >>)}
  \cup {F("CRYPTO", <<0, 1, <<7>> >>), F("CRYPTO", <<16, 2, <<5, 0>> >>)}
  \cup {F("STOP_SENDING", <<2, 60>>), F("RESET", <<1, 9, 2>>), F("RESET", <<16, 9, 1>>)}
  \cup {F("CONN_CLOSE", <<9, 1, 0, <<>> >>), F("CONN_CLOSE", <<0, 0, 1, <<4>> >>)}
  \cup {F("NEW_CONNID", <<1, 2, <<5, 6>>, <<0, 1, 2>> >>), F("PATH", <<<<7, 6, 5>>>>)}
  \cup {[type |-> "STREAM", values |-> <<1, off, Len(data), data>>, fin |-> end] :
          off \in {0, 2}, data \in {<<>>, <<3, 2>>}, end \in BOOLEAN}
  \cup {[type |-> "STREAM", values |-> <<2, 0, 2, <<3, 2>> >>, fin |-> end] :
          end \in BOOLEAN}

-----------------------------------------------------------------------------
Id(byte, size) == [i \in 1 .. size |-> byte]

Long(type, dst, src, len, pnum, token, ori) ==
  [kind |-> "long", type |-> type, version |-> 9, dst |-> dst, src |-> src,
   len |-> len, pnum |-> pnum, token |-> token, ori |-> ori]

Short(pnum, spin, key_phase) ==
  [kind |-> "short", spin |-> spin, key_phase |-> key_phase, dst |-> Id(4, 18),
   pnum |-> pnum]

(* Every type; no id, ids of several lengths, the longest ids with the     *)
(* longest numbers.                                                        *)
MCLongPackets ==
  {[hdr |-> h, payload |-> IF h.len = 0 THEN <<>> ELSE <<1, 2>>] : h \in
   {Long("INITIAL", Id(1, 4), <<>>, 1, 7, <<3, 5, 6>>, <<>>),
   Long("INITIAL", Id(2, 18), Id(3, 18), 17, 64, <<>>, <<>>),
   Long("0RTT", Id(1, 18), Id(6, 18), 2000, 600, <<>>, <<>>),
   Long("HANDSHAKE", <<>>, <<>>, 0, 0, <<>>, <<>>),
   Long("HANDSHAKE", Id(7, 5), Id(5, 4), 3, 513, <<>>, <<>>),
   Long("RETRY", Id(1, 4), Id(2, 4), 0, 0, <<>>, Id(3, 4)),
   Long("RETRY", <<>>, Id(2, 6), 0, 0, <<>>, Id(7, 18))}}

(* Numbers of every length and on both sides of each limit.                *)
MCShortPackets ==
  {[hdr |-> Short(p, p = 7, p \in {63, 500}),
    payload |-> IF p > 500 THEN <<>> ELSE <<1, 2>>] :
     p \in {0, 7, 8, 63, 70, 500, 507, 512, 600}}

MCStructs ==
  [long |-> Long("INITIAL", <<>>, <<>>, 0, 0, <<>>, <<>>),
   short |-> [Short(0, FALSE, FALSE) EXCEPT !.dst = <<>>],
   version |-> [kind |-> "version", version |-> 0, dst |-> <<>>, src |-> <<>>]]

MCSections == {<<0>>, <<3, 0, 600>>, <<600, 0, 600>>}

MCIds ==
  {[client |-> <<>>, server |-> <<>>], [client |-> Id(1, 4), server |-> <<>>],
   [client |-> Id(2, 5), server |-> Id(3, 4)]}

-----------------------------------------------------------------------------
(* The frames and the header of a packet lie side by side and do not touch *)
(* each other, so a behaviour has either frames or headers.                *)
VARIABLE part

PacketsInit ==
  /\ part \in {"frames", "headers"}
  /\ Init /\ PathInit
  /\ part = "frames" => role = "long"
  /\ part = "headers" => capacity = 5 /\ junk = 0

PacketsNext ==
  \/ part = "frames" /\ Next /\ UNCHANGED <<part, pathVars>>
  \/ part = "headers" /\ PathNext /\ UNCHANGED <<part, vars>>

PacketsSpec == PacketsInit /\ [][PacketsNext]_<<part, vars, pathVars>>
=============================================================================
