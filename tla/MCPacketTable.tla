---------------------------- MODULE MCPacketTable ----------------------------
(***************************************************************************)
(* A small instance of PacketTable for TLC: two packets with one payload,  *)
(* one with another payload of that size, one with the first payload       *)
(* behind a longer header, one with a shorter payload, one too short, one  *)
(* that is not IP.                                                         *)
(***************************************************************************)
EXTENDS PacketTable, Sequences

\* length, offset, is it IPv4 with TCP or UDP, and the buffer.
Shape ==
  << [len |-> 5, off |-> 2, ip |-> TRUE,  buf |-> <<8, 8, 1, 2, 3, 0>>],
     [len |-> 5, off |-> 2, ip |-> TRUE,  buf |-> <<8, 8, 1, 2, 3, 0>>],
     [len |-> 5, off |-> 2, ip |-> TRUE,  buf |-> <<8, 8, 3, 1, 2, 0>>],
     [len |-> 6, off |-> 3, ip |-> TRUE,  buf |-> <<8, 8, 8, 1, 2, 3>>],
     [len |-> 4, off |-> 2, ip |-> TRUE,  buf |-> <<8, 8, 1, 2, 0, 0>>],
     [len |-> 2, off |-> 0, ip |-> TRUE,  buf |-> <<8, 8, 0, 0, 0, 0>>],
     [len |-> 5, off |-> 0, ip |-> FALSE, buf |-> <<7, 7, 1, 2, 3, 0>>] >>

MCPackets == 1..Len(Shape)
MCLengthIncluded == [p \in MCPackets |-> Shape[p].len]
MCIsTransport == [p \in MCPackets |-> Shape[p].ip]
MCPayloadOffset == [p \in MCPackets |-> Shape[p].off]
MCData == [p \in MCPackets |-> [i \in 0..5 |-> Shape[p].buf[i + 1]]]
=============================================================================
