---------------------------- MODULE MCRedextract ----------------------------
(***************************************************************************)
(* Small instances of Redextract for TLC.  Packets 1 to 3 have the same    *)
(* payload, packet 4 another one, and packets from 8 on are the objects    *)
(* that the reads at the ends of the files fill: the second file is cut    *)
(* off inside the data of a record, after its length.                      *)
(***************************************************************************)
EXTENDS Redextract

MCPackets == {1, 2, 3, 4, 8, 9, 10}
MCLengthIncluded == [p \in MCPackets |-> IF p \in {8, 10} THEN 0 ELSE 4]
MCIsTransport == [p \in MCPackets |-> p \notin {8, 10}]
MCPayloadOffset == [p \in MCPackets |-> IF p \in {8, 10} THEN 0 ELSE 2]
MCData == [p \in MCPackets |-> [i \in 0..3 |-> IF p = 4 THEN 7 - i ELSE i]]

\* A file with no record stands for one whose header is bad.
MCHeaderOK == [f \in DOMAIN Files |-> Files[f] # <<>>]
MCEofPacket == [f \in DOMAIN Files |-> 7 + f]

\* The numbers of the packets in each file, 0 for a record that is too big.
OneFile == << <<1, 4, 2>> >>
TwoFiles == << <<1, 0, 4>>, <<2, 3>> >>
ThreeFiles == << <<1, 0, 4>>, <<>>, <<2, 3>> >>
=============================================================================
