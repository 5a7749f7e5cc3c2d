----------------------------- MODULE MCLoopback ------------------------------
(***************************************************************************)
(* NasdaqMoldUdpLoopback for TLC: files of up to five records, some of     *)
(* them wrong or too large, in datagrams of one or two blocks, and a       *)
(* receive buffer for two datagrams.                                       *)
(***************************************************************************)
EXTENDS NasdaqMoldUdpLoopback

Small == [size |-> 1, good |-> TRUE]
Large == [size |-> 3, good |-> TRUE]
Wrong == [size |-> 1, good |-> FALSE]
Huge  == [size |-> 9, good |-> TRUE]    \* more than DatagramBytes
Giant == [size |-> 20, good |-> TRUE]   \* more than LargestDatagram

SomeRecords == { <<>>, <<Small, Small, Small, Small, Large>>, <<Large, Small, Large, Small>>,
                 <<Small, Wrong, Small>>, <<Small, Huge, Small>>, <<Giant>> }

SomeFiles == [records : SomeRecords, broken : BOOLEAN]
=============================================================================
