------------------------------- MODULE MCJdwp -------------------------------
(***************************************************************************)
(* TLC instance of JdwpStream: headers of two bytes, packets with and      *)
(* without a byte of data, and buffers of a few bytes, so that every way   *)
(* to cut the stream, and every place of a packet in the buffer, occurs.   *)
(***************************************************************************)
EXTENDS JdwpStream

MCLengths == {2, 3}

MCRequests == {1}

MCHelo == 2
=============================================================================
