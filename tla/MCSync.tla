------------------------------- MODULE MCSync -------------------------------
(***************************************************************************)
(* TLC instance of SyncService: a directory with a file of which there is  *)
(* a longer one on the host and an empty file, and a file that is only on  *)
(* the host, with a path that is too long.                                 *)
(***************************************************************************)
EXTENDS SyncService

CONSTANTS long, short, mine, dir, socket

MCKids == dir :> <<long, socket, short>>

MCOnDevice == long :> <<<<long, 1>>, <<long, 2>>>> @@ short :> <<>>

MCOnHost == long :> [i \in 1..3 |-> <<long, -i>>] @@ mine :> <<<<mine, -1>>>>

MCSelections == {<<dir>>, <<long, mine>>}
=============================================================================
