------------------------------- MODULE MCLog -------------------------------
(***************************************************************************)
(* TLC instance of LogService: up to three entries, with headers of three  *)
(* bytes and no data, one byte, or more data than a header has.            *)
(***************************************************************************)
EXTENDS LogService, SequencesExt

(* Where entries of these lengths end                                      *)
Ends(lens) == [k \in DOMAIN lens |-> 3 * k + FoldLeft(+, 0, SubSeq(lens, 1, k))]

MCLogs == {Ends(lens) : lens \in UNION {[1..n -> {0, 1, 3}] : n \in 0..3}}

(* A length that is negative, one that is none, and one that is too long.  *)
MCGarbage == {-1, 0, 1}
=============================================================================
