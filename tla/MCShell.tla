------------------------------ MODULE MCShell ------------------------------
(***************************************************************************)
(* TLC instances of ShellCommand: outputs of one or two lines, with either *)
(* kind of terminator, the last one whole or cut off.                      *)
(***************************************************************************)
EXTENDS ShellCommand

TestLines ==
  {<<"STATUS", "Error", "=", "v">>, <<"STATUS_CODE", "1">>, <<"STATUS_CODE", "v">>,
   <<"RESULT", "shortMsg", "=", "v">>, <<"CODE", "0">>, <<"TIME", ".">>}

InstallLines == {<<Blank, "v">>, <<"Failure", Blank, "v">>, <<"Success">>}

Terminators == {<<LF>>, <<CR, LF>>}

(* Texts of one or two lines, ended by t1 and t2; the end of the last may  *)
(* be missing, wholly or in part.                                          *)
Texts2(l1, t1, l2, t2) == {<<>>, l1 \o t1, l1 \o t1 \o l2, l1 \o t1 \o l2 \o <<CR>>, l1 \o t1 \o l2 \o t2}

MCTestOutputs ==
  UNION {Texts2(l1, t, l2, t) : l1 \in TestLines, l2 \in TestLines, t \in Terminators}

MCInstallOutputs ==
  UNION {Texts2(l1, t1, l2, t2) : l1 \in InstallLines, l2 \in InstallLines,
                                  t1 \in Terminators, t2 \in Terminators}
=============================================================================
