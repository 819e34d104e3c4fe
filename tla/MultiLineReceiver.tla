------------------------- MODULE MultiLineReceiver -------------------------
(***************************************************************************)
(* How the output of a command is cut into lines.  A text is a sequence of *)
(* tokens: CR, LF, a blank, or a piece of text that chunks do not cut.     *)
(*                                                                         *)
(* A receiver is the text that is not cut yet (mUnfinishedLine, or s while *)
(* addOutput splits it) and, to state properties, all the lines found so   *)
(* far, with how much of the output was behind the receiver after each.    *)
(***************************************************************************)
EXTENDS Integers, Sequences, FiniteSetsExt

CR == "CR"
LF == "LF"
Blank == " "

NewReceiver == [unfinished |-> <<>>, lines |-> <<>>, ends |-> <<>>]

(* How much of the output has been cut into lines                          *)
Behind(r) == IF r.ends = <<>> THEN 0 ELSE r.ends[Len(r.ends)]

(* Without the white space at both ends (mTrimLines)                       *)
Trim(line) ==
  LET text == {i \in DOMAIN line : line[i] \notin {CR, LF, Blank}}
  IN  IF text = {} THEN <<>> ELSE SubSeq(line, Min(text), Max(text))

(* Bug: what was left of the last chunk is forgotten.                      *)
M_Joined(r, data) == [r EXCEPT !.unfinished = data]

(* addOutput, of a receiver that is not cancelled: the text to be split    *)
Joined(r, data) == [r EXCEPT !.unfinished = @ \o data]

CRLFs(s) == {i \in 1..Len(s) - 1 : s[i] = CR /\ s[i + 1] = LF}
LFs(s) == {i \in 1..Len(s) : s[i] = LF}

HasLine(r) == LFs(r.unfinished) # {}

(* One round of the loop that splits s: a line ends at the next CR LF,     *)
(* and only if there is none at the next LF.                               *)
CutLine(r) ==
  LET s == r.unfinished
      index == IF CRLFs(s) # {} THEN Min(CRLFs(s)) ELSE Min(LFs(s))
      end == IF CRLFs(s) # {} THEN index + 1 ELSE index
  IN  [unfinished |-> SubSeq(s, end + 1, Len(s)),
       lines |-> Append(r.lines, Trim(SubSeq(s, 1, index - 1))),
       ends |-> Append(r.ends, Behind(r) + end)]

(* Bug: only complete lines are handed on.                                 *)
M_Flushed(r) == r

(* flush: the unfinished line is handed on as it is, and is kept.          *)
Flushed(r) ==
  [r EXCEPT !.lines = IF r.unfinished = <<>> THEN @ ELSE Append(@, r.unfinished)]
=============================================================================
