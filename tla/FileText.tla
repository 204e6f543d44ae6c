------------------------------ MODULE FileText ------------------------------
(***************************************************************************)
(* The text of a file of samples, and the conversion of a line to a sample *)
(* and of a sample to a line (LineConversion.c).                           *)
(*                                                                         *)
(* Text is a sequence of pieces.  A sample is two members long: its head   *)
(* and its tail, each a piece <field>=<value> with the comma that follows  *)
(* it.  `bad' stands for anything that is no assignment to a member.  What *)
(* members are called and what values they have is left out.               *)
(***************************************************************************)
EXTENDS Naturals, Sequences, SequencesExt

Piece(part, n) == [part |-> part, of |-> n]
HeadOf(n) == Piece("head", n)
TailOf(n) == Piece("tail", n)
Newline == Piece("newline", 0)
Bad == Piece("bad", 0)

IsNewline(p) == p = Newline

(* What fgets takes from text that is not empty: up to the first newline,  *)
(* or all there is.                                                        *)
LineLength(text) ==
  LET k == SelectInSeq(text, IsNewline) IN IF k = 0 THEN Len(text) ELSE k
HasLine(text) == \E k \in DOMAIN text : text[k] = Newline

(* A line assigns all members of sample n, last: the heads of samples      *)
(* whose writing was given up may come before, each is overwritten.        *)
Holds(body, n) ==
  /\ Len(body) >= 2
  /\ body[Len(body)] = TailOf(n)
  /\ body[Len(body) - 1] = HeadOf(n)
  /\ \A k \in 1..Len(body) - 1 : body[k].part = "head"

Garbage == 0
Error == [action |-> "error", sample |-> Garbage]
Skip == [action |-> "skip", sample |-> Garbage]
Send(n) == [action |-> "send", sample |-> n]

(* RTIRS_FileAdapter_trim: a line of fgets has a newline only as its last. *)
Trimmed(line) == IF Last(line) = Newline THEN Front(line) ELSE line

(* RTIRS_FileAdapter_read_sample: blank lines are skipped, a malformed     *)
(* line is an error.  A line cut short, or two samples on one line, may be *)
(* malformed or may pass for a sample that nobody wrote.                   *)
read_sample(line) ==
  LET body == Trimmed(line) IN
  IF body = <<>> THEN {Skip}
  ELSE IF \E k \in DOMAIN body : body[k] = Bad THEN {Error}
  ELSE LET held == {body[k].of : k \in DOMAIN body} IN
       IF \E n \in held : Holds(body, n) THEN {Send(body[Len(body)].of)}
       ELSE {Error, Send(Garbage)}

(* RTIRS_FileAdapter_write_sample: the text it prints before a member that *)
(* fails stays, without a newline.                                         *)
Failures == {"none", "first", "second"}
WriteRegardless(n, failing) == <<HeadOf(n), TailOf(n), Newline>>
write_sample(n, failing) ==
  CASE failing = "none" -> <<HeadOf(n), TailOf(n), Newline>>
    [] failing = "first" -> <<>>
    [] failing = "second" -> <<HeadOf(n)>>

(* The lines of a whole text.                                              *)
Lines(text) ==
  LET F[t \in 0..Len(text)] ==  (* the lines of the text after the first t *)
        IF t = Len(text) THEN <<>>
        ELSE LET rest == SubSeq(text, t + 1, Len(text))
                 n == LineLength(rest)
             IN <<SubSeq(rest, 1, n)>> \o F[t + n]
  IN F[0]
=============================================================================
