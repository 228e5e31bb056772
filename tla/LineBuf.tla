-------------------------------- MODULE LineBuf --------------------------------
(***************************************************************************)
(* RCLineBuf, rc-line-buf.c: the text that arrives on a file descriptor is *)
(* handed out line by line.  The text comes in pieces cut anywhere.  Three *)
(* characters are told apart: the newline, the carriage return, any other. *)
(***************************************************************************)
EXTENDS Naturals, Sequences, SequencesExt

CONSTANTS
  Texts,      \* what may be read from a descriptor
  BUF_SIZE,   \* how much is read at once
  MaxUse      \* a bound on the descriptors one buffer is used for

Char == {"x", "r", "n"}

\* What the constants are, assumed wherever they are given values.
LineBufAssumption ==
  /\ Texts \subseteq Seq(Char) /\ BUF_SIZE \in Nat \ {0} /\ MaxUse \in Nat

VARIABLES
  rest,    \* what has not been read yet
  part,    \* priv->buf: the beginning of a line
  state,   \* "reading", or the status of read_done, or "error"
  taken,   \* all that has been read from the descriptor
  given,   \* all that has been handed out
  uses

vars == <<rest, part, state, taken, given, uses>>

TypeOK ==
  /\ rest \in Seq(Char) /\ part \in Seq({"x", "r"})
  /\ state \in {"reading", "ok", "error"}
  /\ taken \in Seq(Char) /\ given \in Seq(Char) /\ uses \in 0..MaxUse

Init == /\ rest \in Texts /\ part = <<>> /\ state = "reading"
        /\ taken = <<>> /\ given = <<>> /\ uses = 0

-----------------------------------------------------------------------------
\* The carriage return before a newline is taken off, if both came together.
Chop(piece) == IF piece # <<>> /\ Last(piece) = "r" THEN Front(piece) ELSE piece

\* One character of a piece: part is what earlier pieces left, cut what this one
\* has brought since the last newline, out what has been handed out.
Scan(c, s) ==
  IF c = "n"
  THEN [part |-> <<>>, cut |-> <<>>, out |-> s.out \o s.part \o Chop(s.cut) \o <<"n">>]
  ELSE [s EXCEPT !.cut = Append(@, c)]

\* The descriptor has text.
Read ==
  /\ state = "reading" /\ rest # <<>>
  /\ \E k \in 1..BUF_SIZE :
       /\ k <= Len(rest)
       /\ LET s == FoldLeft(LAMBDA acc, c : Scan(c, acc),
                            [part |-> part, cut |-> <<>>, out |-> given],
                            SubSeq(rest, 1, k))
          IN part' = s.part \o s.cut /\ given' = s.out
       /\ taken' = taken \o SubSeq(rest, 1, k)
       /\ rest' = SubSeq(rest, k + 1, Len(rest))
  /\ UNCHANGED <<state, uses>>

\* Nothing more comes, or the reading fails: read_done is emitted.
ReadDone ==
  /\ state = "reading" /\ rest = <<>>
  /\ state' = "ok" /\ UNCHANGED <<rest, part, taken, given, uses>>

ReadFails ==
  /\ state = "reading"
  /\ state' = "error" /\ UNCHANGED <<rest, part, taken, given, uses>>

\* rc_line_buf_get_buf: a line that has no end yet is taken (the question of an
\* installation script that waits for the answer).
GetBuf ==
  /\ part # <<>>
  /\ given' = given \o part /\ part' = <<>>
  /\ UNCHANGED <<rest, state, taken, uses>>

\* rc_line_buf_set_fd
SetFd ==
  /\ state # "reading" /\ uses < MaxUse
  /\ rest' \in Texts /\ part' = <<>> /\ state' = "reading"
  /\ taken' = <<>> /\ given' = <<>> /\ uses' = uses + 1

Next == Read \/ ReadDone \/ ReadFails \/ GetBuf \/ SetFd

Spec == Init /\ [][Next]_vars

-----------------------------------------------------------------------------
Printed(s) == SelectSeq(s, LAMBDA c : c # "r")

\* However the text is cut, what has been handed out and what is kept, which is part
\* of one line, are what has been read, carriage returns apart (rc_line_buf_cb,
\* rc_line_buf_get_buf).
NoTextIsLost == Printed(given \o part) = Printed(taken)

\* No line ends in a carriage return if none has two of them
\* (rc_line_buf_cb at the newline).
ReturnsAreChopped ==
  \A i \in 2..Len(given) : given[i] = "n" => given[i - 1] # "r"

=============================================================================
