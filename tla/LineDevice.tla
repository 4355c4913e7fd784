----------------------------- MODULE LineDevice -----------------------------
(***************************************************************************)
(* What /dev/aesdchar promises to the programs that use it: a log of the   *)
(* last N lines written and the unfinished line after them.  A write is    *)
(* one atomic step: it completes the unfinished line, keeps every line     *)
(* that now ends in a newline, and leaves the remainder unfinished.  A     *)
(* write that fails may have kept some of its first lines, and may have    *)
(* lost the unfinished line.  A write is one call of aesd_write: when a    *)
(* signal has made it fail, the kernel may repeat it, and the program sees *)
(* the two as one.  AesdChar implements this specification; AesdSocket is  *)
(* built on it.                                                            *)
(***************************************************************************)
EXTENDS Integers, Sequences, SequencesExt

CONSTANTS
  N,       \* how many lines are kept
  NL,      \* the newline byte
  Inputs,  \* the byte sequences that are written
  MayFail  \* whether a write can report an error

ASSUME DeviceAssumption == N \in Nat \ {0} /\ NL \in Nat

VARIABLES
  lines,  \* the kept lines, oldest first, each with its newline
  rest,   \* the unfinished line
  ok      \* whether the latest write succeeded

deviceVars == <<lines, rest, ok>>

\* The positions of the newlines, the complete lines, and what follows them.
Ends(text) ==
  LET newlines == {i \in DOMAIN text : text[i] = NL}
      rank(i) == Cardinality({j \in newlines : j <= i})
  IN  [k \in 1 .. Cardinality(newlines) |-> CHOOSE i \in newlines : rank(i) = k]

LinesOf(text) ==
  LET end == Ends(text) IN
  [k \in DOMAIN end |->
     SubSeq(text, IF k = 1 THEN 1 ELSE end[k - 1] + 1, end[k])]

RestOf(text) ==
  LET end == Ends(text) IN
  IF end = << >> THEN text ELSE SubSeq(text, Last(end) + 1, Len(text))

LastLines(s) == SubSeq(s, Max({1, Len(s) - N + 1}), Len(s))

DeviceInit == lines = << >> /\ rest = << >> /\ ok = TRUE

Write(data) ==
  /\ lines' = LastLines(lines \o LinesOf(rest \o data))
  /\ rest' = RestOf(rest \o data)
  /\ ok' = TRUE

FailedWrite(data) ==
  /\ MayFail
  /\ \/ UNCHANGED <<lines, rest>>
     \/ /\ rest' = << >>
        /\ \E k \in 0 .. Len(LinesOf(rest \o data)) :
             lines' = LastLines(lines \o SubSeq(LinesOf(rest \o data), 1, k))
  /\ ok' = FALSE

\* The module is loaded again.
Reload == lines' = << >> /\ rest' = << >> /\ ok' = TRUE

DeviceNext == Reload \/ \E data \in Inputs : Write(data) \/ FailedWrite(data)

DeviceSpec == DeviceInit /\ [][DeviceNext]_deviceVars
=============================================================================
