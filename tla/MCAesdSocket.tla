---------------------------- MODULE MCAesdSocket ----------------------------
(***************************************************************************)
(* The clients of AesdSocket for TLC.  97 to 99 are letters, 48 to 57      *)
(* numbers, 10 is the newline, 0 NUL and 65 starts a seek request.         *)
(***************************************************************************)
EXTENDS AesdSocket

CONSTANTS c1, c2

\* A line with a NUL, and a seek request whose offset is on the next line; a seek
\* that is malformed, a line in two segments, one that is never ended, a seek that
\* the device refuses.  A buffer of five bytes cuts lines that arrive together, and
\* the read after a cut is shorter than the one before it.
MCSegments ==
  (c1 :> << <<97, 0, 10>>, <<65, 48, 10, 49, 97, 10>> >>) @@
  (c2 :> << <<65, 10, 98>>, <<99, 10, 98>>, <<65, 48, 57, 10>> >>)
=============================================================================
