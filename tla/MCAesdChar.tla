----------------------------- MODULE MCAesdChar -----------------------------
(***************************************************************************)
(* Instances of AesdChar for TLC: the bytes that the writers write.  97    *)
(* and 98 are letters, 10 is the newline.                                  *)
(***************************************************************************)
EXTENDS AesdCharProperties

\* Two whole lines, not the same: whatever two writes of them would mix shows.
WholeLines == {<<10, 98, 10>>}

\* Every position a newline can have in a write, and the empty write.
AnyBytes == {<< >>, <<97>>, <<98, 10>>, <<97, 10, 98>>, <<10, 98, 10>>}

\* An unfinished line and the rest of it.
Fragments == {<<97>>, <<98, 10>>}

SmallOffsets == {-1, 0, 1, 3}
=============================================================================
