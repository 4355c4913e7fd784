------------------------- MODULE AesdCharProperties -------------------------
(***************************************************************************)
(* What the driver has to guarantee.  NoFault, which the model needs       *)
(* itself, is stated in AesdChar.                                          *)
(***************************************************************************)
EXTENDS AesdChar

\* Types; the ring and its offsets are in range, the tasks at known labels.
TypeOK ==
  /\ BufferTypeOK
  /\ partial \in BufferEntry
  /\ Live \subseteq Ptr /\ \A p \in Live : mem[p] \in Seq(Nat)
  /\ lock \in Task \cup {Nobody}
  /\ loaded \in BOOLEAN
  /\ opened \subseteq File /\ fpos \in [File -> Nat \cup {EINVAL}]
  /\ \A t \in Task : call[t].buffer \in Ptr \cup {NULL} /\ call[t].off \in Nat
  /\ structs \in Nat /\ nwrites \in 0 .. MaxWrites

\* Memory that holds bytes has exactly one owner: a slot of the ring,
\* dev->partial, or the buffer of a write that is running; and each stored size is
\* the size of the allocation.  So none of it leaks or is shared, and no slot
\* points to freed memory, whatever the error path; and unloading the module frees
\* it, in whatever state the writers left the ring and the unfinished line.  It
\* does not speak of the entry structs of main.c:141, which nothing ever frees:
\* one leaks with every line that is stored (structs counts them).
\* (Between the kfree of the old unfinished line and the stores that forget it,
\* partial dangles.)
Owners(p) ==
  Cardinality({i \in Slot : entry[i].buffptr = p})
    + Cardinality({t \in Task : call[t].buffer = p})
    + (IF partial.buffptr = p /\ \A t \in Task : pc[t] # "clear_partial"
       THEN 1 ELSE 0)
OwnsItsBytes ==
  /\ \A p \in Ptr : Owners(p) = IF p \in Live THEN 1 ELSE 0
  /\ \A i \in Slot : entry[i].buffptr \in Live =>
                       entry[i].size = Len(mem[entry[i].buffptr])
  /\ partial.buffptr \in Live => partial.size = Len(mem[partial.buffptr])
  /\ ~loaded => Live = {}

\* A call of aesd_write is one step that keeps the last N lines; only a call that
\* returns an error may lose anything, and then some of its own lines and the
\* unfinished line at most.  The calls are those the kernel makes: one that waits
\* for the lock behind a writer or a reader and is interrupted has freed the
\* unfinished line by then (main.c:127 is before 132), and the kernel may repeat
\* it, so that the program is told of a success although that line is gone.
Device == INSTANCE LineDevice WITH
            lines <- visible.lines, rest <- visible.rest, ok <- visible.ok,
            MayFail <- Failures # {}
WritesAreAtomic == Device!DeviceSpec

Text == FlattenSeq(visible.lines)

\* A read returns bytes that lie at its position in the text of the complete
\* lines, not past the end of a line, and none only at or after the end of the
\* text (or when none were asked for): it never sees half of a write.
ReadsText ==
  [][\A t \in Reader :
       pc[t] = "reading" /\ pc'[t] = "return" /\ call'[t].ret >= 0 =>
         LET pos == call[t].pos
             got == call'[t].data
         IN /\ got # << >> => /\ pos + Len(got) <= Len(Text)
                              /\ got = SubSeq(Text, pos + 1, pos + Len(got))
            /\ Len(got) <= call[t].count
            /\ got = << >> => pos >= Len(Text) \/ call[t].count = 0
            /\ \A i \in 1 .. Len(got) - 1 : got[i] # NL]_vars

\* Start of the k-th line (from 0) in the text.
LineStart(k) == Len(FlattenSeq(SubSeq(visible.lines, 1, k)))

\* Seeking agrees with reading: the size that lseek works with is the length
\* of the text, although it adds up all slots; the position that the ioctl gives
\* to a byte of the k-th line is that of the byte in the text, wherever the ring
\* starts; an offset behind the end of its line is refused, and so is one into a
\* line that was never written; and no accepted position lies past the end of the
\* text.  Two requests that the code accepts are left open, because they name no
\* byte of the line: the offset that is the length of it, and offset 0 of a line
\* that was never written.
SeeksAgreeWithText ==
  loaded /\ lock \notin Writer =>
    /\ TotalSize = Len(Text)
    /\ \A k \in 0 .. N, i \in Offsets \cap Nat :
         LET pos == AdjustFileOffset(k, i)
             size == IF k < Len(visible.lines) THEN Len(visible.lines[k + 1]) ELSE 0
         IN /\ i < size => pos = LineStart(k) + i
            /\ i > size => pos = EINVAL
            /\ pos # EINVAL => pos \in 0 .. Len(Text)

\* aesd_write keeps its working span inside the buffer it allocated, as its
\* comment describes the two (violated by concurrent unfinished lines).
WorkingIsSpan == \A t \in Writer : ~Overflows(t)

\* Every call returns, with a result or to be repeated by the kernel: no task is
\* left waiting for dev->lock for ever, because each path gives it back, failing
\* allocations and copies included.  The exception is the unchecked allocation of
\* main.c:141: when it fails, its task dies with the lock held, and nothing is
\* promised to the others.
Returned == {"idle", "restart"}
EveryCallReturns ==
  \A t \in Task :
    pc[t] \notin Returned ~> pc[t] \in Returned \/ \E u \in Writer : pc[u] = "oops"
=============================================================================
