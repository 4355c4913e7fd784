------------------------ MODULE CircularBufferClient ------------------------
(***************************************************************************)
(* A caller that uses the circular buffer the way aesd_write does (and the *)
(* way the comment on aesd_circular_buffer_add_entry asks for): it         *)
(* allocates the memory of each entry, adds the entry, and frees whatever  *)
(* address the call returns.                                               *)
(***************************************************************************)
EXTENDS CircularBuffer, Sequences, FiniteSetsExt

CONSTANT Size   \* the sizes of the commands that are added
ASSUME SizeAssumption == Size \subseteq Nat

VARIABLE live   \* addresses allocated and not freed
clientVars == <<entry, in_offs, out_offs, full, live>>

ClientInit == BufferInit /\ live = {}

Add(p, n) ==
  /\ p \in Ptr \ live
  /\ AddEntry([buffptr |-> p, size |-> n])
  /\ live' = (live \cup {p}) \ {Garbage}

ClientNext == \E p \in Ptr, n \in Size : Add(p, n)

ClientSpec == ClientInit /\ [][ClientNext]_clientVars

-----------------------------------------------------------------------------
\* Types; both offsets stay within the ring.
ClientTypeOK ==
  /\ BufferTypeOK
  /\ live \subseteq Ptr

\* The ring and its indices stay consistent: see RingInv in CircularBuffer.
RingConsistent == RingInv

\* Freeing what aesd_circular_buffer_add_entry returns is exactly right: the
\* memory in use is that of the stored commands (nothing leaks, nothing a
\* reader can still reach has been freed), and no two slots share memory.
MemoryIsStored ==
  /\ live = {entry[i].buffptr : i \in Slot} \ {NULL}
  /\ \A i, j \in Slot :
       entry[i].buffptr = entry[j].buffptr /\ entry[i].buffptr # NULL => i = j

\* First byte of the k-th oldest command in the concatenation of all.
Start(k) == MapThenSumSet(LAMBDA j : Stored[j].size, 1 .. k - 1)

\* The search finds byte c exactly when the stored commands, laid end to
\* end from the oldest, have a byte c, and then finds that very byte: also
\* after the ring has wrapped, when it is full, and past empty commands.
FindIsConcatenation ==
  \A c \in 0 .. Start(Count + 1) + 1 :
    IF c < Start(Count + 1)
    THEN \E k \in 1 .. Count :
           /\ Start(k) <= c /\ c < Start(k + 1)
           /\ FindEntry(c) = [slot |-> (out_offs + k - 1) % N,
                              byte |-> c - Start(k)]
    ELSE FindEntry(c) = NULL

\* The buffer implements a log that keeps the last N entries.
Abstract == INSTANCE BoundedLog WITH log <- Stored
KeepsLastN == Abstract!LogSpec
=============================================================================
