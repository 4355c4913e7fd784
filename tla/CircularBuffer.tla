--------------------------- MODULE CircularBuffer ---------------------------
(***************************************************************************)
(* struct aesd_circular_buffer and its operations                          *)
(* (aesd-char-driver/aesd-circular-buffer.{h,c}).  The four fields of the  *)
(* struct are the variables; AddEntry is an action that the modules which  *)
(* own a buffer (CircularBufferClient, AesdChar) conjoin with what their   *)
(* own code does around the call.  Locking is the caller's business, as    *)
(* the comments in the source say.                                         *)
(***************************************************************************)
EXTENDS Integers

CONSTANTS
  N,     \* AESDCHAR_MAX_WRITE_OPERATIONS_SUPPORTED (10 in the build)
  Ptr,   \* addresses an allocator may return
  NULL   \* the null pointer

\* in_offs, out_offs and the loop counter of the search are uint8_t.
ASSUME NAssumption == N \in 1..255
ASSUME NullAssumption == NULL \notin Ptr

VARIABLES
  entry,     \* the slots: address and size of each stored command
  in_offs,   \* slot the next command goes to
  out_offs,  \* slot of the oldest command
  full       \* all N slots are in use

bufferVars == <<entry, in_offs, out_offs, full>>

Slot == 0 .. N - 1
BufferEntry == [buffptr : Ptr \cup {NULL}, size : Nat]
EmptyEntry == [buffptr |-> NULL, size |-> 0]

\* aesd_circular_buffer_init (memset to zero), as a state and as a call.
BufferInit ==
  /\ entry = [i \in Slot |-> EmptyEntry]
  /\ in_offs = 0
  /\ out_offs = 0
  /\ full = FALSE

BufferReset ==
  /\ entry' = [i \in Slot |-> EmptyEntry]
  /\ in_offs' = 0
  /\ out_offs' = 0
  /\ full' = FALSE

(* ------------------ aesd_circular_buffer_add_entry -------------------- *)

\* Mutant: the index is not wrapped.
NextOffsetUnwrapped(offs) == offs + 1

NextOffset(offs) == (offs + 1) % N

\* Mutant: the return value is taken from the slot after the overwritten one.
GarbageOffByOne == IF full THEN entry[NextOffset(in_offs)].buffptr ELSE NULL

\* The return value: the address that the caller has to free, or NULL.
Garbage == IF full THEN entry[in_offs].buffptr ELSE NULL

\* Mutant: overwriting the oldest entry leaves out_offs where it was.
AddEntryKeepOut(add_entry) ==
  /\ entry' = [entry EXCEPT ![in_offs] = add_entry]
  /\ in_offs' = NextOffset(in_offs)
  /\ full' = (full \/ NextOffset(in_offs) = out_offs)
  /\ UNCHANGED out_offs

AddEntry(add_entry) ==
  /\ entry' = [entry EXCEPT ![in_offs] = add_entry]
  /\ in_offs' = NextOffset(in_offs)
  /\ \/ /\ full
        /\ out_offs' = NextOffset(out_offs)
        /\ UNCHANGED full
     \/ /\ ~full
        /\ full' = (NextOffset(in_offs) = out_offs)
        /\ UNCHANGED out_offs

(* --------- aesd_circular_buffer_find_entry_offset_for_fpos ------------ *)

\* Mutant: the search ignores full, so it never enters a full ring.
FindEntryIgnoreFull(char_offset) ==
  LET search[k \in Nat] == [rest \in Nat |->
        LET offset == (out_offs + k) % N IN
        CASE offset = in_offs -> NULL
          [] OTHER -> IF rest < entry[offset].size
                      THEN [slot |-> offset, byte |-> rest]
                      ELSE search[k + 1][rest - entry[offset].size]]
  IN  search[0][char_offset]

\* The slot that holds byte char_offset of the stored commands laid end to
\* end, and the byte within it; NULL when there is no such byte.  k counts
\* the iterations, so count = N - k and offset = (out_offs + k) % N.
FindEntry(char_offset) ==
  LET search[k \in Nat] == [rest \in Nat |->
        LET offset == (out_offs + k) % N IN
        CASE ~((full /\ N - k > 0) \/ offset # in_offs) -> NULL
          [] OTHER -> IF rest < entry[offset].size
                      THEN [slot |-> offset, byte |-> rest]
                      ELSE search[k + 1][rest - entry[offset].size]]
  IN  search[0][char_offset]

\* A pointer to an entry is not the null pointer.
ASSUME FoundAssumption == NULL \notin [slot : Slot, byte : Nat]

(* ------------------------- derived notions ---------------------------- *)

\* How many commands are stored, and the commands from oldest to newest.
Count == IF full THEN N ELSE (in_offs - out_offs) % N
Stored == [k \in 1 .. Count |-> entry[(out_offs + k - 1) % N]]

BufferTypeOK ==
  /\ entry \in [Slot -> BufferEntry]
  /\ in_offs \in Slot
  /\ out_offs \in Slot
  /\ full \in BOOLEAN

\* What every caller may rely on between two calls, although the code never
\* writes it down.  The search stops when its counter runs out only because
\* a full buffer has in_offs = out_offs; seeking and sizing the device loop
\* over all N slots and are right only because an unused slot has size 0.
RingInv ==
  /\ full => in_offs = out_offs
  /\ ~full => /\ out_offs = 0
              /\ \A i \in Slot : i >= in_offs => entry[i] = EmptyEntry
=============================================================================
