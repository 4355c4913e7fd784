------------------------------ MODULE AesdChar ------------------------------
(***************************************************************************)
(* The character driver (aesd-char-driver/main.c): tasks that share one    *)
(* struct aesd_dev call its file operations concurrently.                  *)
(*                                                                         *)
(* Memory is a function mem from the live addresses to their bytes.  An    *)
(* address is not reused while some pointer to it is left, so that every   *)
(* use of freed memory is visible as such.  aesd_write is one action per   *)
(* access to state that other tasks may change at that point: what it does *)
(* to dev->partial happens before it takes dev->lock.  The operations that *)
(* only touch state under the lock are two: the lock, and the rest up to   *)
(* the unlock.                                                             *)
(***************************************************************************)
EXTENDS CircularBuffer, Sequences, SequencesExt

CONSTANTS
  Writer, Reader,  \* the tasks that write, and those that read and seek
  File,            \* the open file descriptions
  Inputs,          \* the byte sequences that are written
  ReadCounts,      \* the buffer sizes passed to read
  Offsets,         \* the offsets passed to lseek and to the ioctl
  Failures,        \* which of the steps below may fail
  Uninit,          \* the bytes that fresh memory may hold
  MaxWrites        \* bound: write calls per behaviour

FailurePoint == {"buffer", "user", "signal", "struct", "line", "tail", "reply"}

ASSUME DriverAssumption ==
  /\ Writer \cap Reader = {}
  /\ Inputs \subseteq Seq(Nat)
  /\ ReadCounts \subseteq Nat
  /\ Offsets \subseteq Int
  /\ Failures \subseteq FailurePoint
  /\ Uninit \subseteq Nat
  /\ MaxWrites \in Nat

\* There are more addresses than pointers (the slots, partial and one buffer for
\* each writer): an allocation fails for want of memory, see Failures, never
\* because every address is in use.
ASSUME AddressAssumption ==
  /\ IsFiniteSet(Writer)
  /\ \E S \in SUBSET Ptr : IsFiniteSet(S) /\ Cardinality(S) = N + 2 + Cardinality(Writer)

VARIABLES
  partial,  \* dev->partial: the line that has no newline yet
  mem,      \* allocated memory: address -> bytes
  lock,     \* the task that holds dev->lock, or Nobody
  loaded,   \* the module is loaded and its device registered
  opened,   \* the file descriptions that are open
  fpos,     \* f_pos of every file description
  pc,       \* where each task is
  call,     \* the arguments and local variables of each task's call
  structs,  \* entry structs that aesd_write allocated and never frees; mem has
            \* only the memory that holds bytes, so these leak outside of it
  nwrites,  \* write calls so far
  visible   \* history: what the device holds, whenever no write is running, and
            \* whether the last call of aesd_write succeeded

ring == bufferVars
store == <<ring, partial, mem>>
files == <<opened, fpos>>
counters == <<structs, nwrites>>
vars == <<entry, in_offs, out_offs, full, partial, mem, lock, loaded, opened,
          fpos, pc, call, structs, nwrites, visible>>

Task == Writer \cup Reader
NL == 10
EFAULT == -14
EINVAL == -22
ENOMEM == -12
ERESTARTSYS == -512
Nobody == "nobody"

ASSUME NobodyAssumption == Nobody \notin Task

NoCall == [file |-> NULL, pos |-> 0, data |-> << >>, count |-> 0,
           buffer |-> NULL, off |-> 0, ret |-> 0]

Init ==
  /\ BufferInit
  /\ partial = EmptyEntry
  /\ mem = << >>
  /\ lock = Nobody
  /\ loaded = FALSE
  /\ opened = {}
  /\ fpos = [f \in File |-> 0]
  /\ pc = [t \in Task |-> "idle"]
  /\ call = [t \in Task |-> NoCall]
  /\ structs = 0
  /\ nwrites = 0
  /\ visible = [lines |-> << >>, rest |-> << >>, ok |-> TRUE]

(* ------------------------------- memory ------------------------------- *)

Live == DOMAIN mem

Referenced ==
  {entry[i].buffptr : i \in Slot} \cup {partial.buffptr}
    \cup {call[t].buffer : t \in Task}

\* kmalloc and kmemdup return an address that nothing points to.
NewPtr == CHOOSE p \in Ptr : p \notin Live \cup Referenced

\* Memory after p has been allocated with the given bytes, then S freed.
MemAfter(p, bytes, S) ==
  [q \in (Live \cup {p}) \ S |-> IF q = p THEN bytes ELSE mem[q]]

MemWithout(S) == [q \in Live \ S |-> mem[q]]

\* The bytes s, with the bytes d written over it from index i + 1 on.
Overlay(s, i, d) ==
  [k \in DOMAIN s |-> IF k \in i + 1 .. i + Len(d) THEN d[k - i] ELSE s[k]]

Bytes(e) == IF e.buffptr \in Live THEN SubSeq(mem[e.buffptr], 1, e.size)
                                  ELSE << >>

StoredLines == [k \in 1 .. Count |-> Bytes(Stored[k])]

Goto(t, label) == pc' = [pc EXCEPT ![t] = label]

(* ---------------------- module load and unload ------------------------ *)

\* aesd_init_module.  When registering the region or the device fails, the
\* function undoes what it did and nothing is loaded.
Load ==
  /\ ~loaded
  /\ loaded' = TRUE
  /\ BufferReset
  /\ partial' = EmptyEntry
  /\ visible' = [lines |-> << >>, rest |-> << >>, ok |-> TRUE]
  /\ UNCHANGED <<mem, lock, files, pc, call, counters>>

\* Mutant: the unfinished line is not freed.
FreedByCleanupLinesOnly == {entry[i].buffptr : i \in Slot}

FreedByCleanup == {entry[i].buffptr : i \in Slot} \cup {partial.buffptr}

\* aesd_cleanup_module.  The kernel does not unload a module whose device is
\* open (the owner fields hold a reference).
Unload ==
  /\ loaded /\ opened = {}
  /\ loaded' = FALSE
  /\ entry' = [i \in Slot |-> [entry[i] EXCEPT !.buffptr = NULL]]
  /\ partial' = IF partial.buffptr = NULL THEN partial ELSE EmptyEntry
  /\ mem' = MemWithout(FreedByCleanup)
  /\ UNCHANGED <<in_offs, out_offs, full, lock, files, pc, call, counters,
                 visible>>

\* aesd_open
Open(f) ==
  /\ loaded /\ f \notin opened
  /\ opened' = opened \cup {f}
  /\ fpos' = [fpos EXCEPT ![f] = 0]
  /\ UNCHANGED <<store, lock, loaded, pc, call, counters, visible>>

\* aesd_release: runs when the last reference to the file is gone.
Release(f) ==
  /\ f \in opened /\ \A t \in Task : call[t].file # f
  /\ opened' = opened \ {f}
  /\ fpos' = [fpos EXCEPT ![f] = 0]
  /\ UNCHANGED <<store, lock, loaded, pc, call, counters, visible>>

\* A task calls an operation of an open file; nothing serialises two calls on one
\* character device file.
Enter(t, f, label, c) ==
  /\ pc[t] = "idle" /\ f \in opened
  /\ call' = [call EXCEPT ![t] = c]
  /\ Goto(t, label)
  /\ UNCHANGED <<store, lock, loaded, files, structs, visible>>

\* The kernel's read and write pass a copy of f_pos, and refuse a negative one ...
WithFpos(f) == [NoCall EXCEPT !.file = f, !.pos = fpos[f]]

\* ... and store the copy back unless the call failed.
FposAfter(t) ==
  IF call[t].ret < 0 THEN fpos ELSE [fpos EXCEPT ![call[t].file] = call[t].pos]

(* ------------------------------ aesd_write ---------------------------- *)

WriteCall(t, f, data) ==
  /\ nwrites < MaxWrites /\ fpos[f] >= 0
  /\ nwrites' = nwrites + 1
  /\ Enter(t, f, "alloc", [WithFpos(f) EXCEPT !.data = data, !.count = Len(data)])

\* A write gives up before it has the lock: goto out.
GiveUp(t, error) ==
  /\ Goto(t, "out")
  /\ call' = [call EXCEPT ![t].ret = error]
  /\ visible' = [visible EXCEPT !.rest = Bytes(partial), !.ok = FALSE]

\* kmalloc of partial.size + count bytes.  (buffer = NULL on failure.)
AllocBuffer(t) ==
  /\ pc[t] = "alloc"
  /\ \/ /\ \E g \in Uninit :
             mem' = MemAfter(NewPtr,
                             [k \in 1 .. partial.size + call[t].count |-> g], {})
        /\ call' = [call EXCEPT ![t].buffer = NewPtr]
        /\ Goto(t, "copy_partial")
        /\ UNCHANGED visible
     \/ /\ "buffer" \in Failures
        /\ GiveUp(t, ENOMEM)
        /\ UNCHANGED mem
  /\ UNCHANGED <<ring, partial, lock, loaded, files, counters>>

WithPartial(bytes) ==
  IF partial.buffptr = NULL THEN bytes ELSE Overlay(bytes, 0, Bytes(partial))

\* memcpy of the unfinished line, if there is one, to the start of the buffer.
CopyPartial(t) ==
  /\ pc[t] = "copy_partial"
  /\ mem' = [mem EXCEPT ![call[t].buffer] = WithPartial(@)]
  /\ Goto(t, "copy_user")
  /\ UNCHANGED <<ring, partial, lock, loaded, files, call, counters, visible>>

\* copy_from_user behind it, at the size that partial has by now.  A failure
\* returns -ENOMEM: the assignment of -EFAULT follows the goto.
CopyUser(t) ==
  /\ pc[t] = "copy_user"
  /\ \/ /\ mem' = [mem EXCEPT ![call[t].buffer] =
                                  Overlay(@, partial.size, call[t].data)]
        /\ Goto(t, "free_partial")
        /\ UNCHANGED <<call, visible>>
     \/ /\ "user" \in Failures
        /\ GiveUp(t, ENOMEM)
        /\ UNCHANGED mem
  /\ UNCHANGED <<ring, partial, lock, loaded, files, counters>>

\* kfree of the old unfinished line, if there is one ...
FreePartial(t) ==
  /\ pc[t] = "free_partial"
  /\ mem' = MemWithout({partial.buffptr})
  /\ Goto(t, IF partial.buffptr = NULL THEN "lock" ELSE "clear_partial")
  /\ UNCHANGED <<ring, partial, lock, loaded, files, call, counters, visible>>

\* Mutant: the dangling pointer stays behind.
ForgottenKept == partial

\* ... and then the two stores that forget it.
Forgotten == EmptyEntry

ClearPartial(t) ==
  /\ pc[t] = "clear_partial"
  /\ partial' = Forgotten
  /\ Goto(t, "lock")
  /\ UNCHANGED <<ring, mem, lock, loaded, files, call, counters, visible>>

\* Mutant: the lock is taken without waiting for it.
LockIsFreeAlways == TRUE

LockIsFree == lock = Nobody

\* mutex_lock_interruptible gets the lock ...
LockForWrite(t) ==
  /\ pc[t] = "lock" /\ LockIsFree
  /\ lock' = t
  /\ Goto(t, "store")
  /\ UNCHANGED <<store, loaded, files, call, counters, visible>>

\* ... or a signal ends the wait for it.
WriteInterrupted(t) ==
  /\ pc[t] = "lock" /\ ~LockIsFree /\ "signal" \in Failures
  /\ GiveUp(t, ERESTARTSYS)
  /\ UNCHANGED <<store, lock, loaded, files, counters>>

\* working: the part of the buffer that has not been stored yet.
Working(t) ==
  SubSeq(mem[call[t].buffer], call[t].off + 1, Len(mem[call[t].buffer]))

\* Mutant: the newline is not counted.
LineLengthShort(t) ==
  LET n == SelectInSeq(Working(t), LAMBDA b : b = NL) IN IF n = 0 THEN 0 ELSE n - 1

\* memchr: the length of the first line of working, 0 when it has none.
LineLength(t) == SelectInSeq(Working(t), LAMBDA b : b = NL)

\* One turn of the loop: the first line of working goes to the ring.  The
\* code copies the entry struct it allocates into the ring and never frees
\* it; when that allocation fails, it dereferences NULL and the task dies
\* with the lock held.
StoreLine(t) ==
  LET n == LineLength(t) IN
  /\ pc[t] = "store" /\ n > 0
  /\ \/ /\ structs' = structs + 1
        /\ \/ /\ mem' = MemAfter(NewPtr, SubSeq(Working(t), 1, n), {Garbage})
              /\ AddEntry([buffptr |-> NewPtr, size |-> n])
              /\ call' = [call EXCEPT ![t].off = @ + n]
              /\ UNCHANGED pc
           \/ /\ "line" \in Failures
              /\ call' = [call EXCEPT ![t].ret = EINVAL]
              /\ Goto(t, "unlock")
              /\ UNCHANGED <<ring, mem>>
     \/ /\ "struct" \in Failures
        /\ Goto(t, "oops")
        /\ UNCHANGED <<ring, mem, call, structs>>
  /\ UNCHANGED <<partial, lock, loaded, files, nwrites, visible>>

HasTail(t) == Working(t) # << >>

\* Mutant: the size is stored before the allocation is checked.
PartialWithoutMemorySized(tail) == [buffptr |-> NULL, size |-> Len(tail)]

\* partial after the allocation of its copy failed.
PartialWithoutMemory(tail) == [partial EXCEPT !.buffptr = NULL]

\* After the loop: what is left becomes the unfinished line.
KeepTail(t) ==
  LET tail == Working(t)
      done == [call EXCEPT ![t].ret = call[t].count, ![t].pos = @ + call[t].count]
  IN
  /\ pc[t] = "store" /\ LineLength(t) = 0
  /\ \/ /\ ~HasTail(t)
        /\ call' = done
        /\ UNCHANGED <<partial, mem>>
     \/ /\ HasTail(t)
        /\ partial' = [buffptr |-> NewPtr, size |-> Len(tail)]
        /\ mem' = MemAfter(NewPtr, tail, {})
        /\ call' = done
     \/ /\ HasTail(t) /\ "tail" \in Failures
        /\ partial' = PartialWithoutMemory(tail)
        /\ call' = [call EXCEPT ![t].ret = ENOMEM]
        /\ UNCHANGED mem
  /\ Goto(t, "unlock")
  /\ UNCHANGED <<ring, lock, loaded, files, counters, visible>>

\* Mutant: an error path leaves the lock held.
UnlockedOnSuccess(t) == IF call[t].ret < 0 THEN lock ELSE Nobody

Unlocked(t) == Nobody

\* release:
Unlock(t) ==
  /\ pc[t] = "unlock"
  /\ lock' = Unlocked(t)
  /\ Goto(t, "out")
  /\ visible' = [lines |-> StoredLines, rest |-> Bytes(partial),
                 ok |-> call[t].ret >= 0]
  /\ UNCHANGED <<store, loaded, files, call, counters>>

\* Mutant: the working buffer is only freed when the write succeeds.
FreedAtOutOnSuccess(t) == IF call[t].ret < 0 THEN {} ELSE {call[t].buffer}

FreedAtOut(t) == {call[t].buffer}

\* out: the working buffer is freed and the call returns.  After -ERESTARTSYS the
\* kernel reports EINTR to the program, or repeats the call without telling it.
WriteOut(t) ==
  /\ pc[t] = "out"
  /\ mem' = MemWithout(FreedAtOut(t))
  /\ fpos' = FposAfter(t)
  /\ \/ /\ call' = [call EXCEPT ![t] = NoCall]
        /\ Goto(t, "idle")
     \/ /\ call[t].ret = ERESTARTSYS
        /\ call' = [call EXCEPT ![t] = [NoCall EXCEPT !.file = call[t].file,
                                                     !.data = call[t].data,
                                                     !.count = call[t].count]]
        /\ Goto(t, "restart")
  /\ UNCHANGED <<ring, partial, lock, loaded, opened, counters, visible>>

\* The kernel calls aesd_write again, with the same data.
WriteRestart(t) ==
  /\ pc[t] = "restart" /\ fpos[call[t].file] >= 0
  /\ call' = [call EXCEPT ![t].pos = fpos[call[t].file]]
  /\ Goto(t, "alloc")
  /\ UNCHANGED <<store, lock, loaded, files, counters, visible>>

(* --------------------- the lock of the other calls -------------------- *)

\* The labels of aesd_read, aesd_llseek and aesd_adjust_file_offset: waiting for
\* the lock, and holding it.
Holding == [read |-> "reading", seek |-> "seeking", ioctl |-> "adjusting"]

LockForRead(t) ==
  /\ pc[t] \in DOMAIN Holding /\ LockIsFree
  /\ lock' = t
  /\ Goto(t, Holding[pc[t]])
  /\ UNCHANGED <<store, loaded, files, call, counters, visible>>

\* A signal ends the wait, and nothing has changed: whether the kernel reports
\* EINTR or calls again is the same here.
ReadInterrupted(t) ==
  /\ pc[t] \in DOMAIN Holding /\ ~LockIsFree /\ "signal" \in Failures
  /\ call' = [call EXCEPT ![t] = NoCall]
  /\ Goto(t, "idle")
  /\ UNCHANGED <<store, lock, loaded, files, counters, visible>>

(* ------------------------------- aesd_read ---------------------------- *)

ReadCall(t, f, count) ==
  /\ fpos[f] >= 0
  /\ Enter(t, f, "read", [WithFpos(f) EXCEPT !.count = count])
  /\ UNCHANGED nwrites

\* Mutant: the copy starts at the start of the entry.
ReadResultFromStart(t) ==
  LET found == FindEntry(call[t].pos) IN
  IF found = NULL THEN << >>
  ELSE LET e == entry[found.slot]
           n == Min({e.size - found.byte, call[t].count})
       IN  SubSeq(mem[e.buffptr], 1, n)

\* The bytes copied to the caller: from f_pos to the end of the entry that
\* holds it at most; none at the end of the device.
ReadResult(t) ==
  LET found == FindEntry(call[t].pos) IN
  IF found = NULL THEN << >>
  ELSE LET e == entry[found.slot]
           n == Min({e.size - found.byte, call[t].count})
       IN  SubSeq(mem[e.buffptr], found.byte + 1, found.byte + n)

\* aesd_read from the lock to the unlock.
ReadBody(t) ==
  /\ pc[t] = "reading"
  /\ \/ /\ call' = [call EXCEPT ![t].data = ReadResult(t),
                                ![t].pos = @ + Len(ReadResult(t)),
                                ![t].ret = Len(ReadResult(t))]
     \/ /\ "reply" \in Failures /\ ReadResult(t) # << >>
        /\ call' = [call EXCEPT ![t].ret = EFAULT]
  /\ lock' = Nobody
  /\ Goto(t, "return")
  /\ UNCHANGED <<store, loaded, files, counters, visible>>

ReadReturn(t) ==
  /\ pc[t] = "return"
  /\ fpos' = FposAfter(t)
  /\ call' = [call EXCEPT ![t] = NoCall]
  /\ Goto(t, "idle")
  /\ UNCHANGED <<store, lock, loaded, opened, counters, visible>>

(* ------------------- aesd_llseek and the seek ioctl ------------------- *)

\* The loop of aesd_llseek adds up all slots, used or not.
TotalSize == MapThenSumSet(LAMBDA i : entry[i].size, Slot)

\* fixed_size_llseek of the kernel.  SEEK_CUR by 0 only reports f_pos.
FixedSizeLlseek(pos, offset, whence, size) ==
  LET target == CASE whence = "SET" -> offset
                  [] whence = "CUR" -> pos + offset
                  [] whence = "END" -> size + offset
  IN  CASE whence = "CUR" /\ offset = 0 -> pos
        [] OTHER -> IF target \in 0 .. size THEN target ELSE EINVAL

\* The arguments of the two calls matter once the lock is held, and are chosen
\* there.
SeekCall(t, f, label) ==
  /\ Enter(t, f, label, [NoCall EXCEPT !.file = f])
  /\ UNCHANGED nwrites

\* aesd_llseek from the lock to the unlock.  The result is stored in f_pos also
\* when it is an error number.
Llseek(t, offset, whence) ==
  /\ pc[t] = "seeking"
  /\ fpos' = [fpos EXCEPT ![call[t].file] =
                             FixedSizeLlseek(@, offset, whence, TotalSize)]
  /\ lock' = Nobody
  /\ call' = [call EXCEPT ![t] = NoCall]
  /\ Goto(t, "idle")
  /\ UNCHANGED <<store, loaded, opened, counters, visible>>

\* Mutant: the commands are counted from slot 0, not from the oldest.
AdjustFileOffsetFromZero(write_cmd, write_cmd_offset) ==
  LET size(i) == entry[i].size IN
  IF write_cmd >= N \/ write_cmd_offset > size(write_cmd) THEN EINVAL
  ELSE MapThenSumSet(size, 0 .. write_cmd - 1) + write_cmd_offset

\* aesd_adjust_file_offset up to the unlock: the new position or the error.
AdjustFileOffset(write_cmd, write_cmd_offset) ==
  LET size(i) == entry[(out_offs + i) % N].size IN
  IF write_cmd >= N \/ write_cmd_offset > size(write_cmd) THEN EINVAL
  ELSE MapThenSumSet(size, 0 .. write_cmd - 1) + write_cmd_offset

\* struct aesd_seekto, as far as it gets to the lock: a write_cmd of N or more is
\* refused before it.
SeekToRequest == [write_cmd : 0 .. N - 1, write_cmd_offset : Offsets \cap Nat]

\* aesd_ioctl with AESDCHAR_IOCSEEKTO; the other requests change nothing.  The
\* position is computed under the lock, and the call returns if there is none ...
SeekTo(t, seekto) ==
  LET pos == AdjustFileOffset(seekto.write_cmd, seekto.write_cmd_offset) IN
  /\ pc[t] = "adjusting"
  /\ \/ /\ pos = EINVAL
        /\ call' = [call EXCEPT ![t] = NoCall]
        /\ Goto(t, "idle")
     \/ /\ pos # EINVAL
        /\ call' = [call EXCEPT ![t].pos = pos]
        /\ Goto(t, "set_fpos")
  /\ lock' = Nobody
  /\ UNCHANGED <<store, loaded, files, counters, visible>>

\* ... and stored after the unlock.
SetFpos(t) ==
  /\ pc[t] = "set_fpos"
  /\ fpos' = [fpos EXCEPT ![call[t].file] = call[t].pos]
  /\ call' = [call EXCEPT ![t] = NoCall]
  /\ Goto(t, "idle")
  /\ UNCHANGED <<store, lock, loaded, opened, counters, visible>>

(* ------------------------ undefined behaviour ------------------------- *)

\* A task is about to write past the end of its buffer.
Overflows(t) ==
  \/ pc[t] = "copy_partial" /\ partial.buffptr # NULL
       /\ partial.size > Len(mem[call[t].buffer])
  \/ pc[t] = "copy_user"
       /\ partial.size + call[t].count > Len(mem[call[t].buffer])

\* A task is about to copy from, or to free, memory that is not allocated.
UsesFreed(t) ==
  /\ pc[t] \in {"copy_partial", "free_partial"}
  /\ partial.buffptr \notin Live \cup {NULL}

NoFault == \A t \in Writer : ~Overflows(t) /\ ~UsesFreed(t)

(* ---------------------------- specification --------------------------- *)

\* After undefined behaviour anything may happen: the task stops there.
WriteStep(t) ==
  /\ ~Overflows(t) /\ ~UsesFreed(t)
  /\ \/ AllocBuffer(t) \/ CopyPartial(t) \/ CopyUser(t)
     \/ FreePartial(t) \/ ClearPartial(t) \/ LockForWrite(t)
     \/ StoreLine(t) \/ KeepTail(t) \/ Unlock(t) \/ WriteOut(t)

ReadStep(t) ==
  \/ LockForRead(t) \/ ReadBody(t) \/ ReadReturn(t) \/ SetFpos(t)
  \/ \E offset \in Offsets, whence \in {"SET", "CUR", "END"} :
       Llseek(t, offset, whence)
  \/ \E seekto \in SeekToRequest : SeekTo(t, seekto)

Next ==
  \/ Load \/ Unload
  \/ \E f \in File : Open(f) \/ Release(f)
  \/ \E t \in Writer :
       \/ WriteStep(t) \/ WriteInterrupted(t) \/ WriteRestart(t)
       \/ \E f \in File, data \in Inputs : WriteCall(t, f, data)
  \/ \E t \in Reader :
       \/ ReadStep(t) \/ ReadInterrupted(t)
       \/ \E f \in File :
            \/ \E count \in ReadCounts : ReadCall(t, f, count)
            \/ \E label \in {"seek", "ioctl"} : SeekCall(t, f, label)

\* The scheduler runs every task, and the kernel's mutex hands the lock to
\* its waiters in turn.  A signal is never relied on.
Fairness ==
  /\ \A t \in Writer : WF_vars(WriteStep(t)) /\ SF_vars(LockForWrite(t))
  /\ \A t \in Reader : WF_vars(ReadStep(t)) /\ SF_vars(LockForRead(t))

Spec == Init /\ [][Next]_vars
FairSpec == Spec /\ Fairness
=============================================================================
