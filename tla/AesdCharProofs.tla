--------------------------- MODULE AesdCharProofs ---------------------------
(***************************************************************************)
(* That the driver keeps its memory in order and does what the line device *)
(* promises, for every size of the ring, every input, any readers and      *)
(* whatever fails: with one writer, and with any number of writers that    *)
(* only write whole lines.  Several writers that leave lines unfinished    *)
(* break it (see driver_partial_race).                                     *)
(*                                                                         *)
(* Three invariants, each resting on the one before: Inv, who owns which   *)
(* memory; TextInv, what a running write has stored and what the programs  *)
(* see of it; and LinesEnd with Numbers, what reading and seeking need.    *)
(***************************************************************************)
EXTENDS AesdCharProperties, CircularBufferProofs

OneWriter == \A t, u \in Writer : t = u
EndsLine(bytes) == bytes # << >> /\ bytes[Len(bytes)] = NL
InputsAreLines == \A data \in Inputs : EndsLine(data)

(* ----------------------- the inductive invariant ---------------------- *)

CallFields == {"file", "pos", "data", "count", "buffer", "off", "ret"}
WriterLabels == {"idle", "alloc", "copy_partial", "copy_user", "free_partial",
                 "clear_partial", "lock", "store", "oops", "unlock", "out", "restart"}
ReaderLabels == {"idle", "read", "reading", "return", "seek", "seeking", "ioctl",
                 "adjusting", "set_fpos"}
WithBuffer == {"copy_partial", "copy_user", "free_partial", "clear_partial", "lock",
               "store", "oops", "unlock"}

StoreTypes ==
  /\ BufferTypeOK
  /\ partial \in BufferEntry /\ (partial.buffptr = NULL => partial.size = 0)
  /\ mem = [p \in Live |-> mem[p]]
  /\ Live \subseteq Ptr /\ \A p \in Live : mem[p] \in Seq(Nat)
  /\ loaded \in BOOLEAN /\ opened \subseteq File

TaskTypes ==
  /\ pc \in [Task -> WriterLabels \cup ReaderLabels]
  /\ \A t \in Writer : pc[t] \in WriterLabels
  /\ \A t \in Reader : pc[t] \in ReaderLabels
  /\ call = [t \in Task |-> call[t]]
  /\ \A t \in Task : /\ DOMAIN call[t] = CallFields
                     /\ call[t].buffer \in Ptr \cup {NULL}
                     /\ call[t].off \in Nat
  /\ \A t \in Writer : pc[t] # "idle" => /\ call[t].data \in Inputs
                                         /\ call[t].count = Len(call[t].data)

\* A call keeps its file open and with it the module loaded; a ring that is not in
\* use points nowhere.
CallsKeepLoaded ==
  /\ \A t \in Task : pc[t] # "idle" => call[t].file \in opened
  /\ opened # {} => loaded
  /\ loaded => RingInv
  /\ ~loaded => partial.buffptr = NULL /\ \A i \in Slot : entry[i].buffptr = NULL

\* The working buffer exists from its allocation to the end of the call.
Buffers ==
  /\ \A t \in Writer : /\ pc[t] \in WithBuffer => call[t].buffer \in Live
                       /\ pc[t] \in {"idle", "restart", "alloc"} => call[t].buffer = NULL
                       /\ pc[t] = "out" => call[t].buffer \in Live \cup {NULL}
  /\ \A t \in Reader : call[t].buffer = NULL

\* What points to memory, each to its own ...
Unshared ==
  /\ \A i, j \in Slot :
       entry[i].buffptr = entry[j].buffptr /\ entry[i].buffptr # NULL => i = j
  /\ \A t, u \in Task :
       call[t].buffer = call[u].buffer /\ call[t].buffer # NULL => t = u
  /\ \A i \in Slot, t \in Task :
       entry[i].buffptr = call[t].buffer => entry[i].buffptr = NULL
  /\ \A i \in Slot : entry[i].buffptr = partial.buffptr => entry[i].buffptr = NULL
  /\ \A t \in Task : call[t].buffer = partial.buffptr => call[t].buffer = NULL

\* ... that is live and as large as it is said to be, but for the unfinished line
\* while its writer is about to forget it; and nothing else is live.
PartialDangles == \E t \in Writer : pc[t] = "clear_partial"
PointersLive ==
  /\ \A i \in Slot : entry[i].buffptr # NULL =>
       entry[i].buffptr \in Live /\ entry[i].size = Len(mem[entry[i].buffptr])
  /\ partial.buffptr # NULL => (partial.buffptr \in Live <=> ~PartialDangles)
  /\ partial.buffptr \in Live => partial.size = Len(mem[partial.buffptr])
  /\ Live \subseteq Referenced

\* The buffer has room for what is copied into it, because nobody else changes the
\* unfinished line; and there is none when the lines of a write are stored.
PartialStands ==
  \A t \in Writer :
    /\ pc[t] \in {"copy_partial", "copy_user"} =>
         Len(mem[call[t].buffer]) = partial.size + call[t].count
    /\ pc[t] \in {"lock", "store"} => partial = EmptyEntry

\* Writers of whole lines never leave a line unfinished.
NothingUnfinished ==
  InputsAreLines =>
    /\ partial = EmptyEntry
    /\ \A t \in Writer :
         pc[t] \in {"free_partial", "clear_partial", "lock", "store"} =>
           EndsLine(mem[call[t].buffer])

Inv ==
  /\ StoreTypes /\ TaskTypes /\ CallsKeepLoaded /\ Buffers
  /\ Unshared /\ PointersLive /\ PartialStands /\ NothingUnfinished

\* The steps of Next, by who takes them.
WriterStep(t) ==
  \/ WriteStep(t) \/ WriteInterrupted(t) \/ WriteRestart(t)
  \/ \E f \in File, data \in Inputs : WriteCall(t, f, data)

ReaderStep(t) ==
  \/ ReadStep(t) \/ ReadInterrupted(t)
  \/ \E f \in File :
       \/ \E count \in ReadCounts : ReadCall(t, f, count)
       \/ \E label \in {"seek", "ioctl"} : SeekCall(t, f, label)

(* ------------------------------ lemmas -------------------------------- *)

\* memchr finds a newline when there is one, and inside the working part.
LEMMA LineLengthFinds ==
  ASSUME NEW w \in Seq(Nat)
  PROVE  LET n == SelectInSeq(w, LAMBDA b : b = NL)
         IN  n \in 0 .. Len(w) /\ (n = 0 => \A i \in 1 .. Len(w) : w[i] # NL)
<1> DEFINE I == {i \in 1 .. Len(w) : w[i] = NL}
           n == SelectInSeq(w, LAMBDA b : b = NL)
<1>1. n = IF I # {} THEN Min(I) ELSE 0
  BY DEF SelectInSeq
<1>2. I \in SUBSET Nat
  OBVIOUS
<1>3. CASE I # {}
  <2>1. Min(I) \in I
    BY <1>2, <1>3, MinOfNaturals
  <2>2. QED
    BY <2>1, <1>1, <1>3
<1>4. CASE I = {}
  BY <1>1, <1>4
<1>5. QED
  BY <1>3, <1>4

\* An address that nothing points to can always be allocated.
LEMMA FreshPtr ==
  ASSUME StoreTypes, TaskTypes, Buffers, PointersLive
  PROVE  NewPtr \in Ptr /\ NewPtr \notin Live /\ NewPtr \notin Referenced /\ NewPtr # NULL
<1> DEFINE A == {entry[i].buffptr : i \in Slot}
           B == {call[t].buffer : t \in Writer}
           f == [i \in Slot |-> entry[i].buffptr]
           g == [t \in Writer |-> call[t].buffer]
           D == A \cup B
           C == D \cup {partial.buffptr}
<1>1. IsFiniteSet(A) /\ Cardinality(A) <= N
  <2>1. IsFiniteSet(Slot) /\ Cardinality(Slot) = N
    BY NAssumption, FS_Interval DEF Slot
  <2>2. f \in Surjection(Slot, A)
    BY DEF Surjection
  <2>3. QED
    BY <2>1, <2>2, FS_Surjection
<1>2. IsFiniteSet(B) /\ Cardinality(B) <= Cardinality(Writer)
  <2>1. g \in Surjection(Writer, B)
    BY DEF Surjection
  <2>2. QED
    BY <2>1, AddressAssumption, FS_Surjection
<1> HIDE DEF A, B
<1>3. IsFiniteSet(C) /\ Cardinality(C) <= N + 1 + Cardinality(Writer)
  <2>1. IsFiniteSet(D) /\ Cardinality(D) = Cardinality(A) + Cardinality(B) - Cardinality(A \cap B)
    BY <1>1, <1>2, FS_Union
  <2>2. IsFiniteSet(A \cap B)
    BY <1>1, FS_Intersection
  <2>3. /\ Cardinality(A) \in Nat /\ Cardinality(B) \in Nat
        /\ Cardinality(A \cap B) \in Nat /\ Cardinality(Writer) \in Nat
        /\ Cardinality(D) \in Nat
    BY <1>1, <1>2, <2>1, <2>2, AddressAssumption, FS_CardinalityType
  <2> HIDE DEF D
  <2>4. /\ IsFiniteSet(C)
        /\ Cardinality(C) = IF partial.buffptr \in D THEN Cardinality(D) ELSE Cardinality(D) + 1
    BY <2>1, FS_AddElement
  <2>5. QED
    BY <1>1, <1>2, <2>1, <2>3, <2>4, NAssumption
<1>4. PICK S \in SUBSET Ptr :
        IsFiniteSet(S) /\ Cardinality(S) = N + 2 + Cardinality(Writer)
  BY AddressAssumption
<1>5. ~(S \subseteq C)
  <2>1. Cardinality(Writer) \in Nat /\ Cardinality(C) \in Nat /\ N \in Nat
    BY <1>3, AddressAssumption, FS_CardinalityType, NAssumption
  <2>2. SUFFICES ASSUME S \in SUBSET C PROVE FALSE
    OBVIOUS
  <2>3. Cardinality(S) <= Cardinality(C)
    BY <1>3, <2>2, FS_Subset
  <2>4. QED
    BY <1>3, <1>4, <2>1, <2>3
<1>6. Referenced \subseteq C \cup {NULL}
  BY DEF Referenced, Buffers, Task, A, B
<1>7. \E p \in Ptr : p \notin Live \cup Referenced
  BY <1>4, <1>5, <1>6, NullAssumption DEF PointersLive
<1>8. QED
  BY <1>7, NullAssumption DEF NewPtr

\* aesd_circular_buffer_add_entry keeps the ring consistent, and overwrites without
\* handing it back only what points nowhere.
LEMMA AddEntryKeepsRing ==
  ASSUME BufferTypeOK, RingInv, NEW e \in BufferEntry, AddEntry(e)
  PROVE  /\ BufferTypeOK' /\ RingInv'
         /\ entry' = [entry EXCEPT ![in_offs] = e]
         /\ Garbage = entry[in_offs].buffptr
<1>1. \A i \in Slot : /\ NextOffset(i) \in Slot
                      /\ NextOffset(i) = IF i = N - 1 THEN 0 ELSE i + 1
  BY NAssumption, SMT DEF Slot, NextOffset
<1>2. BufferTypeOK' /\ entry' = [entry EXCEPT ![in_offs] = e]
  BY <1>1 DEF BufferTypeOK, AddEntry
<1>3. Garbage = entry[in_offs].buffptr
  <2>1. CASE full
    BY <2>1 DEF Garbage
  <2>2. CASE ~full
    BY <2>2, NAssumption DEF Garbage, RingInv, BufferTypeOK, Slot, EmptyEntry
  <2>3. QED
    BY <2>1, <2>2
<1>4. CASE full
  <2>1. full' /\ in_offs' = NextOffset(in_offs) /\ out_offs' = NextOffset(out_offs)
    BY <1>4 DEF AddEntry
  <2>2. in_offs = out_offs
    BY <1>4 DEF RingInv
  <2>3. QED
    BY <2>1, <2>2, <1>2, <1>3 DEF RingInv
<1>5. CASE ~full
  <2>1. /\ out_offs = 0 /\ out_offs' = 0 /\ in_offs' = NextOffset(in_offs)
        /\ full' = (NextOffset(in_offs) = 0)
    BY <1>5 DEF AddEntry, RingInv
  <2>2. CASE in_offs = N - 1
    <3>1. in_offs' = 0
      BY <2>1, <2>2, <1>1 DEF BufferTypeOK
    <3>2. full'
      BY <2>1, <3>1
    <3>3. QED
      BY <2>1, <3>1, <3>2, <1>2, <1>3 DEF RingInv
  <2>3. CASE in_offs # N - 1
    <3>1. in_offs' = in_offs + 1 /\ in_offs' # 0 /\ in_offs \in Nat
      BY <2>1, <2>3, <1>1, NAssumption DEF BufferTypeOK, Slot
    <3>2. \A i \in Slot : i >= in_offs' => entry'[i] = EmptyEntry
      BY <1>2, <1>5, <3>1, NAssumption DEF RingInv, BufferTypeOK, Slot
    <3>3. ~full'
      BY <2>1, <3>1
    <3>4. QED
      BY <2>1, <3>2, <3>3, <1>2, <1>3 DEF RingInv
  <2>4. QED
    BY <2>2, <2>3
<1>6. QED
  BY <1>2, <1>3, <1>4, <1>5

(* --------------------- steps that leave memory alone ------------------ *)

\* What the invariant is about.
invVars == <<store, loaded, opened, pc, call>>

\* A step that leaves all of these alone keeps the invariant.
LEMMA UnchangedKeepsInv == ASSUME Inv, UNCHANGED invVars PROVE Inv'
<1> USE DEF invVars, store, ring, bufferVars
<1>1. (StoreTypes /\ TaskTypes /\ CallsKeepLoaded)'
  BY DEF Inv, StoreTypes, TaskTypes, CallsKeepLoaded, BufferTypeOK, RingInv, Live
<1>2. (Buffers /\ Unshared)'
  BY DEF Inv, Buffers, Unshared, Live
<1>3. PointersLive'
  BY DEF Inv, PointersLive, PartialDangles, Referenced, Live
<1>4. (PartialStands /\ NothingUnfinished)'
  BY DEF Inv, PartialStands, NothingUnfinished
<1>5. QED
  BY <1>1, <1>2, <1>3, <1>4 DEF Inv

\* A reader's step changes only where it is and the arguments of its call.
LEMMA ReaderKeepsInv ==
  ASSUME Inv, NEW t \in Reader, NEW label \in ReaderLabels, NEW c,
         UNCHANGED <<store, loaded, opened>>, pc' = [pc EXCEPT ![t] = label],
         call' = [call EXCEPT ![t] = c], DOMAIN c = CallFields,
         c.buffer = NULL, c.off \in Nat, label # "idle" => c.file \in opened
  PROVE  Inv'
<1> USE DEF store, ring, bufferVars
<1>1. /\ t \in Task /\ t \notin Writer
      /\ pc'[t] = label /\ call'[t] = c
      /\ \A u \in Task : u # t => pc'[u] = pc[u] /\ call'[u] = call[u]
      /\ \A u \in Writer : u \in Task /\ u # t
      /\ \A u \in Reader : u \in Task
  BY DriverAssumption DEF Inv, TaskTypes, Task
<1>2. \A u \in Task : call'[u].buffer = call[u].buffer
  BY <1>1 DEF Inv, Buffers
<1>3. StoreTypes'
  BY DEF Inv, StoreTypes, BufferTypeOK, Live
<1>4. TaskTypes'
  BY <1>1 DEF Inv, TaskTypes
<1>5. CallsKeepLoaded'
  BY <1>1 DEF Inv, CallsKeepLoaded, RingInv
<1>6. Buffers'
  BY <1>1, <1>2 DEF Inv, Buffers, Live, Task
<1>7. Unshared'
  BY <1>2 DEF Inv, Unshared
<1>8. PointersLive'
  <2>1. PartialDangles' <=> PartialDangles
    BY <1>1 DEF PartialDangles
  <2>2. Referenced' = Referenced
    BY <1>2 DEF Referenced
  <2>3. QED
    BY <2>1, <2>2 DEF Inv, PointersLive, Live
<1>9. (PartialStands /\ NothingUnfinished)'
  BY <1>1 DEF Inv, PartialStands, NothingUnfinished
<1>10. QED
  BY <1>3, <1>4, <1>5, <1>6, <1>7, <1>8, <1>9 DEF Inv

\* What a step of one writer leaves alone.
LEMMA OtherTasks ==
  ASSUME TaskTypes, NEW t \in Writer, NEW label, NEW c,
         pc' = [pc EXCEPT ![t] = label], call' = [call EXCEPT ![t] = c]
  PROVE  /\ t \in Task /\ t \notin Reader
         /\ pc'[t] = label /\ call'[t] = c
         /\ \A u \in Task : u # t => pc'[u] = pc[u] /\ call'[u] = call[u]
         /\ \A u \in Writer : u \in Task
         /\ \A u \in Reader : u \in Task /\ u # t
  BY DriverAssumption DEF TaskTypes, Task

\* The types of the calls after a step of one writer.
LEMMA WriterTyped ==
  ASSUME TaskTypes, NEW t \in Writer, NEW label \in WriterLabels, NEW c,
         pc' = [pc EXCEPT ![t] = label], call' = [call EXCEPT ![t] = c],
         DOMAIN c = CallFields, c.buffer \in Ptr \cup {NULL}, c.off \in Nat,
         label # "idle" => c.data \in Inputs /\ c.count = Len(c.data)
  PROVE  TaskTypes'
<1>1. /\ t \in Task /\ t \notin Reader
      /\ pc'[t] = label /\ call'[t] = c
      /\ \A u \in Task : u # t => pc'[u] = pc[u] /\ call'[u] = call[u]
      /\ \A u \in Writer : u \in Task
      /\ \A u \in Reader : u \in Task /\ u # t
  BY OtherTasks
<1>2. pc' \in [Task -> WriterLabels \cup ReaderLabels]
  BY <1>1 DEF TaskTypes
<1>3. \A u \in Writer : pc'[u] \in WriterLabels
  BY <1>1 DEF TaskTypes
<1>4. \A u \in Reader : pc'[u] \in ReaderLabels
  BY <1>1 DEF TaskTypes
<1>5. call' = [u \in Task |-> call'[u]]
  BY <1>1 DEF TaskTypes
<1>6. \A u \in Task : /\ DOMAIN call'[u] = CallFields
                      /\ call'[u].buffer \in Ptr \cup {NULL}
                      /\ call'[u].off \in Nat
  BY <1>1 DEF TaskTypes
<1>7. \A u \in Writer : pc'[u] # "idle" => /\ call'[u].data \in Inputs
                                           /\ call'[u].count = Len(call'[u].data)
  BY <1>1 DEF TaskTypes
<1>8. QED
  BY <1>2, <1>3, <1>4, <1>5, <1>6, <1>7 DEF TaskTypes

\* A writer goes on or gives up without touching memory: it keeps its buffer.
LEMMA WriterKeepsInv ==
  ASSUME Inv, NEW t \in Writer, NEW label, NEW c,
         UNCHANGED <<store, loaded, opened>>, pc' = [pc EXCEPT ![t] = label],
         call' = [call EXCEPT ![t] = c], DOMAIN c = CallFields,
         c.buffer = call[t].buffer, c.off = call[t].off, c.file = call[t].file,
         c.data = call[t].data, c.count = call[t].count,
         \/ label = "out" /\ pc[t] \in {"alloc", "copy_user", "lock", "unlock"}
         \/ label = "store" /\ pc[t] = "lock"
         \/ label \in {"unlock", "oops"} /\ pc[t] = "store"
         \/ label = "alloc" /\ pc[t] = "restart"
  PROVE  Inv'
<1> USE DEF store, ring, bufferVars
<1>1. /\ t \in Task /\ t \notin Reader
      /\ pc'[t] = label /\ call'[t] = c
      /\ \A u \in Task : u # t => pc'[u] = pc[u] /\ call'[u] = call[u]
      /\ \A u \in Writer : u \in Task
      /\ \A u \in Reader : u \in Task /\ u # t
  BY DriverAssumption DEF Inv, TaskTypes, Task
<1>2. \A u \in Task : call'[u].buffer = call[u].buffer
  BY <1>1
<1>3. StoreTypes'
  BY DEF Inv, StoreTypes, BufferTypeOK, Live
<1>4. TaskTypes'
  <2>1. label \in WriterLabels /\ pc[t] # "idle"
    BY DEF WriterLabels
  <2>2. c.off \in Nat /\ c.buffer \in Ptr \cup {NULL}
    BY <1>1 DEF Inv, TaskTypes
  <2>3. c.data \in Inputs /\ c.count = Len(c.data)
    BY <2>1 DEF Inv, TaskTypes
  <2>4. QED
    BY <2>1, <2>2, <2>3, WriterTyped DEF Inv
<1>5. CallsKeepLoaded'
  BY <1>1 DEF Inv, CallsKeepLoaded, RingInv
<1>6. Buffers'
  BY <1>1, <1>2 DEF Inv, Buffers, Live, WithBuffer
<1>7. Unshared'
  BY <1>2 DEF Inv, Unshared
<1>8. PointersLive'
  <2>1. PartialDangles' <=> PartialDangles
    BY <1>1 DEF PartialDangles
  <2>2. Referenced' = Referenced
    BY <1>2 DEF Referenced
  <2>3. QED
    BY <2>1, <2>2 DEF Inv, PointersLive, Live
<1>9. PartialStands'
  BY <1>1 DEF Inv, PartialStands
<1>10. NothingUnfinished'
  BY <1>1 DEF Inv, NothingUnfinished
<1>11. QED
  BY <1>3, <1>4, <1>5, <1>6, <1>7, <1>8, <1>9, <1>10 DEF Inv

\* While the module is not in use the only memory is that of its ring and its
\* unfinished line.
LEMMA IdleOwnsNothing ==
  ASSUME Inv, opened = {}
  PROVE  /\ \A t \in Task : pc[t] = "idle" /\ call[t].buffer = NULL
         /\ Live \subseteq {entry[i].buffptr : i \in Slot} \cup {partial.buffptr}
         /\ ~loaded => Live = {}
<1>1. \A t \in Task : pc[t] = "idle"
  BY DEF Inv, CallsKeepLoaded
<1>2. \A t \in Task : call[t].buffer = NULL
  BY <1>1 DEF Inv, Buffers, Task
<1>3. NULL \notin Live
  BY NullAssumption DEF Inv, StoreTypes
<1>4. Live \subseteq {entry[i].buffptr : i \in Slot} \cup {partial.buffptr}
  BY <1>2, <1>3 DEF Inv, PointersLive, Referenced
<1>5. ~loaded => Live = {}
  BY <1>3, <1>4 DEF Inv, CallsKeepLoaded
<1>6. QED
  BY <1>1, <1>2, <1>4, <1>5

\* Loading and unloading the module, opening and closing the device.
LEMMA ModuleKeepsInv ==
  ASSUME Inv, Load \/ Unload \/ \E f \in File : Open(f) \/ Release(f)
  PROVE  Inv'
<1> USE DEF store, ring, bufferVars, counters
<1>1. CASE Load
  <2>1. opened = {}
    BY <1>1 DEF Load, Inv, CallsKeepLoaded
  <2>2. /\ \A t \in Task : pc'[t] = "idle" /\ call'[t].buffer = NULL
        /\ Live' = {} /\ mem' = mem /\ Live = {}
    BY <1>1, <2>1, IdleOwnsNothing DEF Load, Live
  <2>3. /\ partial' = EmptyEntry /\ opened' = opened /\ loaded' = TRUE
        /\ entry' = [i \in Slot |-> EmptyEntry] /\ in_offs' = 0 /\ out_offs' = 0
        /\ full' = FALSE /\ pc' = pc /\ call' = call
    BY <1>1 DEF Load, BufferReset, files
  <2>4. EmptyEntry \in BufferEntry /\ EmptyEntry.buffptr = NULL /\ EmptyEntry.size = 0
    BY DEF EmptyEntry, BufferEntry
  <2>5. BufferTypeOK' /\ RingInv'
    <3>1. 0 \in Slot
      BY NAssumption DEF Slot
    <3>2. ~full' /\ full' \in BOOLEAN
      BY <2>3
    <3>3. BufferTypeOK'
      BY <2>3, <2>4, <3>1, <3>2 DEF BufferTypeOK
    <3>4. \A i \in Slot : entry'[i] = EmptyEntry
      BY <2>3
    <3>5. RingInv'
      BY <2>3, <3>2, <3>4 DEF RingInv
    <3>6. QED
      BY <3>3, <3>5
  <2>6. (StoreTypes /\ TaskTypes)'
    BY <2>2, <2>3, <2>4, <2>5 DEF Inv, StoreTypes, TaskTypes, Live
  <2>7. (CallsKeepLoaded /\ Buffers)'
    BY <2>2, <2>3, <2>5 DEF CallsKeepLoaded, Buffers, Task, WithBuffer
  <2>8. (Unshared /\ PointersLive)'
    BY <2>2, <2>3, <2>4 DEF Unshared, PointersLive
  <2>9. (PartialStands /\ NothingUnfinished)'
    BY <2>2, <2>3 DEF PartialStands, NothingUnfinished, Task
  <2>10. QED
    BY <2>6, <2>7, <2>8, <2>9 DEF Inv
<1>2. CASE Unload
  <2>1. /\ \A t \in Task : pc'[t] = "idle" /\ call'[t].buffer = NULL
        /\ mem' = [q \in {} |-> mem[q]]
    BY <1>2, IdleOwnsNothing DEF Unload, MemWithout, FreedByCleanup
  <2>2. /\ entry' = [i \in Slot |-> [entry[i] EXCEPT !.buffptr = NULL]]
        /\ UNCHANGED <<in_offs, out_offs, full, opened, pc, call>>
        /\ loaded' = FALSE /\ opened = {}
    BY <1>2 DEF Unload, files
  <2>3. \A i \in Slot : entry'[i] \in BufferEntry /\ entry'[i].buffptr = NULL
    BY <2>2 DEF Inv, StoreTypes, BufferTypeOK, BufferEntry
  <2>4. partial' \in BufferEntry /\ partial' = EmptyEntry /\ partial'.buffptr = NULL
    BY <1>2 DEF Unload, Inv, StoreTypes, EmptyEntry, BufferEntry
  <2>5. BufferTypeOK'
    BY <2>2, <2>3 DEF Inv, StoreTypes, BufferTypeOK
  <2>6. StoreTypes'
    BY <2>1, <2>2, <2>4, <2>5 DEF Inv, StoreTypes, Live, EmptyEntry
  <2>7. TaskTypes'
    BY <2>2 DEF Inv, TaskTypes
  <2>8. (CallsKeepLoaded /\ Buffers)'
    BY <2>1, <2>2, <2>3, <2>4 DEF CallsKeepLoaded, Buffers, Task, WithBuffer
  <2>9. (Unshared /\ PointersLive)'
    BY <2>1, <2>3, <2>4, NullAssumption DEF Unshared, PointersLive, Live
  <2>10. (PartialStands /\ NothingUnfinished)'
    BY <2>1, <2>4 DEF PartialStands, NothingUnfinished, Task
  <2>11. QED
    BY <2>6, <2>7, <2>8, <2>9, <2>10 DEF Inv
<1>3. ASSUME NEW f \in File, Open(f) \/ Release(f) PROVE Inv'
  <2>1. UNCHANGED <<store, loaded, pc, call>>
    BY <1>3 DEF Open, Release
  <2>2. StoreTypes'
    BY <1>3, <2>1 DEF Open, Release, Inv, StoreTypes, BufferTypeOK, Live
  <2>3. CallsKeepLoaded'
    BY <1>3, <2>1 DEF Open, Release, Inv, CallsKeepLoaded, RingInv
  <2>4. (TaskTypes /\ Buffers /\ Unshared)'
    BY <2>1 DEF Inv, TaskTypes, Buffers, Unshared, Live
  <2>5. PointersLive'
    BY <2>1 DEF Inv, PointersLive, PartialDangles, Referenced, Live
  <2>6. (PartialStands /\ NothingUnfinished)'
    BY <2>1 DEF Inv, PartialStands, NothingUnfinished
  <2>7. QED
    BY <2>2, <2>3, <2>4, <2>5, <2>6 DEF Inv
<1>4. QED
  BY <1>1, <1>2, <1>3

\* A reader goes to a label, with the arguments and local variables c.
ReaderGoes(t, label, c) ==
  /\ label \in ReaderLabels /\ pc' = [pc EXCEPT ![t] = label]
  /\ call' = [call EXCEPT ![t] = c] /\ DOMAIN c = CallFields
  /\ c.buffer = NULL /\ c.off \in Nat /\ (label # "idle" => c.file \in opened)

\* Every step of a reader leaves the ring, the memory and what was written alone.
LEMMA ReaderMoves ==
  ASSUME Inv, NEW t \in Reader, ReaderStep(t)
  PROVE  /\ UNCHANGED <<store, loaded, opened, visible, structs, nwrites>>
         /\ \E label, c : ReaderGoes(t, label, c)
<1> USE DEF counters, files, Goto
<1>1. /\ t \in Task /\ DOMAIN call[t] = CallFields
      /\ call[t].buffer = NULL /\ call[t].off \in Nat
      /\ call = [u \in Task |-> call[u]]
      /\ pc[t] # "idle" => call[t].file \in opened
  BY DEF Inv, TaskTypes, Buffers, CallsKeepLoaded, Task
<1>2. ASSUME NEW f \in opened, NEW label \in ReaderLabels, NEW pos, NEW count,
             pc' = [pc EXCEPT ![t] = label],
             call' = [call EXCEPT ![t] = [NoCall EXCEPT !.file = f, !.pos = pos,
                                                        !.count = count]]
      PROVE  \E l, c : ReaderGoes(t, l, c)
  <2> DEFINE c == [NoCall EXCEPT !.file = f, !.pos = pos, !.count = count]
  <2>1. DOMAIN c = CallFields /\ c.buffer = NULL /\ c.off \in Nat /\ c.file = f
    BY DEF NoCall, CallFields
  <2>2. call' = [call EXCEPT ![t] = c]
    BY <1>2
  <2> HIDE DEF c
  <2>3. ReaderGoes(t, label, c)
    BY <1>2, <2>1, <2>2 DEF ReaderGoes
  <2>4. QED
    BY <2>3
<1>3. ASSUME NEW label \in ReaderLabels, NEW data, NEW pos, NEW ret, pc[t] # "idle",
             pc' = [pc EXCEPT ![t] = label],
             call' = [call EXCEPT ![t] = [call[t] EXCEPT !.data = data, !.pos = pos,
                                                         !.ret = ret]]
      PROVE  \E l, c : ReaderGoes(t, l, c)
  <2> DEFINE c == [call[t] EXCEPT !.data = data, !.pos = pos, !.ret = ret]
  <2>1. DOMAIN c = CallFields /\ c.buffer = NULL /\ c.off \in Nat /\ c.file \in opened
    BY <1>1, <1>3 DEF CallFields
  <2>2. call' = [call EXCEPT ![t] = c]
    BY <1>3
  <2> HIDE DEF c
  <2>3. ReaderGoes(t, label, c)
    BY <1>3, <2>1, <2>2 DEF ReaderGoes
  <2>4. QED
    BY <2>3
<1>4. ASSUME pc' = [pc EXCEPT ![t] = "idle"], call' = [call EXCEPT ![t] = NoCall]
      PROVE  \E l, c : ReaderGoes(t, l, c)
  <2>1. /\ DOMAIN NoCall = CallFields /\ NoCall.buffer = NULL /\ NoCall.off \in Nat
        /\ "idle" \in ReaderLabels
    BY DEF NoCall, CallFields, ReaderLabels
  <2> HIDE DEF NoCall
  <2>2. ReaderGoes(t, "idle", NoCall)
    BY <1>4, <2>1 DEF ReaderGoes
  <2>3. QED
    BY <2>2
<1>5. CASE ReadReturn(t) \/ SetFpos(t) \/ ReadInterrupted(t)
  BY <1>4, <1>5 DEF ReadReturn, SetFpos, ReadInterrupted
<1>6. CASE LockForRead(t)
  <2> DEFINE label == Holding[pc[t]]
  <2>1. pc[t] # "idle" /\ label \in ReaderLabels
    BY <1>6 DEF LockForRead, Holding, ReaderLabels
  <2>2. /\ pc' = [pc EXCEPT ![t] = label] /\ call' = call
        /\ UNCHANGED <<store, loaded, opened, visible, structs, nwrites>>
    BY <1>6 DEF LockForRead
  <2>3. call' = [call EXCEPT ![t] = call[t]]
    BY <1>1, <2>2
  <2> HIDE DEF label
  <2>4. ReaderGoes(t, label, call[t])
    BY <1>1, <2>1, <2>2, <2>3 DEF ReaderGoes
  <2>5. QED
    BY <2>2, <2>4
<1>7. CASE ReadBody(t)
  <2> DEFINE got == ReadResult(t)
             n == Len(ReadResult(t))
             pos == call[t].pos + n
             data == call[t].data
             same == call[t].pos
  <2>1. /\ pc[t] # "idle" /\ pc' = [pc EXCEPT ![t] = "return"] /\ "return" \in ReaderLabels
        /\ UNCHANGED <<store, loaded, opened, visible, structs, nwrites>>
    BY <1>7 DEF ReadBody, ReaderLabels
  <2>2. \/ call' = [call EXCEPT ![t].data = got, ![t].pos = @ + n, ![t].ret = n]
        \/ call' = [call EXCEPT ![t].ret = EFAULT]
    BY <1>7 DEF ReadBody
  <2> HIDE DEF got, n
  <2>3. CASE call' = [call EXCEPT ![t].data = got, ![t].pos = @ + n, ![t].ret = n]
    <3>1. call' = [call EXCEPT ![t] = [call[t] EXCEPT !.data = got, !.pos = pos, !.ret = n]]
      BY <1>1, <2>3 DEF CallFields
    <3> HIDE DEF pos
    <3>2. QED
      BY <1>3, <2>1, <3>1
  <2>4. CASE call' = [call EXCEPT ![t].ret = EFAULT]
    <3>1. call' = [call EXCEPT ![t] = [call[t] EXCEPT !.data = data, !.pos = same,
                                                      !.ret = EFAULT]]
      BY <1>1, <2>4 DEF CallFields
    <3> HIDE DEF data, same
    <3>2. QED
      BY <1>3, <2>1, <3>1
  <2>5. QED
    BY <2>2, <2>3, <2>4
<1>8. ASSUME NEW offset, NEW whence, Llseek(t, offset, whence)
      PROVE  /\ UNCHANGED <<store, loaded, opened, visible, structs, nwrites>>
             /\ \E l, c : ReaderGoes(t, l, c)
  BY <1>4, <1>8 DEF Llseek
<1>9. ASSUME NEW seekto, SeekTo(t, seekto)
      PROVE  /\ UNCHANGED <<store, loaded, opened, visible, structs, nwrites>>
             /\ \E l, c : ReaderGoes(t, l, c)
  <2> DEFINE pos == AdjustFileOffset(seekto.write_cmd, seekto.write_cmd_offset)
             data == call[t].data
             ret == call[t].ret
  <2>1. /\ pc[t] # "idle" /\ "set_fpos" \in ReaderLabels
        /\ UNCHANGED <<store, loaded, opened, visible, structs, nwrites>>
        /\ \/ pc' = [pc EXCEPT ![t] = "idle"] /\ call' = [call EXCEPT ![t] = NoCall]
           \/ pc' = [pc EXCEPT ![t] = "set_fpos"] /\ call' = [call EXCEPT ![t].pos = pos]
    BY <1>9 DEF SeekTo, ReaderLabels
  <2> HIDE DEF pos
  <2>2. CASE pc' = [pc EXCEPT ![t] = "set_fpos"] /\ call' = [call EXCEPT ![t].pos = pos]
    <3>1. call' = [call EXCEPT ![t] = [call[t] EXCEPT !.data = data, !.pos = pos, !.ret = ret]]
      BY <1>1, <2>2 DEF CallFields
    <3> HIDE DEF data, ret
    <3>2. pc[t] # "idle" /\ "set_fpos" \in ReaderLabels /\ pc' = [pc EXCEPT ![t] = "set_fpos"]
      BY <2>1, <2>2
    <3>3. \E l, c : ReaderGoes(t, l, c)
      BY <1>3, <3>1, <3>2
    <3>4. QED
      BY <2>1, <3>3
  <2>3. QED
    BY <1>4, <2>1, <2>2
<1>10. ASSUME NEW f \in File, NEW count, ReadCall(t, f, count)
       PROVE  /\ UNCHANGED <<store, loaded, opened, visible, structs, nwrites>>
              /\ \E l, c : ReaderGoes(t, l, c)
  <2> DEFINE pos == fpos[f]
  <2>1. /\ f \in opened /\ pc' = [pc EXCEPT ![t] = "read"] /\ "read" \in ReaderLabels
        /\ UNCHANGED <<store, loaded, opened, visible, structs, nwrites>>
    BY <1>10 DEF ReadCall, Enter, ReaderLabels
  <2>2. call' = [call EXCEPT ![t] = [NoCall EXCEPT !.file = f, !.pos = pos, !.count = count]]
    BY <1>10 DEF ReadCall, Enter, WithFpos, NoCall
  <2> HIDE DEF pos
  <2>3. QED
    BY <1>2, <2>1, <2>2
<1>11. ASSUME NEW f \in File, NEW label \in {"seek", "ioctl"}, SeekCall(t, f, label)
       PROVE  /\ UNCHANGED <<store, loaded, opened, visible, structs, nwrites>>
              /\ \E l, c : ReaderGoes(t, l, c)
  <2>1. /\ f \in opened /\ pc' = [pc EXCEPT ![t] = label] /\ label \in ReaderLabels
        /\ UNCHANGED <<store, loaded, opened, visible, structs, nwrites>>
    BY <1>11 DEF SeekCall, Enter, ReaderLabels
  <2> DEFINE c == [NoCall EXCEPT !.file = f]
  <2>2. DOMAIN c = CallFields /\ c.buffer = NULL /\ c.off \in Nat /\ c.file = f
    BY DEF NoCall, CallFields
  <2>3. call' = [call EXCEPT ![t] = c]
    BY <1>11 DEF SeekCall, Enter
  <2> HIDE DEF c
  <2>4. ReaderGoes(t, label, c)
    BY <2>1, <2>2, <2>3 DEF ReaderGoes
  <2>5. QED
    BY <2>1, <2>4
<1>12. QED
  BY <1>5, <1>6, <1>7, <1>8, <1>9, <1>10, <1>11
  DEF ReaderStep, ReadStep, ReadReturn, SetFpos, ReadInterrupted

LEMMA ReadingKeepsInv ==
  ASSUME Inv, NEW t \in Reader, ReaderStep(t)
  PROVE  Inv'
<1>1. UNCHANGED <<store, loaded, opened>>
  BY ReaderMoves
<1>2. PICK label, c : ReaderGoes(t, label, c)
  BY ReaderMoves
<1>3. /\ label \in ReaderLabels /\ pc' = [pc EXCEPT ![t] = label]
      /\ call' = [call EXCEPT ![t] = c] /\ DOMAIN c = CallFields
      /\ c.buffer = NULL /\ c.off \in Nat /\ (label # "idle" => c.file \in opened)
  BY <1>2 DEF ReaderGoes
<1>4. QED
  BY <1>1, <1>3, ReaderKeepsInv

(* ------------------------- the steps of a write ------------------------ *)

\* Writing over the bytes of a buffer keeps its size; a copy that ends with the
\* buffer puts its own last byte there.
LEMMA OverlayKeepsSize ==
  ASSUME NEW s \in Seq(Nat), NEW i \in Nat, NEW d \in Seq(Nat)
  PROVE  /\ Overlay(s, i, d) \in Seq(Nat)
         /\ Len(Overlay(s, i, d)) = Len(s)
         /\ d # << >> /\ i + Len(d) = Len(s) => Overlay(s, i, d)[Len(s)] = d[Len(d)]
<1> DEFINE o == Overlay(s, i, d)
<1>1. DOMAIN s = 1 .. Len(s) /\ Len(s) \in Nat /\ Len(d) \in Nat
  OBVIOUS
<1>2. \A k \in 1 .. Len(s) : o[k] \in Nat
  BY <1>1 DEF Overlay
<1>3. o = [k \in 1 .. Len(s) |-> o[k]]
  BY <1>1 DEF Overlay
<1>4. ASSUME d # << >>, i + Len(d) = Len(s) PROVE o[Len(s)] = d[Len(d)]
  BY <1>1, <1>4, SMTT(30) DEF Overlay
<1> HIDE DEF o
<1>5. o \in Seq(Nat) /\ Len(o) = Len(s)
  BY <1>1, <1>2, <1>3
<1>6. QED
  BY <1>4, <1>5 DEF o

\* aesd_write is called.
LEMMA WriteCallKeepsInv ==
  ASSUME Inv, NEW t \in Writer, NEW f \in File, NEW data \in Inputs,
         WriteCall(t, f, data)
  PROVE  Inv'
<1> USE DEF store, ring, bufferVars
<1> DEFINE c == [WithFpos(f) EXCEPT !.data = data, !.count = Len(data)]
<1>1. /\ pc[t] = "idle" /\ f \in opened
      /\ call' = [call EXCEPT ![t] = c] /\ pc' = [pc EXCEPT ![t] = "alloc"]
      /\ UNCHANGED <<store, loaded, opened>>
  BY DEF WriteCall, Enter, Goto, files
<1>2. /\ DOMAIN c = CallFields /\ c.buffer = NULL /\ c.off = 0 /\ c.file = f
      /\ c.data = data /\ c.count = Len(data)
  BY DEF WithFpos, NoCall, CallFields
<1> HIDE DEF c
<1>3. /\ t \in Task /\ t \notin Reader
      /\ pc'[t] = "alloc" /\ call'[t] = c
      /\ \A u \in Task : u # t => pc'[u] = pc[u] /\ call'[u] = call[u]
      /\ \A u \in Writer : u \in Task
      /\ \A u \in Reader : u \in Task /\ u # t
  BY <1>1, OtherTasks DEF Inv
<1>4. \A u \in Task : call'[u].buffer = call[u].buffer
  BY <1>1, <1>2, <1>3 DEF Inv, Buffers
<1>5. StoreTypes'
  BY <1>1 DEF Inv, StoreTypes, BufferTypeOK, Live
<1>6. TaskTypes'
  <2>1. "alloc" \in WriterLabels /\ c.off \in Nat /\ c.buffer \in Ptr \cup {NULL}
    BY <1>2 DEF WriterLabels
  <2>2. QED
    BY <1>1, <1>2, <2>1, WriterTyped DEF Inv
<1>7. CallsKeepLoaded'
  BY <1>1, <1>2, <1>3 DEF Inv, CallsKeepLoaded, RingInv
<1>8. Buffers'
  BY <1>1, <1>2, <1>3 DEF Inv, Buffers, Live, WithBuffer
<1>9. Unshared'
  BY <1>1, <1>4 DEF Inv, Unshared
<1>10. PointersLive'
  <2>1. PartialDangles' <=> PartialDangles
    BY <1>1, <1>3 DEF PartialDangles
  <2>2. Referenced' = Referenced
    BY <1>1, <1>4 DEF Referenced
  <2>3. QED
    BY <1>1, <2>1, <2>2 DEF Inv, PointersLive, Live
<1>11. PartialStands'
  BY <1>1, <1>3 DEF Inv, PartialStands
<1>12. NothingUnfinished'
  BY <1>1, <1>3 DEF Inv, NothingUnfinished
<1>13. QED
  BY <1>5, <1>6, <1>7, <1>8, <1>9, <1>10, <1>11, <1>12 DEF Inv

\* The working buffer is allocated.
LEMMA AllocKeepsInv ==
  ASSUME Inv, NEW t \in Writer, NEW g \in Uninit, pc[t] = "alloc",
         mem' = MemAfter(NewPtr, [k \in 1 .. partial.size + call[t].count |-> g], {}),
         call' = [call EXCEPT ![t].buffer = NewPtr], pc' = [pc EXCEPT ![t] = "copy_partial"],
         UNCHANGED <<ring, partial, loaded, opened>>
  PROVE  Inv'
<1> USE DEF ring, bufferVars
<1> DEFINE p == NewPtr
           bytes == [k \in 1 .. partial.size + call[t].count |-> g]
           c == [call[t] EXCEPT !.buffer = p]
<1>1. p \in Ptr /\ p \notin Live /\ p \notin Referenced /\ p # NULL
  BY FreshPtr DEF Inv
<1>2. bytes \in Seq(Nat) /\ Len(bytes) = partial.size + call[t].count
  <2>1. partial.size \in Nat /\ call[t].count \in Nat
    <3>1. call[t].count = Len(call[t].data) /\ call[t].data \in Seq(Nat)
      BY DriverAssumption DEF Inv, TaskTypes
    <3>2. partial.size \in Nat
      BY DEF Inv, StoreTypes, BufferEntry
    <3>3. QED
      BY <3>1, <3>2
  <2>2. partial.size + call[t].count \in Nat
    BY <2>1
  <2>3. g \in Nat
    BY DriverAssumption
  <2>4. QED
    BY <2>2, <2>3
<1>3. /\ Live' = Live \cup {p} /\ mem' = [q \in Live' |-> mem'[q]]
      /\ mem'[p] = bytes /\ \A q \in Live : mem'[q] = mem[q]
  <2> HIDE DEF bytes, p
  <2>1. mem' = MemAfter(p, bytes, {})
    BY DEF p, bytes
  <2>2. QED
    BY <1>1, <2>1 DEF MemAfter, Live
<1>4. /\ DOMAIN c = CallFields /\ c.buffer = p /\ c.off = call[t].off
      /\ c.file = call[t].file /\ c.data = call[t].data /\ c.count = call[t].count
      /\ call' = [call EXCEPT ![t] = c]
  BY DEF Inv, TaskTypes, Task, CallFields
<1> HIDE DEF p, bytes, c
<1>5. /\ t \in Task /\ t \notin Reader
      /\ pc'[t] = "copy_partial" /\ call'[t] = c
      /\ \A u \in Task : u # t => pc'[u] = pc[u] /\ call'[u] = call[u]
      /\ \A u \in Writer : u \in Task
      /\ \A u \in Reader : u \in Task /\ u # t
  BY <1>4, OtherTasks DEF Inv
<1>6. /\ \A i \in Slot : entry[i].buffptr # p
      /\ \A u \in Task : call[u].buffer # p
      /\ partial.buffptr # p
  BY <1>1 DEF Referenced
<1>7. StoreTypes'
  BY <1>1, <1>2, <1>3 DEF Inv, StoreTypes, BufferTypeOK
<1>8. TaskTypes'
  <2>1. "copy_partial" \in WriterLabels
    BY DEF WriterLabels
  <2>2. c.off \in Nat /\ c.buffer \in Ptr \cup {NULL}
    BY <1>1, <1>4, <1>5 DEF Inv, TaskTypes
  <2>3. c.data \in Inputs /\ c.count = Len(c.data)
    BY <1>4 DEF Inv, TaskTypes
  <2>4. QED
    BY <1>4, <2>1, <2>2, <2>3, WriterTyped DEF Inv
<1>9. CallsKeepLoaded'
  BY <1>4, <1>5 DEF Inv, CallsKeepLoaded, RingInv
<1>10. Buffers'
  <2>1. call'[t].buffer \in Live' /\ pc'[t] = "copy_partial"
    BY <1>3, <1>4, <1>5
  <2>2. ASSUME NEW u \in Writer
        PROVE  /\ pc'[u] \in WithBuffer => call'[u].buffer \in Live'
               /\ pc'[u] \in {"idle", "restart", "alloc"} => call'[u].buffer = NULL
               /\ pc'[u] = "out" => call'[u].buffer \in Live' \cup {NULL}
    <3>1. CASE u = t
      BY <2>1, <3>1
    <3>2. CASE u # t
      <4>1. pc'[u] = pc[u] /\ call'[u].buffer = call[u].buffer /\ Live \subseteq Live'
        BY <1>3, <1>5, <3>2
      <4>2. QED
        BY <4>1 DEF Inv, Buffers
    <3>3. QED
      BY <3>1, <3>2
  <2>3. ASSUME NEW u \in Reader PROVE call'[u].buffer = NULL
    BY <1>5 DEF Inv, Buffers
  <2>4. QED
    BY <2>2, <2>3 DEF Buffers
<1>11. Unshared'
  <2>1. /\ call'[t].buffer = p
        /\ \A u \in Task : u # t => call'[u].buffer = call[u].buffer
        /\ entry' = entry /\ partial' = partial
    BY <1>4, <1>5
  <2>2. \A u, v \in Task :
          call'[u].buffer = call'[v].buffer /\ call'[u].buffer # NULL => u = v
    BY <2>1, <1>6 DEF Inv, Unshared
  <2>3. \A i \in Slot, u \in Task :
          entry'[i].buffptr = call'[u].buffer => entry'[i].buffptr = NULL
    BY <2>1, <1>6 DEF Inv, Unshared
  <2>4. \A u \in Task : call'[u].buffer = partial'.buffptr => call'[u].buffer = NULL
    BY <2>1, <1>6 DEF Inv, Unshared
  <2>5. QED
    BY <2>1, <2>2, <2>3, <2>4 DEF Inv, Unshared
<1>12. PointersLive'
  <2>1. PartialDangles' <=> PartialDangles
    BY <1>5 DEF PartialDangles
  <2>2. Live' \subseteq Referenced'
    <3>1. call[t].buffer = NULL /\ NULL \notin Live
      BY NullAssumption DEF Inv, Buffers, StoreTypes
    <3>2. p \in Referenced'
      BY <1>4, <1>5 DEF Referenced
    <3>3. Referenced \subseteq Referenced' \cup {NULL}
      BY <1>4, <1>5, <3>1 DEF Referenced
    <3>4. QED
      BY <1>3, <3>1, <3>2, <3>3 DEF Inv, PointersLive
  <2>3. \A i \in Slot : entry'[i].buffptr # NULL =>
          entry'[i].buffptr \in Live' /\ entry'[i].size = Len(mem'[entry'[i].buffptr])
    BY <1>3 DEF Inv, PointersLive
  <2>4. partial'.buffptr \in Live' <=> partial.buffptr \in Live
    BY <1>3, <1>6
  <2>5. partial'.buffptr \in Live' => partial'.size = Len(mem'[partial'.buffptr])
    BY <1>3, <2>4 DEF Inv, PointersLive
  <2>6. QED
    BY <2>1, <2>2, <2>3, <2>4, <2>5 DEF Inv, PointersLive
<1>13. \A u \in Writer : u # t /\ pc[u] \in WithBuffer =>
         /\ pc'[u] = pc[u] /\ call'[u] = call[u]
         /\ mem'[call'[u].buffer] = mem[call[u].buffer]
  BY <1>3, <1>5, ZenonT(30) DEF Inv, Buffers
<1>14. PartialStands'
  <2>1. Len(mem'[call'[t].buffer]) = partial'.size + call'[t].count
    BY <1>2, <1>3, <1>4, <1>5
  <2>2. QED
    BY <2>1, <1>5, <1>13 DEF Inv, PartialStands, WithBuffer
<1>15. NothingUnfinished'
  BY <1>5, <1>13, ZenonT(30) DEF Inv, NothingUnfinished, WithBuffer
<1>16. QED
  BY <1>7, <1>8, <1>9, <1>10, <1>11, <1>12, <1>14, <1>15 DEF Inv

\* The working buffer is filled.
LEMMA FillKeepsInv ==
  ASSUME Inv, NEW t \in Writer, NEW bytes \in Seq(Nat), NEW label,
         mem' = [mem EXCEPT ![call[t].buffer] = bytes],
         Len(bytes) = Len(mem[call[t].buffer]),
         pc' = [pc EXCEPT ![t] = label],
         \/ pc[t] = "copy_partial" /\ label = "copy_user"
         \/ pc[t] = "copy_user" /\ label = "free_partial",
         InputsAreLines => label = "copy_user" \/ EndsLine(bytes),
         UNCHANGED <<ring, partial, loaded, opened, call>>
  PROVE  Inv'
<1> USE DEF ring, bufferVars
<1>1. /\ t \in Task /\ t \notin Reader /\ pc'[t] = label
      /\ \A u \in Task : u # t => pc'[u] = pc[u]
      /\ \A u \in Writer : u \in Task
      /\ \A u \in Reader : u \in Task /\ u # t
  BY DriverAssumption DEF Inv, TaskTypes, Task
<1>2. call[t].buffer \in Live /\ call[t].buffer # NULL
  BY NullAssumption DEF Inv, Buffers, WithBuffer, StoreTypes
<1>3. /\ Live' = Live /\ mem' = [q \in Live' |-> mem'[q]]
      /\ mem'[call[t].buffer] = bytes
      /\ \A q \in Live : q # call[t].buffer => mem'[q] = mem[q]
  BY <1>2 DEF Inv, StoreTypes, Live
<1>4. \A q \in Live : Len(mem'[q]) = Len(mem[q])
  BY <1>2, <1>3
<1>5. \A u \in Writer : u # t /\ pc[u] \in WithBuffer =>
         mem'[call[u].buffer] = mem[call[u].buffer]
  BY <1>1, <1>2, <1>3 DEF Inv, Buffers, Unshared
<1>6. StoreTypes'
  BY <1>3 DEF Inv, StoreTypes, BufferTypeOK
<1>7. TaskTypes'
  BY <1>1 DEF Inv, TaskTypes, WriterLabels
<1>8. CallsKeepLoaded'
  BY <1>1 DEF Inv, CallsKeepLoaded, RingInv
<1>9. Buffers'
  BY <1>1, <1>3 DEF Inv, Buffers, WithBuffer
<1>10. Unshared'
  BY DEF Inv, Unshared
<1>11. PointersLive'
  <2>1. PartialDangles' <=> PartialDangles
    BY <1>1 DEF PartialDangles
  <2>2. Referenced' = Referenced
    BY DEF Referenced
  <2>3. QED
    BY <1>3, <1>4, <2>1, <2>2 DEF Inv, PointersLive
<1>12. PartialStands'
  BY <1>1, <1>3, <1>5 DEF Inv, PartialStands, WithBuffer
<1>13. NothingUnfinished'
  BY <1>1, <1>3, <1>5 DEF Inv, NothingUnfinished, WithBuffer
<1>14. QED
  BY <1>6, <1>7, <1>8, <1>9, <1>10, <1>11, <1>12, <1>13 DEF Inv

\* The unfinished line, then the caller's bytes, are copied to the buffer.
LEMMA CopyKeepsInv ==
  ASSUME Inv, NEW t \in Writer, ~UsesFreed(t),
         \/ CopyPartial(t)
         \/ /\ pc[t] = "copy_user"
            /\ mem' = [mem EXCEPT ![call[t].buffer] = Overlay(@, partial.size, call[t].data)]
            /\ pc' = [pc EXCEPT ![t] = "free_partial"]
            /\ UNCHANGED <<ring, partial, loaded, opened, call>>
  PROVE  Inv'
<1> DEFINE b == mem[call[t].buffer]
<1>1. call[t].buffer \in Live /\ b \in Seq(Nat)
  BY DEF CopyPartial, Inv, Buffers, WithBuffer, StoreTypes
<1>2. partial.size \in Nat
  BY DEF Inv, StoreTypes, BufferEntry
<1>3. CASE CopyPartial(t)
  <2> DEFINE bytes == WithPartial(b)
  <2>1. Bytes(partial) \in Seq(Nat)
    <3>1. CASE partial.buffptr \in Live
      BY <1>2, <3>1 DEF Bytes, Inv, StoreTypes, PointersLive
    <3>2. CASE partial.buffptr \notin Live
      BY <3>2 DEF Bytes
    <3>3. QED
      BY <3>1, <3>2
  <2>2. bytes \in Seq(Nat) /\ Len(bytes) = Len(b)
    BY <1>1, <2>1, OverlayKeepsSize DEF WithPartial
  <2>3. /\ mem' = [mem EXCEPT ![call[t].buffer] = bytes]
        /\ pc[t] = "copy_partial" /\ pc' = [pc EXCEPT ![t] = "copy_user"]
        /\ UNCHANGED <<ring, partial, loaded, opened, call>>
    BY <1>1, <1>3 DEF CopyPartial, Goto, files, Live
  <2> HIDE DEF bytes
  <2>4. QED
    BY <2>2, <2>3, FillKeepsInv
<1>4. CASE ~CopyPartial(t)
  <2> DEFINE d == call[t].data
             bytes == Overlay(b, partial.size, d)
  <2>1. pc[t] = "copy_user" /\ pc' = [pc EXCEPT ![t] = "free_partial"]
    BY <1>4
  <2>2. /\ d \in Inputs /\ d \in Seq(Nat) /\ Len(b) = partial.size + Len(d)
    BY <2>1, DriverAssumption DEF Inv, TaskTypes, PartialStands
  <2>3. bytes \in Seq(Nat) /\ Len(bytes) = Len(b)
    BY <1>1, <1>2, <2>2, OverlayKeepsSize
  <2>4. InputsAreLines => EndsLine(bytes)
    <3>1. SUFFICES ASSUME InputsAreLines PROVE EndsLine(bytes)
      OBVIOUS
    <3>2. d # << >> /\ d[Len(d)] = NL
      BY <2>2, <3>1 DEF InputsAreLines, EndsLine
    <3>3. bytes[Len(b)] = NL
      BY <1>1, <1>2, <2>2, <3>2, OverlayKeepsSize
    <3>4. Len(b) # 0
      BY <1>2, <2>2, <3>2
    <3> HIDE DEF bytes, b
    <3>5. QED
      BY <2>3, <3>3, <3>4 DEF EndsLine
  <2>5. /\ mem' = [mem EXCEPT ![call[t].buffer] = bytes]
        /\ UNCHANGED <<ring, partial, loaded, opened, call>>
    BY <1>1, <1>4 DEF Live
  <2> HIDE DEF bytes
  <2>6. QED
    BY <2>1, <2>3, <2>4, <2>5, FillKeepsInv
<1>5. QED
  BY <1>3, <1>4

\* The old unfinished line is freed.
LEMMA FreePartialKeepsInv ==
  ASSUME Inv, NEW t \in Writer, ~UsesFreed(t), FreePartial(t)
  PROVE  Inv'
<1> USE DEF ring, bufferVars
<1> DEFINE label == IF partial.buffptr = NULL THEN "lock" ELSE "clear_partial"
<1>1. /\ pc[t] = "free_partial" /\ pc' = [pc EXCEPT ![t] = label]
      /\ UNCHANGED <<ring, partial, loaded, opened, call>>
      /\ mem' = MemWithout({partial.buffptr})
  BY DEF FreePartial, Goto, files
<1>2. /\ t \in Task /\ t \notin Reader /\ pc'[t] = label
      /\ \A u \in Task : u # t => pc'[u] = pc[u]
      /\ \A u \in Writer : u \in Task
      /\ \A u \in Reader : u \in Task /\ u # t
  BY <1>1, DriverAssumption DEF Inv, TaskTypes, Task
<1>3. partial.buffptr \in Live \cup {NULL} /\ NULL \notin Live
  BY <1>1, NullAssumption DEF UsesFreed, Inv, StoreTypes
<1>4. /\ Live' = Live \ {partial.buffptr} /\ mem' = [q \in Live' |-> mem'[q]]
      /\ \A q \in Live' : mem'[q] = mem[q]
  BY <1>1 DEF MemWithout, Live
<1>5. \A u \in Task : call[u].buffer \in Live => call[u].buffer \in Live'
  BY <1>3, <1>4 DEF Inv, Unshared
<1>6. \A u \in Writer : pc[u] \in WithBuffer =>
         call[u].buffer \in Live' /\ mem'[call[u].buffer] = mem[call[u].buffer]
  BY <1>2, <1>4, <1>5 DEF Inv, Buffers
<1>7. label \in {"lock", "clear_partial"} /\ label \in WriterLabels
  BY DEF WriterLabels
<1>8. partial.buffptr = NULL => partial = EmptyEntry
  BY DEF Inv, StoreTypes, BufferEntry, EmptyEntry
<1>9. StoreTypes'
  BY <1>1, <1>4 DEF Inv, StoreTypes, BufferTypeOK
<1>10. TaskTypes'
  BY <1>1, <1>2, <1>7 DEF Inv, TaskTypes
<1>11. CallsKeepLoaded'
  BY <1>1, <1>2 DEF Inv, CallsKeepLoaded, RingInv
<1>12. Buffers'
  BY <1>1, <1>2, <1>5, <1>7 DEF Inv, Buffers, WithBuffer
<1>13. Unshared'
  BY <1>1 DEF Inv, Unshared
<1>14. PointersLive'
  <2>1. CASE partial.buffptr = NULL
    <3>1. PartialDangles' <=> PartialDangles
      BY <1>1, <1>2, <2>1 DEF PartialDangles
    <3>2. Referenced' = Referenced /\ Live' = Live
      BY <1>1, <1>3, <1>4, <2>1 DEF Referenced
    <3>3. QED
      BY <1>1, <1>4, <2>1, <3>1, <3>2 DEF Inv, PointersLive
  <2>2. CASE partial.buffptr # NULL
    <3>1. PartialDangles'
      BY <1>2, <2>2 DEF PartialDangles
    <3>2. Referenced' = Referenced
      BY <1>1 DEF Referenced
    <3>3. \A i \in Slot : entry[i].buffptr # NULL => entry[i].buffptr \in Live'
      BY <1>4 DEF Inv, PointersLive, Unshared
    <3>4. QED
      BY <1>1, <1>4, <3>1, <3>2, <3>3 DEF Inv, PointersLive
  <2>3. QED
    BY <2>1, <2>2
<1>15. PartialStands'
  <2>1. pc'[t] \in {"lock", "store"} => partial' = EmptyEntry
    BY <1>1, <1>2, <1>8
  <2>2. pc'[t] \notin {"copy_partial", "copy_user"}
    BY <1>2
  <2>3. \A u \in Writer : u # t =>
          /\ pc'[u] \in {"copy_partial", "copy_user"} =>
               Len(mem'[call'[u].buffer]) = partial'.size + call'[u].count
          /\ pc'[u] \in {"lock", "store"} => partial' = EmptyEntry
    BY <1>1, <1>2, <1>6 DEF Inv, PartialStands, WithBuffer
  <2>4. QED
    BY <2>1, <2>2, <2>3 DEF PartialStands
<1>16. NothingUnfinished'
  BY <1>1, <1>2, <1>6, <1>7, SMTT(30) DEF Inv, NothingUnfinished, WithBuffer
<1>17. QED
  BY <1>9, <1>10, <1>11, <1>12, <1>13, <1>14, <1>15, <1>16 DEF Inv

\* The unfinished line is forgotten.  With one writer nobody else looks at it; with
\* writers of whole lines there is none.
LEMMA ClearPartialKeepsInv ==
  ASSUME OneWriter \/ InputsAreLines, Inv, NEW t \in Writer, ClearPartial(t)
  PROVE  Inv'
<1> USE DEF ring, bufferVars
<1>1. /\ pc[t] = "clear_partial" /\ pc' = [pc EXCEPT ![t] = "lock"]
      /\ UNCHANGED <<ring, mem, loaded, opened, call>>
      /\ partial' = EmptyEntry
  BY DEF ClearPartial, Forgotten, Goto, files
<1>2. /\ t \in Task /\ t \notin Reader /\ pc'[t] = "lock"
      /\ \A u \in Task : u # t => pc'[u] = pc[u]
      /\ \A u \in Writer : u \in Task
      /\ \A u \in Reader : u \in Task /\ u # t
  BY <1>1, DriverAssumption DEF Inv, TaskTypes, Task
<1>3. /\ EmptyEntry \in BufferEntry /\ EmptyEntry.buffptr = NULL /\ EmptyEntry.size = 0
      /\ NULL \notin Live /\ Live' = Live
  BY <1>1, NullAssumption DEF EmptyEntry, BufferEntry, Inv, StoreTypes, Live
<1>4. partial.buffptr \notin Live
  BY <1>1, <1>3 DEF Inv, PointersLive, PartialDangles
<1>5. StoreTypes'
  BY <1>1, <1>3 DEF Inv, StoreTypes, BufferTypeOK
<1>6. TaskTypes'
  BY <1>1, <1>2 DEF Inv, TaskTypes, WriterLabels
<1>7. CallsKeepLoaded'
  BY <1>1, <1>2, <1>3 DEF Inv, CallsKeepLoaded, RingInv
<1>8. Buffers'
  BY <1>1, <1>2, <1>3 DEF Inv, Buffers, WithBuffer
<1>9. Unshared'
  BY <1>1, <1>3 DEF Inv, Unshared
<1>10. PointersLive'
  <2>1. Referenced \subseteq Referenced' \cup {partial.buffptr}
    BY <1>1 DEF Referenced
  <2>2. QED
    BY <1>1, <1>3, <1>4, <2>1 DEF Inv, PointersLive
<1>11. PartialStands'
  <2>1. CASE OneWriter
    BY <1>1, <1>2, <2>1 DEF PartialStands, OneWriter
  <2>2. CASE InputsAreLines
    <3>1. partial' = partial
      BY <1>1, <2>2 DEF Inv, NothingUnfinished
    <3>2. QED
      BY <1>1, <1>2, <3>1 DEF Inv, PartialStands
  <2>3. QED
    BY <2>1, <2>2
<1>12. NothingUnfinished'
  BY <1>1, <1>2 DEF Inv, NothingUnfinished
<1>13. QED
  BY <1>5, <1>6, <1>7, <1>8, <1>9, <1>10, <1>11, <1>12 DEF Inv

\* What is left of the buffer, and its first line.
LEMMA WorkingInBuffer ==
  ASSUME Inv, NEW t \in Writer, pc[t] = "store"
  PROVE  /\ Working(t) \in Seq(Nat) /\ LineLength(t) \in 0 .. Len(Working(t))
         /\ SubSeq(Working(t), 1, LineLength(t)) \in Seq(Nat)
         /\ Len(SubSeq(Working(t), 1, LineLength(t))) = LineLength(t)
         /\ InputsAreLines /\ LineLength(t) = 0 => Working(t) = << >>
<1> DEFINE b == mem[call[t].buffer]
           off == call[t].off
           w == SubSeq(b, off + 1, Len(b))
<1>1. b \in Seq(Nat) /\ off \in Nat /\ Len(b) \in Nat
  <2>1. call[t].buffer \in Live /\ t \in Task
    BY DEF Inv, Buffers, WithBuffer, Task
  <2>2. b \in Seq(Nat)
    BY <2>1 DEF Inv, StoreTypes
  <2>3. off \in Nat
    BY <2>1 DEF Inv, TaskTypes
  <2> HIDE DEF b, off
  <2>4. QED
    BY <2>2, <2>3
<1>2. w \in Seq(Nat) /\ Working(t) = w
  <2> HIDE DEF b, off
  <2>1. SubSeq(b, off + 1, Len(b)) \in Seq(Nat)
    <3>1. \A i \in off + 1 .. Len(b) : b[i] \in Nat
      BY <1>1
    <3>2. QED
      BY <1>1, <3>1
  <2>2. QED
    BY <2>1 DEF Working, b, off
<1>3. InputsAreLines /\ w # << >> => w[Len(w)] = NL
  <2>1. InputsAreLines => b # << >> /\ b[Len(b)] = NL
    BY DEF Inv, NothingUnfinished, EndsLine
  <2> HIDE DEF b, off
  <2>2. CASE off + 1 <= Len(b)
    <3>1. Len(w) = Len(b) - off /\ Len(w) \in 1 .. Len(b)
      BY <1>1, <2>2
    <3>2. w[Len(w)] = b[off + Len(w)]
      BY <1>1, <2>2, <3>1
    <3>3. off + Len(w) = Len(b)
      BY <1>1, <3>1
    <3>4. QED
      BY <2>1, <3>2, <3>3
  <2>3. CASE ~(off + 1 <= Len(b))
    BY <1>1, <2>3
  <2>4. QED
    BY <2>2, <2>3
<1> HIDE DEF w
<1> DEFINE n == SelectInSeq(w, LAMBDA x : x = NL)
<1>4. n \in 0 .. Len(w) /\ (n = 0 => \A i \in 1 .. Len(w) : w[i] # NL)
  BY <1>2, LineLengthFinds
<1>5. LineLength(t) = n
  BY <1>2 DEF LineLength
<1> HIDE DEF n
<1>6. SubSeq(w, 1, n) \in Seq(Nat) /\ Len(SubSeq(w, 1, n)) = n
  BY <1>2, <1>4
<1>7. InputsAreLines /\ n = 0 => w = << >>
  <2>1. w # << >> => Len(w) \in 1 .. Len(w)
    BY <1>2
  <2>2. QED
    BY <1>3, <1>4, <2>1
<1>8. QED
  BY <1>2, <1>4, <1>5, <1>6, <1>7

\* A line is stored: its copy replaces what the ring hands back, which is freed.
LEMMA StoreLineKeepsInv ==
  ASSUME Inv, NEW t \in Writer, pc[t] = "store", LineLength(t) > 0,
         mem' = MemAfter(NewPtr, SubSeq(Working(t), 1, LineLength(t)), {Garbage}),
         AddEntry([buffptr |-> NewPtr, size |-> LineLength(t)]),
         call' = [call EXCEPT ![t].off = @ + LineLength(t)],
         UNCHANGED <<partial, loaded, opened, pc>>
  PROVE  Inv'
<1> DEFINE p == NewPtr
           n == LineLength(t)
           bytes == SubSeq(Working(t), 1, LineLength(t))
           e == [buffptr |-> p, size |-> n]
           old == entry[in_offs].buffptr
           c == [call[t] EXCEPT !.off = @ + n]
<1>1. p \in Ptr /\ p \notin Live /\ p \notin Referenced /\ p # NULL
  BY FreshPtr DEF Inv
<1>2. bytes \in Seq(Nat) /\ Len(bytes) = n /\ n \in Nat
  BY WorkingInBuffer
<1>3. /\ BufferTypeOK /\ RingInv /\ in_offs \in Slot /\ t \in Task
      /\ call[t].buffer \in Live /\ call[t].buffer # NULL
  BY NullAssumption DEF Inv, StoreTypes, CallsKeepLoaded, BufferTypeOK, Buffers, WithBuffer, Task
<1>4. e \in BufferEntry /\ e.buffptr = p /\ e.size = n
  BY <1>1, <1>2 DEF BufferEntry
<1>5. /\ DOMAIN c = CallFields /\ c.off \in Nat
      /\ \A x \in CallFields : x # "off" => c[x] = call[t][x]
      /\ call' = [call EXCEPT ![t] = c]
  <2>1. /\ DOMAIN call[t] = CallFields /\ call[t].off \in Nat
        /\ call = [u \in Task |-> call[u]]
    BY <1>3 DEF Inv, TaskTypes
  <2>2. n \in Nat /\ call' = [call EXCEPT ![t].off = @ + n]
    BY <1>2
  <2> HIDE DEF n
  <2>3. DOMAIN c = CallFields /\ c.off = call[t].off + n
    BY <2>1 DEF CallFields
  <2>4. \A x \in CallFields : x # "off" => c[x] = call[t][x]
    BY <2>1 DEF CallFields
  <2>5. call' = [call EXCEPT ![t] = c]
    BY <1>3, <2>1, <2>2
  <2> HIDE DEF c
  <2>6. c.off \in Nat
    BY <2>1, <2>2, <2>3
  <2>7. QED
    BY <2>3, <2>4, <2>5, <2>6, Zenon
<1>6. /\ mem' = MemAfter(p, bytes, {Garbage}) /\ AddEntry(e)
  OBVIOUS
<1> HIDE DEF p, n, bytes, e, c
<1>7. /\ c.buffer = call[t].buffer /\ c.file = call[t].file /\ c.data = call[t].data
      /\ c.count = call[t].count
  BY <1>5 DEF CallFields
<1>8. /\ BufferTypeOK' /\ RingInv' /\ entry' = [entry EXCEPT ![in_offs] = e] /\ Garbage = old
  BY <1>3, <1>4, <1>6, AddEntryKeepsRing
<1>9. /\ entry'[in_offs] = e
      /\ \A i \in Slot : i # in_offs => entry'[i] = entry[i]
  BY <1>3, <1>8 DEF BufferTypeOK
<1>10. /\ call'[t] = c
       /\ \A u \in Task : u # t => call'[u] = call[u]
       /\ \A u \in Task : call'[u].buffer = call[u].buffer /\ call'[u].file = call[u].file
                            /\ call'[u].count = call[u].count
       /\ \A u \in Writer : u \in Task
       /\ \A u \in Reader : u \in Task
  BY <1>3, <1>5, <1>7 DEF Inv, TaskTypes, Task
<1>11. /\ \A i \in Slot : entry[i].buffptr # p
       /\ \A u \in Task : call[u].buffer # p
       /\ partial.buffptr # p /\ old # p
  BY <1>1, <1>3 DEF Referenced
<1>12. /\ Live' = (Live \cup {p}) \ {old} /\ mem' = [q \in Live' |-> mem'[q]]
       /\ p \in Live' /\ mem'[p] = bytes /\ \A q \in Live : q # old => mem'[q] = mem[q]
  <2> HIDE DEF old
  <2>1. mem' = [q \in (Live \cup {p}) \ {old} |-> IF q = p THEN bytes ELSE mem[q]]
    BY <1>6, <1>8 DEF MemAfter
  <2>2. QED
    BY <1>1, <1>11, <2>1 DEF Live
<1>13. NULL \notin Live
  BY NullAssumption DEF Inv, StoreTypes
<1>14. \A u \in Task : call[u].buffer \in Live =>
         call[u].buffer \in Live' /\ mem'[call[u].buffer] = mem[call[u].buffer]
  BY <1>3, <1>12, <1>13 DEF Inv, Unshared
<1>15. StoreTypes'
  BY <1>1, <1>2, <1>8, <1>12 DEF Inv, StoreTypes
<1>16. TaskTypes'
  <2>1. \A u \in Task : /\ DOMAIN call'[u] = CallFields
                        /\ call'[u].buffer \in Ptr \cup {NULL}
                        /\ call'[u].off \in Nat
    BY <1>5, <1>10 DEF Inv, TaskTypes
  <2>2. \A u \in Task : call'[u].data = call[u].data /\ call'[u].count = call[u].count
    BY <1>7, <1>10
  <2>3. call' = [u \in Task |-> call'[u]]
    BY <1>5 DEF Inv, TaskTypes
  <2>4. QED
    BY <1>10, <2>1, <2>2, <2>3, ZenonT(30) DEF Inv, TaskTypes
<1>17. CallsKeepLoaded'
  <2>1. loaded
    BY <1>3 DEF Inv, CallsKeepLoaded
  <2>2. QED
    BY <1>8, <1>10, <2>1 DEF Inv, CallsKeepLoaded
<1>18. Buffers'
  BY <1>10, <1>14 DEF Inv, Buffers
<1>19. Unshared'
  <2>1. \A i, j \in Slot :
          entry'[i].buffptr = entry'[j].buffptr /\ entry'[i].buffptr # NULL => i = j
    BY <1>4, <1>9, <1>11 DEF Inv, Unshared
  <2>2. \A i \in Slot, u \in Task :
          entry'[i].buffptr = call'[u].buffer => entry'[i].buffptr = NULL
    BY <1>4, <1>9, <1>10, <1>11 DEF Inv, Unshared
  <2>3. \A i \in Slot : entry'[i].buffptr = partial'.buffptr => entry'[i].buffptr = NULL
    BY <1>4, <1>9, <1>11 DEF Inv, Unshared
  <2>4. QED
    BY <1>10, <2>1, <2>2, <2>3 DEF Inv, Unshared
<1>20. PointersLive'
  <2>1. \A i \in Slot : entry'[i].buffptr # NULL =>
          entry'[i].buffptr \in Live' /\ entry'[i].size = Len(mem'[entry'[i].buffptr])
    <3>1. SUFFICES ASSUME NEW i \in Slot, entry'[i].buffptr # NULL
                   PROVE  /\ entry'[i].buffptr \in Live'
                          /\ entry'[i].size = Len(mem'[entry'[i].buffptr])
      OBVIOUS
    <3>2. CASE i = in_offs
      BY <1>2, <1>4, <1>9, <1>12, <3>2
    <3>3. CASE i # in_offs
      <4>1. entry'[i] = entry[i] /\ entry[i].buffptr # old
        BY <1>3, <1>9, <3>1, <3>3 DEF Inv, Unshared
      <4>2. QED
        BY <1>12, <3>1, <4>1, ZenonT(30) DEF Inv, PointersLive
    <3>4. QED
      BY <3>2, <3>3
  <2>2. PartialDangles' <=> PartialDangles
    BY DEF PartialDangles
  <2>3. partial' = partial /\ partial.buffptr = NULL
    BY DEF Inv, PartialStands, EmptyEntry
  <2>4. Live' \subseteq Referenced'
    <3>1. p \in Referenced'
      BY <1>3, <1>4, <1>9 DEF Referenced
    <3>2. Referenced \subseteq Referenced' \cup {old}
      BY <1>9, <1>10 DEF Referenced
    <3>3. QED
      BY <1>12, <3>1, <3>2 DEF Inv, PointersLive
  <2>5. NULL \notin Live'
    BY <1>1, <1>12, <1>13
  <2>6. QED
    BY <2>1, <2>2, <2>3, <2>4, <2>5 DEF PointersLive
<1>21. \A u \in Writer : pc[u] \in WithBuffer =>
         mem'[call'[u].buffer] = mem[call[u].buffer]
  BY <1>10, <1>14 DEF Inv, Buffers
<1>22. PartialStands'
  BY <1>10, <1>21 DEF Inv, PartialStands, WithBuffer
<1>23. NothingUnfinished'
  BY <1>10, <1>21 DEF Inv, NothingUnfinished, WithBuffer
<1>24. QED
  BY <1>15, <1>16, <1>17, <1>18, <1>19, <1>20, <1>22, <1>23 DEF Inv

\* What is left becomes the unfinished line.  Only one writer can be here: writers
\* of whole lines have nothing left.
LEMMA KeepTailKeepsInv ==
  ASSUME OneWriter \/ InputsAreLines, Inv, NEW t \in Writer, NEW c,
         pc[t] = "store", LineLength(t) = 0, HasTail(t),
         partial' = [buffptr |-> NewPtr, size |-> Len(Working(t))],
         mem' = MemAfter(NewPtr, Working(t), {}),
         call' = [call EXCEPT ![t] = c], DOMAIN c = CallFields,
         c.buffer = call[t].buffer, c.off = call[t].off, c.file = call[t].file,
         c.data = call[t].data, c.count = call[t].count,
         pc' = [pc EXCEPT ![t] = "unlock"], UNCHANGED <<ring, loaded, opened>>
  PROVE  Inv'
<1> USE DEF ring, bufferVars
<1> DEFINE p == NewPtr
           bytes == Working(t)
<1>1. p \in Ptr /\ p \notin Live /\ p \notin Referenced /\ p # NULL
  BY FreshPtr DEF Inv
<1>2. bytes \in Seq(Nat) /\ Len(bytes) \in Nat /\ ~InputsAreLines
  BY WorkingInBuffer DEF HasTail
<1>3. mem' = MemAfter(p, bytes, {}) /\ partial' = [buffptr |-> p, size |-> Len(bytes)]
  OBVIOUS
<1> HIDE DEF p, bytes
<1>4. /\ t \in Task /\ t \notin Reader
      /\ pc'[t] = "unlock" /\ call'[t] = c
      /\ \A u \in Task : u # t => pc'[u] = pc[u] /\ call'[u] = call[u]
      /\ \A u \in Writer : u \in Task
      /\ \A u \in Reader : u \in Task /\ u # t
  BY OtherTasks DEF Inv
<1>5. /\ Live' = Live \cup {p} /\ mem' = [q \in Live' |-> mem'[q]]
      /\ mem'[p] = bytes /\ \A q \in Live : mem'[q] = mem[q]
  BY <1>1, <1>3 DEF MemAfter, Live
<1>6. /\ \A i \in Slot : entry[i].buffptr # p
      /\ \A u \in Task : call[u].buffer # p
  BY <1>1 DEF Referenced
<1>7. \A u \in Writer : u = t
  BY <1>2 DEF OneWriter
<1>8. \A u \in Task : call'[u].buffer = call[u].buffer
  BY <1>4
<1>9. partial'.buffptr = p /\ partial'.size = Len(bytes) /\ partial' \in BufferEntry
  BY <1>1, <1>2, <1>3 DEF BufferEntry
<1>10. partial.buffptr = NULL /\ NULL \notin Live
  BY NullAssumption DEF Inv, PartialStands, EmptyEntry, StoreTypes
<1>11. StoreTypes'
  BY <1>1, <1>2, <1>5, <1>9 DEF Inv, StoreTypes, BufferTypeOK
<1>12. TaskTypes'
  <2>1. /\ "unlock" \in WriterLabels /\ c.off \in Nat /\ c.buffer \in Ptr \cup {NULL}
        /\ c.data \in Inputs /\ c.count = Len(c.data)
    BY <1>4 DEF Inv, TaskTypes, WriterLabels
  <2>2. QED
    BY <2>1, WriterTyped DEF Inv
<1>13. CallsKeepLoaded'
  <2>1. loaded
    BY <1>4 DEF Inv, CallsKeepLoaded
  <2>2. QED
    BY <1>4, <2>1 DEF Inv, CallsKeepLoaded, RingInv
<1>14. Buffers'
  BY <1>4, <1>5, <1>8 DEF Inv, Buffers, WithBuffer
<1>15. Unshared'
  BY <1>6, <1>8, <1>9 DEF Inv, Unshared
<1>16. PointersLive'
  <2>1. ~PartialDangles'
    BY <1>4, <1>7 DEF PartialDangles
  <2>2. Live' \subseteq Referenced'
    <3>1. p \in Referenced'
      BY <1>9 DEF Referenced
    <3>2. Referenced \subseteq Referenced' \cup {NULL}
      BY <1>8, <1>10 DEF Referenced
    <3>3. QED
      BY <1>5, <1>10, <3>1, <3>2 DEF Inv, PointersLive
  <2>3. \A i \in Slot : entry'[i].buffptr # NULL =>
          entry'[i].buffptr \in Live' /\ entry'[i].size = Len(mem'[entry'[i].buffptr])
    BY <1>5 DEF Inv, PointersLive
  <2>4. partial'.buffptr \in Live' /\ partial'.size = Len(mem'[partial'.buffptr])
    BY <1>5, <1>9
  <2>5. QED
    BY <2>1, <2>2, <2>3, <2>4 DEF PointersLive
<1>17. PartialStands'
  BY <1>4, <1>7 DEF PartialStands
<1>18. NothingUnfinished'
  BY <1>2 DEF NothingUnfinished
<1>19. QED
  BY <1>11, <1>12, <1>13, <1>14, <1>15, <1>16, <1>17, <1>18 DEF Inv

\* A write ends, or is left to be repeated with the same data.
WriteEnds(t, label, c) ==
  /\ label \in {"idle", "restart"} /\ pc' = [pc EXCEPT ![t] = label]
  /\ call' = [call EXCEPT ![t] = c] /\ DOMAIN c = CallFields
  /\ c.buffer = NULL /\ c.off = 0 /\ c.pos = 0 /\ c.count \in {0, call[t].count}
  /\ label # "idle" => /\ c.file = call[t].file /\ c.data = call[t].data
                       /\ c.count = call[t].count
LEMMA WriteOutEnds ==
  ASSUME NEW t \in Writer, WriteOut(t)
  PROVE  \E label, c : WriteEnds(t, label, c)
<1>1. CASE call' = [call EXCEPT ![t] = NoCall] /\ Goto(t, "idle")
  <2>1. /\ DOMAIN NoCall = CallFields /\ NoCall.buffer = NULL /\ NoCall.off = 0
        /\ NoCall.pos = 0 /\ NoCall.count = 0
    BY DEF NoCall, CallFields
  <2> HIDE DEF NoCall
  <2>2. WriteEnds(t, "idle", NoCall)
    BY <1>1, <2>1 DEF WriteEnds, Goto
  <2>3. QED
    BY <2>2
<1>2. CASE /\ call' = [call EXCEPT ![t] = [NoCall EXCEPT !.file = call[t].file,
                                                        !.data = call[t].data,
                                                        !.count = call[t].count]]
           /\ Goto(t, "restart")
  <2> DEFINE c == [NoCall EXCEPT !.file = call[t].file, !.data = call[t].data,
                                 !.count = call[t].count]
  <2>1. /\ DOMAIN c = CallFields /\ c.buffer = NULL /\ c.off = 0 /\ c.pos = 0
        /\ c.file = call[t].file /\ c.data = call[t].data /\ c.count = call[t].count
    BY DEF NoCall, CallFields
  <2>2. call' = [call EXCEPT ![t] = c]
    BY <1>2
  <2> HIDE DEF c
  <2>3. WriteEnds(t, "restart", c)
    BY <1>2, <2>1, <2>2 DEF WriteEnds, Goto
  <2>4. QED
    BY <2>3
<1>3. QED
  BY <1>1, <1>2 DEF WriteOut

\* The working buffer is freed and the call returns.
LEMMA WriteOutKeepsInv ==
  ASSUME Inv, NEW t \in Writer, WriteOut(t)
  PROVE  Inv'
<1> USE DEF ring, bufferVars
<1> DEFINE b == call[t].buffer
<1>0. PICK label, c : WriteEnds(t, label, c)
  BY WriteOutEnds
<1>1. /\ pc[t] = "out" /\ pc' = [pc EXCEPT ![t] = label]
      /\ call' = [call EXCEPT ![t] = c]
      /\ mem' = MemWithout({b})
      /\ UNCHANGED <<ring, partial, loaded, opened>>
  BY <1>0 DEF WriteOut, WriteEnds, FreedAtOut
<1>2. /\ label \in {"idle", "restart"}
      /\ DOMAIN c = CallFields /\ c.buffer = NULL /\ c.off = 0
      /\ label # "idle" => /\ c.file = call[t].file /\ c.data = call[t].data
                           /\ c.count = call[t].count
  BY <1>0 DEF WriteEnds
<1>3. /\ t \in Task /\ t \notin Reader
      /\ pc'[t] = label /\ call'[t] = c
      /\ \A u \in Task : u # t => pc'[u] = pc[u] /\ call'[u] = call[u]
      /\ \A u \in Writer : u \in Task
      /\ \A u \in Reader : u \in Task /\ u # t
  BY <1>1, OtherTasks DEF Inv
<1>4. /\ Live' = Live \ {b} /\ mem' = [q \in Live' |-> mem'[q]]
      /\ \A q \in Live' : mem'[q] = mem[q]
  BY <1>1 DEF MemWithout, Live
<1>5. b \in Live \cup {NULL} /\ NULL \notin Live
  BY <1>1, NullAssumption DEF Inv, Buffers, StoreTypes
<1>6. \A u \in Task : u # t /\ call[u].buffer \in Live =>
        /\ call'[u].buffer \in Live' /\ call'[u].buffer = call[u].buffer
        /\ mem'[call'[u].buffer] = mem[call[u].buffer]
  BY <1>3, <1>4, <1>5 DEF Inv, Unshared
<1>7. StoreTypes'
  BY <1>1, <1>4 DEF Inv, StoreTypes, BufferTypeOK
<1>8. TaskTypes'
  <2>1. label \in WriterLabels /\ c.off \in Nat /\ c.buffer \in Ptr \cup {NULL}
    BY <1>2 DEF WriterLabels
  <2>2. label # "idle" => c.data \in Inputs /\ c.count = Len(c.data)
    BY <1>1, <1>2 DEF Inv, TaskTypes
  <2>3. QED
    BY <1>1, <1>2, <2>1, <2>2, WriterTyped DEF Inv
<1>9. CallsKeepLoaded'
  BY <1>1, <1>2, <1>3 DEF Inv, CallsKeepLoaded, RingInv
<1>10. Buffers'
  BY <1>2, <1>3, <1>6 DEF Inv, Buffers, WithBuffer
<1>11. Unshared'
  <2>1. \A u, v \in Task :
          call'[u].buffer = call'[v].buffer /\ call'[u].buffer # NULL => u = v
    BY <1>2, <1>3 DEF Inv, Unshared
  <2>2. \A i \in Slot, u \in Task :
          entry'[i].buffptr = call'[u].buffer => entry'[i].buffptr = NULL
    BY <1>1, <1>2, <1>3 DEF Inv, Unshared
  <2>3. \A u \in Task : call'[u].buffer = partial'.buffptr => call'[u].buffer = NULL
    BY <1>1, <1>2, <1>3 DEF Inv, Unshared
  <2>4. QED
    BY <1>1, <2>1, <2>2, <2>3 DEF Inv, Unshared
<1>12. PointersLive'
  <2>1. PartialDangles' <=> PartialDangles
    BY <1>1, <1>2, <1>3 DEF PartialDangles
  <2>2. Live' \subseteq Referenced'
    <3>1. Referenced \subseteq Referenced' \cup {b}
      BY <1>1, <1>3 DEF Referenced
    <3>2. QED
      BY <1>4, <3>1 DEF Inv, PointersLive
  <2>3. \A i \in Slot : entry[i].buffptr # NULL => entry[i].buffptr \in Live'
    BY <1>3, <1>4 DEF Inv, PointersLive, Unshared
  <2>4. partial.buffptr \in Live <=> partial.buffptr \in Live'
    BY <1>3, <1>4, <1>5 DEF Inv, Unshared
  <2>5. QED
    BY <1>1, <1>4, <2>1, <2>2, <2>3, <2>4 DEF Inv, PointersLive
<1>13. \A u \in Writer : pc'[u] \in WithBuffer =>
         /\ pc'[u] = pc[u] /\ call'[u] = call[u]
         /\ mem'[call'[u].buffer] = mem[call[u].buffer]
  BY <1>2, <1>3, <1>6 DEF Inv, Buffers, WithBuffer
<1>14. PartialStands'
  BY <1>1, <1>2, <1>3, <1>13 DEF Inv, PartialStands, WithBuffer
<1>15. NothingUnfinished'
  BY <1>1, <1>2, <1>3, <1>13 DEF Inv, NothingUnfinished, WithBuffer
<1>16. QED
  BY <1>7, <1>8, <1>9, <1>10, <1>11, <1>12, <1>14, <1>15 DEF Inv

\* Every step of a writer.
LEMMA WritingKeepsInv ==
  ASSUME OneWriter \/ InputsAreLines, Inv, NEW t \in Writer, WriterStep(t)
  PROVE  Inv'
<1> USE DEF Goto, files, counters
<1>1. /\ t \in Task /\ DOMAIN call[t] = CallFields /\ call = [u \in Task |-> call[u]]
  BY DEF Inv, TaskTypes, Task
<1> DEFINE Leaves(label) ==
             \/ label = "out" /\ pc[t] \in {"alloc", "copy_user", "lock", "unlock"}
             \/ label = "store" /\ pc[t] = "lock"
             \/ label \in {"unlock", "oops"} /\ pc[t] = "store"
             \/ label = "alloc" /\ pc[t] = "restart"
           Same(c) == /\ DOMAIN c = CallFields
                      /\ c.buffer = call[t].buffer /\ c.off = call[t].off
                      /\ c.file = call[t].file /\ c.data = call[t].data
                      /\ c.count = call[t].count
<1>2. ASSUME NEW label, NEW c, Leaves(label), Same(c), call' = [call EXCEPT ![t] = c],
             pc' = [pc EXCEPT ![t] = label], UNCHANGED <<store, loaded, opened>>
      PROVE  Inv'
  BY <1>2, WriterKeepsInv
<1>3. ASSUME NEW ret, call' = [call EXCEPT ![t].ret = ret]
      PROVE  \E c : Same(c) /\ call' = [call EXCEPT ![t] = c]
  <2> DEFINE c == [call[t] EXCEPT !.ret = ret]
  <2>1. call' = [call EXCEPT ![t] = c]
    BY <1>1, <1>3
  <2>2. Same(c)
    BY <1>1 DEF CallFields
  <2> HIDE DEF c, Same
  <2>3. QED
    BY <2>1, <2>2
<1>4. ASSUME NEW ret, NEW pos, call' = [call EXCEPT ![t].ret = ret, ![t].pos = pos]
      PROVE  \E c : Same(c) /\ call' = [call EXCEPT ![t] = c]
  <2> DEFINE c == [call[t] EXCEPT !.ret = ret, !.pos = pos]
  <2>1. call' = [call EXCEPT ![t] = c]
    BY <1>1, <1>4
  <2>2. Same(c)
    BY <1>1 DEF CallFields
  <2> HIDE DEF c, Same
  <2>3. QED
    BY <2>1, <2>2
<1>5. ASSUME call' = call
      PROVE  \E c : Same(c) /\ call' = [call EXCEPT ![t] = c]
  <2>1. Same(call[t]) /\ call' = [call EXCEPT ![t] = call[t]]
    BY <1>1, <1>5
  <2> HIDE DEF Same
  <2>2. QED
    BY <2>1
<1>6. ASSUME NEW label, Leaves(label), \E c : Same(c) /\ call' = [call EXCEPT ![t] = c],
             pc' = [pc EXCEPT ![t] = label], UNCHANGED <<store, loaded, opened>>
      PROVE  Inv'
  <2> HIDE DEF Same, Leaves
  <2>1. QED
    BY <1>2, <1>6
<1>7. ASSUME NEW error, GiveUp(t, error), pc[t] \in {"alloc", "copy_user", "lock"},
             UNCHANGED <<store, loaded, opened>>
      PROVE  Inv'
  <2>1. call' = [call EXCEPT ![t].ret = error] /\ pc' = [pc EXCEPT ![t] = "out"]
    BY <1>7 DEF GiveUp
  <2>2. Leaves("out")
    BY <1>7
  <2>3. \E c : Same(c) /\ call' = [call EXCEPT ![t] = c]
    BY <1>3, <2>1
  <2> HIDE DEF Same, Leaves
  <2>4. QED
    BY <1>6, <1>7, <2>1, <2>2, <2>3
<1>8. CASE AllocBuffer(t)
  <2>1. CASE GiveUp(t, ENOMEM) /\ UNCHANGED mem
    BY <1>7, <1>8, <2>1 DEF AllocBuffer, store
  <2>2. CASE ~(GiveUp(t, ENOMEM) /\ UNCHANGED mem)
    BY <1>8, <2>2, AllocKeepsInv DEF AllocBuffer
  <2>3. QED
    BY <2>1, <2>2
<1>9. CASE CopyPartial(t) /\ ~UsesFreed(t)
  BY <1>9, CopyKeepsInv
<1>10. CASE CopyUser(t) /\ ~UsesFreed(t)
  <2>1. CASE GiveUp(t, ENOMEM) /\ UNCHANGED mem
    BY <1>7, <1>10, <2>1 DEF CopyUser, store
  <2>2. CASE ~(GiveUp(t, ENOMEM) /\ UNCHANGED mem)
    BY <1>10, <2>2, CopyKeepsInv DEF CopyUser
  <2>3. QED
    BY <2>1, <2>2
<1>11. CASE FreePartial(t) /\ ~UsesFreed(t)
  BY <1>11, FreePartialKeepsInv
<1>12. CASE ClearPartial(t)
  BY <1>12, ClearPartialKeepsInv
<1>13. CASE LockForWrite(t)
  <2>1. /\ Leaves("store") /\ call' = call /\ pc' = [pc EXCEPT ![t] = "store"]
        /\ UNCHANGED <<store, loaded, opened>>
    BY <1>13 DEF LockForWrite
  <2>2. \E c : Same(c) /\ call' = [call EXCEPT ![t] = c]
    BY <1>5, <2>1
  <2> HIDE DEF Same, Leaves
  <2>3. QED
    BY <1>6, <2>1, <2>2
<1>14. CASE StoreLine(t)
  <2>1. CASE /\ mem' = MemAfter(NewPtr, SubSeq(Working(t), 1, LineLength(t)), {Garbage})
             /\ AddEntry([buffptr |-> NewPtr, size |-> LineLength(t)])
             /\ call' = [call EXCEPT ![t].off = @ + LineLength(t)]
             /\ UNCHANGED pc
    BY <1>14, <2>1, StoreLineKeepsInv DEF StoreLine
  <2>2. CASE \/ call' = [call EXCEPT ![t].ret = EINVAL] /\ Goto(t, "unlock") /\ UNCHANGED <<ring, mem>>
             \/ Goto(t, "oops") /\ UNCHANGED <<ring, mem, call>>
    <3>1. PICK label \in {"unlock", "oops"} : pc' = [pc EXCEPT ![t] = label]
      BY <2>2
    <3>2. Leaves(label) /\ UNCHANGED <<store, loaded, opened>>
      BY <1>14, <2>2, <3>1 DEF StoreLine, store
    <3>3. \E c : Same(c) /\ call' = [call EXCEPT ![t] = c]
      BY <1>3, <1>5, <2>2
    <3> HIDE DEF Same, Leaves
    <3>4. QED
      BY <1>6, <3>1, <3>2, <3>3
  <2>3. QED
    BY <1>14, <2>1, <2>2 DEF StoreLine
<1>15. CASE KeepTail(t)
  <2> DEFINE ret == call[t].count
             pos == call[t].pos + call[t].count
             done == [call EXCEPT ![t].ret = ret, ![t].pos = pos]
  <2>1. /\ pc[t] = "store" /\ LineLength(t) = 0 /\ pc' = [pc EXCEPT ![t] = "unlock"]
        /\ UNCHANGED <<ring, loaded, opened>> /\ Leaves("unlock")
    BY <1>15 DEF KeepTail
  <2>2. \/ call' = done /\ UNCHANGED <<partial, mem>>
        \/ /\ HasTail(t) /\ call' = done
           /\ partial' = [buffptr |-> NewPtr, size |-> Len(Working(t))]
           /\ mem' = MemAfter(NewPtr, Working(t), {})
        \/ /\ partial' = PartialWithoutMemory(Working(t))
           /\ call' = [call EXCEPT ![t].ret = ENOMEM]
           /\ UNCHANGED mem
    BY <1>1, <1>15 DEF KeepTail, CallFields
  <2>3. PartialWithoutMemory(Working(t)) = partial
    BY <2>1 DEF PartialWithoutMemory, Inv, PartialStands, EmptyEntry
  <2>4. \E c : Same(c) /\ call' = [call EXCEPT ![t] = c]
    <3>1. CASE call' = [call EXCEPT ![t].ret = ENOMEM]
      BY <1>3, <3>1
    <3>2. CASE call' = done
      <4> HIDE DEF ret, pos, Same
      <4>1. QED
        BY <1>4, <3>2
    <3>3. QED
      BY <2>2, <3>1, <3>2
  <2>5. CASE UNCHANGED <<partial, mem>>
    <3> HIDE DEF Same, Leaves
    <3>1. QED
      BY <1>6, <2>1, <2>4, <2>5 DEF store
  <2>6. CASE /\ HasTail(t)
             /\ partial' = [buffptr |-> NewPtr, size |-> Len(Working(t))]
             /\ mem' = MemAfter(NewPtr, Working(t), {})
    BY <2>1, <2>4, <2>6, KeepTailKeepsInv
  <2>7. QED
    BY <2>2, <2>3, <2>5, <2>6
<1>16. CASE Unlock(t)
  <2>1. /\ Leaves("out") /\ call' = call /\ pc' = [pc EXCEPT ![t] = "out"]
        /\ UNCHANGED <<store, loaded, opened>>
    BY <1>16 DEF Unlock
  <2>2. \E c : Same(c) /\ call' = [call EXCEPT ![t] = c]
    BY <1>5, <2>1
  <2> HIDE DEF Same, Leaves
  <2>3. QED
    BY <1>6, <2>1, <2>2
<1>17. CASE WriteOut(t)
  BY <1>17, WriteOutKeepsInv
<1>18. CASE WriteInterrupted(t)
  BY <1>7, <1>18 DEF WriteInterrupted
<1>19. ASSUME NEW f \in File, NEW data \in Inputs, WriteCall(t, f, data) PROVE Inv'
  BY <1>19, WriteCallKeepsInv
<1>20. CASE WriteRestart(t)
  <2> DEFINE pos == fpos[call[t].file]
             c == [call[t] EXCEPT !.pos = pos]
  <2>1. /\ Leaves("alloc") /\ pc' = [pc EXCEPT ![t] = "alloc"]
        /\ call' = [call EXCEPT ![t].pos = pos] /\ UNCHANGED <<store, loaded, opened>>
    BY <1>20 DEF WriteRestart
  <2> HIDE DEF pos
  <2>2. call' = [call EXCEPT ![t] = c]
    BY <1>1, <2>1
  <2>3. Same(c)
    BY <1>1 DEF CallFields
  <2> HIDE DEF c, Same, Leaves
  <2>4. QED
    BY <1>2, <2>1, <2>2, <2>3
<1>21. QED
  BY <1>8, <1>9, <1>10, <1>11, <1>12, <1>13, <1>14, <1>15, <1>16, <1>17, <1>18, <1>19,
     <1>20
  DEF WriterStep, WriteStep

(* ------------------------- theorems on memory -------------------------- *)

\* The invariant holds in every state of the driver, when there is one writer or all
\* write whole lines.
THEOREM DriverInvariant ==
  ASSUME OneWriter \/ InputsAreLines
  PROVE  Spec => []Inv
<1>1. Init => Inv
  <2>1. SUFFICES ASSUME Init PROVE Inv
    OBVIOUS
  <2>2. /\ EmptyEntry \in BufferEntry /\ EmptyEntry.buffptr = NULL /\ EmptyEntry.size = 0
        /\ 0 \in Slot
    BY NAssumption DEF EmptyEntry, BufferEntry, Slot
  <2>3. /\ DOMAIN NoCall = CallFields /\ NoCall.buffer = NULL /\ NoCall.off = 0
        /\ "idle" \in WriterLabels /\ "idle" \in ReaderLabels
    BY DEF NoCall, CallFields, WriterLabels, ReaderLabels
  <2>4. /\ \A t \in Task : pc[t] = "idle" /\ call[t] = NoCall
        /\ \A t \in Writer : t \in Task
        /\ \A t \in Reader : t \in Task
        /\ \A i \in Slot : entry[i] = EmptyEntry
        /\ partial = EmptyEntry /\ ~full /\ out_offs = 0 /\ ~loaded /\ opened = {}
    BY <2>1 DEF Init, BufferInit, Task
  <2>5. Live = {} /\ mem = [p \in Live |-> mem[p]]
    BY <2>1 DEF Init, Live
  <2>6. BufferTypeOK
    BY <2>1, <2>2 DEF Init, BufferInit, BufferTypeOK
  <2>7. StoreTypes
    <3>1. loaded \in BOOLEAN
      BY <2>1 DEF Init
    <3>2. QED
      BY <2>2, <2>4, <2>5, <2>6, <3>1 DEF StoreTypes
  <2>8. TaskTypes
    BY <2>1, <2>3, <2>4 DEF Init, TaskTypes
  <2>9. CallsKeepLoaded
    BY <2>2, <2>4 DEF CallsKeepLoaded
  <2>10. Buffers
    BY <2>3, <2>4 DEF Buffers, WithBuffer
  <2>11. Unshared
    BY <2>2, <2>3, <2>4 DEF Unshared
  <2>12. PointersLive
    BY <2>2, <2>4, <2>5 DEF PointersLive
  <2>13. PartialStands /\ NothingUnfinished
    BY <2>4 DEF PartialStands, NothingUnfinished
  <2>14. QED
    BY <2>7, <2>8, <2>9, <2>10, <2>11, <2>12, <2>13 DEF Inv
<1>2. ASSUME Inv, [Next]_vars PROVE Inv'
  <2>1. CASE Load \/ Unload \/ \E f \in File : Open(f) \/ Release(f)
    BY <1>2, <2>1, ModuleKeepsInv
  <2>2. ASSUME NEW t \in Writer, WriterStep(t) PROVE Inv'
    BY <1>2, <2>2, WritingKeepsInv
  <2>3. ASSUME NEW t \in Reader, ReaderStep(t) PROVE Inv'
    BY <1>2, <2>3, ReadingKeepsInv
  <2>4. CASE UNCHANGED vars
    BY <1>2, <2>4, UnchangedKeepsInv DEF vars, invVars, store, ring, bufferVars
  <2>5. QED
    BY <1>2, <2>1, <2>2, <2>3, <2>4 DEF Next, WriterStep, ReaderStep
<1>3. QED
  BY <1>1, <1>2, PTL DEF Spec

\* No write copies past the end of its buffer, and none reads or frees memory that
\* was freed already (aesd_write before it takes the lock).
THEOREM DriverNoFault ==
  ASSUME OneWriter \/ InputsAreLines
  PROVE  Spec => []NoFault
<1>1. Inv => NoFault
  <2>1. SUFFICES ASSUME Inv, NEW t \in Writer PROVE ~Overflows(t) /\ ~UsesFreed(t)
    BY DEF NoFault
  <2>2. partial.size \in Nat
    BY <2>1 DEF Inv, StoreTypes, BufferEntry
  <2>3. pc[t] # "idle" => call[t].count \in Nat
    <3>1. pc[t] # "idle" => call[t].count = Len(call[t].data) /\ call[t].data \in Seq(Nat)
      BY <2>1, DriverAssumption DEF Inv, TaskTypes
    <3>2. QED
      BY <3>1
  <2>4. pc[t] \in {"copy_partial", "copy_user"} =>
          Len(mem[call[t].buffer]) = partial.size + call[t].count
    BY <2>1 DEF Inv, PartialStands
  <2>5. ~Overflows(t)
    BY <2>2, <2>3, <2>4 DEF Overflows
  <2>6. ~UsesFreed(t)
    <3>1. CASE OneWriter
      <4>1. pc[t] # "clear_partial" => ~PartialDangles
        BY <2>1, <3>1 DEF OneWriter, PartialDangles
      <4>2. QED
        BY <2>1, <4>1 DEF UsesFreed, Inv, PointersLive
    <3>2. CASE InputsAreLines
      BY <2>1, <3>2 DEF UsesFreed, Inv, NothingUnfinished, EmptyEntry
    <3>3. QED
      BY <3>1, <3>2
  <2>7. QED
    BY <2>5, <2>6
<1>2. QED
  BY <1>1, DriverInvariant, PTL

\* Memory that holds bytes has exactly one owner, of the size the owner says, and none
\* is left when the module is unloaded: on every path of aesd_write, aesd_open,
\* aesd_release and the module's init and exit functions.  The entry structs of
\* main.c:141, which nothing frees, are no part of the statement.
THEOREM DriverOwnsItsBytes ==
  ASSUME OneWriter \/ InputsAreLines
  PROVE  Spec => []OwnsItsBytes
<1>1. Inv => OwnsItsBytes
  <2>1. SUFFICES ASSUME Inv PROVE OwnsItsBytes
    OBVIOUS
  <2>2. NULL \notin Live /\ Live \subseteq Ptr
    BY <2>1, NullAssumption DEF Inv, StoreTypes
  <2>3. PartialDangles <=> \E t \in Task : pc[t] = "clear_partial"
    BY <2>1 DEF Inv, TaskTypes, PartialDangles, Task, ReaderLabels
  <2>4. ~loaded => Live = {}
    BY <2>1, IdleOwnsNothing DEF Inv, CallsKeepLoaded
  <2>5. \A i \in Slot : entry[i].buffptr \in Live =>
                          entry[i].size = Len(mem[entry[i].buffptr])
    BY <2>1, <2>2 DEF Inv, PointersLive
  <2>6. partial.buffptr \in Live => partial.size = Len(mem[partial.buffptr])
    BY <2>1 DEF Inv, PointersLive
  <2>7. ASSUME NEW p \in Ptr
        PROVE  Owners(p) = IF p \in Live THEN 1 ELSE 0
    <3> DEFINE S == {i \in Slot : entry[i].buffptr = p}
               T == {t \in Task : call[t].buffer = p}
               k == IF partial.buffptr = p /\ \A t \in Task : pc[t] # "clear_partial"
                    THEN 1 ELSE 0
    <3>1. p # NULL
      BY NullAssumption
    <3>2. S = {} \/ \E i \in Slot : S = {i}
      BY <2>1, <3>1 DEF Inv, Unshared
    <3>3. T = {} \/ \E t \in Task : T = {t}
      BY <2>1, <3>1 DEF Inv, Unshared
    <3>4. S = {} \/ T = {}
      BY <2>1, <3>1 DEF Inv, Unshared
    <3>5. partial.buffptr = p => S = {} /\ T = {}
      BY <2>1, <3>1 DEF Inv, Unshared
    <3>6. S # {} => p \in Live
      BY <2>1, <3>1 DEF Inv, PointersLive
    <3>7. T # {} => p \in Live
      BY <2>1, <3>1 DEF Inv, Buffers, TaskTypes, Task, WriterLabels, WithBuffer
    <3>8. k = 1 => p \in Live
      BY <2>1, <2>3, <3>1 DEF Inv, PointersLive
    <3>9. p \in Live => S # {} \/ T # {} \/ k = 1
      <4>1. ASSUME p \in Live, partial.buffptr = p PROVE k = 1
        BY <2>1, <2>3, <3>1, <4>1 DEF Inv, PointersLive
      <4>2. p \in Live => p \in Referenced
        BY <2>1 DEF Inv, PointersLive
      <4>3. QED
        BY <4>1, <4>2 DEF Referenced
    <3>10. Cardinality({}) = 0
      BY FS_EmptySet
    <3>11. \A x : Cardinality({x}) = 1
      BY FS_Singleton
    <3>12. /\ Cardinality(S) = IF S = {} THEN 0 ELSE 1
           /\ Cardinality(T) = IF T = {} THEN 0 ELSE 1
      BY <3>2, <3>3, <3>10, <3>11
    <3>13. k = 0 \/ (k = 1 /\ S = {} /\ T = {})
      BY <3>5
    <3>14. Owners(p) = Cardinality(S) + Cardinality(T) + k
      BY DEF Owners
    <3> HIDE DEF S, T, k
    <3>15. QED
      BY <3>4, <3>6, <3>7, <3>8, <3>9, <3>12, <3>13, <3>14
  <2>8. QED
    BY <2>4, <2>5, <2>6, <2>7 DEF OwnsItsBytes
<1>2. QED
  BY <1>1, DriverInvariant, PTL

(* ------------------------ the lines of a text -------------------------- *)

\* memchr finds the first occurrence of a byte.
FirstAt(w, x) ==
  LET I == {i \in 1 .. Len(w) : w[i] = x} IN IF I # {} THEN Min(I) ELSE 0

\* SelectInSeq is this position, with no such byte before it.
LEMMA FirstByte ==
  ASSUME NEW w \in Seq(Nat), NEW x
  PROVE  /\ SelectInSeq(w, LAMBDA b : b = x) = FirstAt(w, x)
         /\ FirstAt(w, x) \in 0 .. Len(w)
         /\ FirstAt(w, x) = 0 => \A i \in 1 .. Len(w) : w[i] # x
         /\ FirstAt(w, x) # 0 => /\ w[FirstAt(w, x)] = x
                                 /\ \A i \in 1 .. FirstAt(w, x) - 1 : w[i] # x
<1> DEFINE I == {i \in 1 .. Len(w) : w[i] = x}
           n == FirstAt(w, x)
<1>1. SelectInSeq(w, LAMBDA b : b = x) = n
  BY DEF SelectInSeq, FirstAt
<1>2. I \in SUBSET Nat /\ Len(w) \in Nat
  OBVIOUS
<1>3. n = IF I # {} THEN Min(I) ELSE 0
  BY DEF FirstAt
<1> HIDE DEF n
<1>4. CASE I # {}
  <2>1. Min(I) \in I /\ \A y \in I : Min(I) <= y
    BY <1>2, <1>4, MinOfNaturals
  <2>2. n \in 1 .. Len(w) /\ w[n] = x /\ \A y \in I : n <= y
    BY <2>1, <1>3, <1>4
  <2>3. \A i \in 1 .. n - 1 : w[i] # x
    BY <2>2, <1>2
  <2>4. n # 0 /\ n \in 0 .. Len(w)
    BY <1>2, <2>2
  <2>5. QED
    BY <1>1, <2>2, <2>3, <2>4 DEF n
<1>5. CASE I = {}
  <2>1. n = 0 /\ \A i \in 1 .. Len(w) : w[i] # x
    BY <1>3, <1>5
  <2>2. n \in 0 .. Len(w)
    BY <1>2, <2>1
  <2>3. QED
    BY <1>1, <2>1, <2>2 DEF n
<1>6. QED
  BY <1>4, <1>5

\* A part of a byte sequence.
LEMMA PartOfSeq ==
  ASSUME NEW s \in Seq(Nat), NEW i \in Nat, NEW j \in Nat, i <= j, j <= Len(s)
  PROVE  /\ SubSeq(s, i + 1, j) \in Seq(Nat) /\ Len(SubSeq(s, i + 1, j)) = j - i
         /\ \A m \in 1 .. j - i : SubSeq(s, i + 1, j)[m] = s[i + m]
<1>1. \A k \in i + 1 .. j : s[k] \in Nat
  OBVIOUS
<1>2. SubSeq(s, i + 1, j) \in Seq(Nat) /\ Len(SubSeq(s, i + 1, j)) = j - i
  BY <1>1
<1>3. ASSUME NEW m \in 1 .. j - i PROVE SubSeq(s, i + 1, j)[m] = s[i + m]
  BY <1>1
<1>4. QED
  BY <1>2, <1>3

\* The rank of a newline: how many there are up to it.
UpTo(S, i) == {j \in S : j <= i}
Rank(S, i) == Cardinality(UpTo(S, i))

\* Ranks count from 1, and different newlines have different ranks.
LEMMA RankTells ==
  ASSUME NEW S \in SUBSET Nat, IsFiniteSet(S)
  PROVE  /\ \A i \in S : Rank(S, i) \in 1 .. Cardinality(S)
         /\ \A i, j \in S : Rank(S, i) = Rank(S, j) => i = j
<1>1. \A i \in S : IsFiniteSet(UpTo(S, i)) /\ Rank(S, i) \in Nat /\ Rank(S, i) <= Cardinality(S)
  BY FS_Subset, FS_CardinalityType DEF UpTo, Rank
<1>2. Cardinality(S) \in Nat
  BY FS_CardinalityType
<1>3. ASSUME NEW i \in S PROVE Rank(S, i) \in 1 .. Cardinality(S)
  <2>1. UpTo(S, i) # {}
    BY DEF UpTo
  <2>2. Rank(S, i) # 0
    BY <1>1, <2>1, FS_EmptySet DEF Rank
  <2>3. QED
    BY <1>1, <1>2, <2>2
<1>4. ASSUME NEW i \in S, NEW j \in S, i < j PROVE Rank(S, i) # Rank(S, j)
  <2>1. UpTo(S, i) \in SUBSET UpTo(S, j) /\ j \in UpTo(S, j) /\ j \notin UpTo(S, i)
    <3>1. i \in Nat /\ j \in Nat /\ j <= j /\ ~(j <= i) /\ \A x \in S : x <= i => x <= j
      BY <1>4
    <3>2. QED
      BY <3>1 DEF UpTo
  <2>2. UpTo(S, i) # UpTo(S, j)
    BY <2>1
  <2>3. QED
    BY <1>1, <2>1, <2>2, FS_Subset DEF Rank
<1>5. ASSUME NEW i \in S, NEW j \in S, Rank(S, i) = Rank(S, j) PROVE i = j
  <2>1. i \in Nat /\ j \in Nat
    OBVIOUS
  <2>2. ~(i < j) /\ ~(j < i)
    BY <1>4, <1>5
  <2>3. QED
    BY <2>1, <2>2
<1>6. QED
  BY <1>3, <1>5


\* Every rank up to the number of newlines is the rank of one of them.
LEMMA RankExists ==
  ASSUME NEW S \in SUBSET Nat, IsFiniteSet(S), NEW k \in 1 .. Cardinality(S)
  PROVE  \E i \in S : Rank(S, i) = k
<1> DEFINE f == [i \in S |-> Rank(S, i)]
           T == 1 .. Cardinality(S)
<1>1. Cardinality(S) \in Nat
  BY FS_CardinalityType
<1>2. IsFiniteSet(T) /\ Cardinality(T) = Cardinality(S)
  BY <1>1, FS_Interval
<1>3. f \in Injection(S, T)
  <2>1. f \in [S -> T]
    BY RankTells
  <2>2. \A i, j \in S : f[i] = f[j] => i = j
    BY RankTells
  <2>3. QED
    BY <2>1, <2>2 DEF Injection, IsInjective
<1>4. f \in Surjection(S, T)
  <2> HIDE DEF f, T
  <2>1. QED
    BY <1>2, <1>3, FS_Injection
<1>5. QED
  BY <1>4 DEF Surjection

\* The operators of the library are the same in the abstract device.
LEMMA DeviceCardinality == \A S : Device!Cardinality(S) = Cardinality(S)
  BY Zenon DEF Device!Cardinality, Cardinality, Device!IsFiniteSet, IsFiniteSet

\* Max is the same of the device and here.
LEMMA DeviceMax == \A S : Device!Max(S) = Max(S)
  BY Zenon DEF Device!Max, Max

\* The newlines of a text, and where its first k lines end.
Newlines(text) == {i \in 1 .. Len(text) : text[i] = NL}
EndOf(text, k) == IF k = 0 THEN 0 ELSE Device!Ends(text)[k]

\* Ends lists the newlines by rank.
LEMMA EndsByRank ==
  ASSUME NEW text \in Seq(Nat)
  PROVE  /\ Newlines(text) \in SUBSET Nat /\ IsFiniteSet(Newlines(text))
         /\ Device!Ends(text) \in Seq(Nat)
         /\ Len(Device!Ends(text)) = Cardinality(Newlines(text))
         /\ \A k \in 1 .. Len(Device!Ends(text)) :
              /\ Device!Ends(text)[k] \in Newlines(text)
              /\ Rank(Newlines(text), Device!Ends(text)[k]) = k
<1> DEFINE S == Newlines(text)
           c == Cardinality(S)
           E == [k \in 1 .. c |-> CHOOSE i \in S : Rank(S, i) = k]
<1>1. S \in SUBSET Nat /\ IsFiniteSet(S)
  <2>1. IsFiniteSet(1 .. Len(text)) /\ S \in SUBSET (1 .. Len(text))
    BY FS_Interval DEF Newlines
  <2>2. IsFiniteSet(S)
    <3> HIDE DEF S
    <3>1. QED
      BY <2>1, FS_Subset
  <2>3. S \in SUBSET Nat
    BY DEF Newlines
  <2>4. QED
    BY <2>2, <2>3
<1>2. Device!Ends(text) = E
  <2> DEFINE T == {i \in DOMAIN text : text[i] = NL}
  <2>1. T = S
    BY DEF Newlines
  <2>2. Device!Ends(text)
          = [k \in 1 .. Device!Cardinality(T) |->
               CHOOSE i \in T : Device!Cardinality({j \in T : j <= i}) = k]
    BY Zenon DEF Device!Ends
  <2> HIDE DEF T, S
  <2>3. Device!Ends(text)
          = [k \in 1 .. c |-> CHOOSE i \in S : Cardinality({j \in S : j <= i}) = k]
    BY <2>1, <2>2, DeviceCardinality, Zenon
  <2>4. QED
    BY <2>3, Zenon DEF Rank, UpTo
<1>3. c \in Nat
  BY <1>1, FS_CardinalityType
<1> HIDE DEF S
<1>4. \A k \in 1 .. c : E[k] \in S /\ Rank(S, E[k]) = k
  <2>1. ASSUME NEW k \in 1 .. c PROVE E[k] \in S /\ Rank(S, E[k]) = k
    <3>1. \E i \in S : Rank(S, i) = k
      BY <1>1, RankExists
    <3>2. QED
      BY <3>1
  <2>2. QED
    BY <2>1
<1>5. E \in Seq(Nat) /\ Len(E) = c
  <2>1. E \in [1 .. c -> Nat]
    BY <1>1, <1>4
  <2> HIDE DEF E, c
  <2>2. QED
    BY <1>3, <2>1
<1> HIDE DEF E
<1>6. QED
  BY <1>1, <1>2, <1>4, <1>5 DEF S

\* Where the first k lines end, k newlines have been passed.
LEMMA EndOfRank ==
  ASSUME NEW text \in Seq(Nat), NEW k \in 0 .. Len(Device!Ends(text))
  PROVE  EndOf(text, k) \in 0 .. Len(text) /\ Rank(Newlines(text), EndOf(text, k)) = k
<1>1. Len(text) \in Nat
  OBVIOUS
<1>2. CASE k = 0
  <2>1. UpTo(Newlines(text), 0) = {}
    BY DEF UpTo, Newlines
  <2>2. Rank(Newlines(text), 0) = 0
    BY <2>1, FS_EmptySet DEF Rank
  <2>3. EndOf(text, k) = 0
    BY <1>2 DEF EndOf
  <2>4. QED
    BY <1>1, <1>2, <2>2, <2>3
<1>3. CASE k # 0
  <2>1. k \in 1 .. Len(Device!Ends(text))
    BY <1>3, EndsByRank
  <2>2. /\ Device!Ends(text)[k] \in Newlines(text)
        /\ Rank(Newlines(text), Device!Ends(text)[k]) = k
    BY <2>1, EndsByRank
  <2>3. QED
    BY <1>1, <1>3, <2>2 DEF EndOf, Newlines
<1>4. QED
  BY <1>2, <1>3

\* The first newline behind the first k lines ends the next one.
LEMMA NextEnd ==
  ASSUME NEW text \in Seq(Nat), NEW k \in 0 .. Len(Device!Ends(text)),
         NEW n \in Newlines(text), EndOf(text, k) < n,
         \A i \in Newlines(text) : i < n => i <= EndOf(text, k)
  PROVE  k + 1 \in 1 .. Len(Device!Ends(text)) /\ EndOf(text, k + 1) = n
<1> DEFINE S == Newlines(text)
           e == EndOf(text, k)
<1>1. S \in SUBSET Nat /\ IsFiniteSet(S) /\ n \in Nat /\ k \in Nat
  BY EndsByRank
<1>2. e \in Nat /\ Rank(S, e) = k
  BY EndOfRank
<1>3. UpTo(S, n) = UpTo(S, e) \cup {n} /\ n \notin UpTo(S, e) /\ IsFiniteSet(UpTo(S, e))
  <2>1. IsFiniteSet(UpTo(S, e))
    <3> HIDE DEF e, S
    <3>1. UpTo(S, e) \in SUBSET S
      BY DEF UpTo
    <3>2. QED
      BY <1>1, <3>1, FS_Subset
  <2>2. \A i \in S : i <= n <=> (i <= e \/ i = n)
    BY <1>1, <1>2
  <2>3. ~(n <= e)
    BY <1>1, <1>2
  <2> HIDE DEF e, S
  <2>4. QED
    BY <2>1, <2>2, <2>3 DEF UpTo, S
<1>4. Rank(S, n) = k + 1
  BY <1>2, <1>3, FS_AddElement DEF Rank
<1>5. Rank(S, n) \in 1 .. Len(Device!Ends(text))
  BY <1>1, RankTells, EndsByRank
<1>6. /\ Device!Ends(text)[k + 1] \in S
      /\ Rank(S, Device!Ends(text)[k + 1]) = k + 1
  BY <1>4, <1>5, EndsByRank
<1>7. Device!Ends(text)[k + 1] = n
  BY <1>1, <1>4, <1>6, RankTells
<1>8. QED
  BY <1>1, <1>4, <1>5, <1>7 DEF EndOf

\* With no newline behind them, the first k lines are all.
LEMMA LastEnd ==
  ASSUME NEW text \in Seq(Nat), NEW k \in 0 .. Len(Device!Ends(text)),
         \A i \in Newlines(text) : i <= EndOf(text, k)
  PROVE  k = Len(Device!Ends(text))
<1>1. UpTo(Newlines(text), EndOf(text, k)) = Newlines(text)
  BY DEF UpTo
<1>2. QED
  BY <1>1, EndOfRank, EndsByRank DEF Rank

\* The lines of a text are its parts between two newlines ...
LEMMA LinesByEnds ==
  ASSUME NEW text \in Seq(Nat)
  PROVE  /\ Device!LinesOf(text) \in Seq(Seq(Nat))
         /\ Len(Device!LinesOf(text)) = Len(Device!Ends(text))
         /\ \A k \in 0 .. Len(Device!Ends(text)) - 1 :
              Device!LinesOf(text)[k + 1]
                = SubSeq(text, EndOf(text, k) + 1, EndOf(text, k + 1))
<1> DEFINE E == Device!Ends(text)
           R == [k \in 1 .. Len(E) |->
                   SubSeq(text, IF k = 1 THEN 1 ELSE E[k - 1] + 1, E[k])]
<1>1. E \in Seq(Nat) /\ Len(E) \in Nat /\ DOMAIN E = 1 .. Len(E)
  BY EndsByRank
<1>2. Device!LinesOf(text) = R
  BY <1>1 DEF Device!LinesOf
<1>3. \A k \in 0 .. Len(E) : EndOf(text, k) \in 0 .. Len(text)
  BY EndOfRank
<1>4. \A k \in 1 .. Len(E) : R[k] = SubSeq(text, EndOf(text, k - 1) + 1, EndOf(text, k))
  <2>1. ASSUME NEW k \in 1 .. Len(E)
        PROVE  /\ (IF k = 1 THEN 1 ELSE E[k - 1] + 1) = EndOf(text, k - 1) + 1
               /\ E[k] = EndOf(text, k)
    BY <1>1 DEF EndOf
  <2> HIDE DEF E
  <2>2. QED
    BY <2>1
<1> HIDE DEF E
<1>5. \A k \in 1 .. Len(E) : R[k] \in Seq(Nat)
  <2>1. ASSUME NEW k \in 1 .. Len(E) PROVE R[k] \in Seq(Nat)
    <3>1. k - 1 \in 0 .. Len(E) /\ k \in 0 .. Len(E)
      BY <1>1
    <3>2. EndOf(text, k - 1) \in Nat /\ EndOf(text, k) \in 0 .. Len(text)
      BY <1>3, <3>1
    <3>3. SubSeq(text, EndOf(text, k - 1) + 1, EndOf(text, k)) \in Seq(Nat)
      BY <3>2
    <3>4. QED
      BY <1>4, <3>3
  <2>2. QED
    BY <2>1
<1>6. R \in Seq(Seq(Nat)) /\ Len(R) = Len(E)
  <2>1. R \in [1 .. Len(E) -> Seq(Nat)]
    BY <1>5
  <2> DEFINE n == Len(E)
  <2>2. n \in Nat /\ R \in [1 .. n -> Seq(Nat)]
    BY <1>1, <2>1
  <2> HIDE DEF R, n
  <2>3. R \in Seq(Seq(Nat)) /\ Len(R) = n
    BY <2>2, SMTT(30)
  <2>4. QED
    BY <2>3 DEF n
<1>7. ASSUME NEW k \in 0 .. Len(E) - 1
      PROVE  R[k + 1] = SubSeq(text, EndOf(text, k) + 1, EndOf(text, k + 1))
  <2>1. k + 1 \in 1 .. Len(E) /\ (k + 1) - 1 = k
    BY <1>1
  <2> HIDE DEF R
  <2>2. QED
    BY <1>4, <2>1
<1> HIDE DEF R
<1>8. QED
  BY <1>2, <1>6, <1>7 DEF E

\* ... and the rest is what follows the last one.
LEMMA RestByEnds ==
  ASSUME NEW text \in Seq(Nat)
  PROVE  Device!RestOf(text)
           = SubSeq(text, EndOf(text, Len(Device!Ends(text))) + 1, Len(text))
<1> DEFINE E == Device!Ends(text)
<1>1. E \in Seq(Nat) /\ Len(E) \in Nat
  BY EndsByRank
<1>2. CASE E = << >>
  <2>1. Len(E) = 0
    BY <1>2
  <2>2. SubSeq(text, 0 + 1, Len(text)) = text
    OBVIOUS
  <2>3. QED
    BY <1>2, <2>1, <2>2 DEF Device!RestOf, EndOf
<1>3. CASE E # << >>
  <2>1. Len(E) # 0
    BY <1>1, <1>3
  <2>2. QED
    BY <1>3, <2>1 DEF Device!RestOf, EndOf, Device!Last
<1>4. QED
  BY <1>2, <1>3

\* LastLines drops the oldest lines, when there are more than N.
Dropped(a) == IF Len(a) > N THEN Len(a) - N ELSE 0

\* LastLines drops the first Dropped(a) lines and keeps the others in order.
LEMMA LastLinesIs ==
  ASSUME NEW S, NEW a \in Seq(S)
  PROVE  /\ Device!LastLines(a) \in Seq(S)
         /\ Dropped(a) \in 0 .. Len(a) /\ Len(Device!LastLines(a)) = Len(a) - Dropped(a)
         /\ \A i \in 1 .. Len(a) - Dropped(a) : Device!LastLines(a)[i] = a[Dropped(a) + i]
<1> DEFINE L == Len(a)
           d == Dropped(a)
           m == Max({1, L - N + 1})
           r == SubSeq(a, m, L)
<1>1. L \in Nat /\ N \in Nat \ {0} /\ \A i \in 1 .. L : a[i] \in S
  BY NAssumption
<1>2. m = d + 1 /\ d \in 0 .. L
  <2>1. \E x \in {1, L - N + 1} : \A y \in {1, L - N + 1} : x >= y
    BY <1>1
  <2>2. m \in {1, L - N + 1} /\ m >= 1 /\ m >= L - N + 1
    BY <2>1 DEF Max
  <2> HIDE DEF m
  <2>3. QED
    BY <1>1, <2>2 DEF Dropped
<1>3. Device!LastLines(a) = r
  BY DeviceMax DEF Device!LastLines
<1> HIDE DEF m, L, d
<1>4. \A i \in m .. L : a[i] \in S
  BY <1>1, <1>2
<1>5. /\ r \in Seq(S) /\ Len(r) = L - d
      /\ \A i \in 1 .. L - d : r[i] = a[d + i]
  <2>1. m \in Int /\ L \in Int /\ (IF m <= L THEN L - m + 1 ELSE 0) = L - d /\ L - m + 1 = L - d
    BY <1>1, <1>2
  <2>2. \A i \in 1 .. L - d : m + i - 1 = d + i
    BY <1>1, <1>2
  <2>3. /\ r \in Seq(S) /\ Len(r) = L - d
        /\ \A i \in 1 .. L - d : r[i] = a[m + i - 1]
    BY <1>4, <2>1, SubSeqProperties
  <2> HIDE DEF r
  <2>4. QED
    BY <2>2, <2>3
<1> HIDE DEF r
<1>6. QED
  BY <1>2, <1>3, <1>5 DEF L, d

\* Few enough lines are all kept.
LEMMA LastLinesAll ==
  ASSUME NEW S, NEW a \in Seq(S), Len(a) <= N
  PROVE  Device!LastLines(a) = a
<1>1. Dropped(a) = 0 /\ Len(a) \in Nat
  BY NAssumption DEF Dropped
<1>2. /\ Device!LastLines(a) \in Seq(S) /\ Len(Device!LastLines(a)) = Len(a)
      /\ \A i \in 1 .. Len(a) : Device!LastLines(a)[i] = a[i]
  BY <1>1, LastLinesIs
<1>3. QED
  BY <1>2, SeqEqual

\* One more line pushes out the oldest one once there are N.
LEMMA LastLinesAppend ==
  ASSUME NEW S, NEW a \in Seq(S), NEW x \in S, NEW s, s = Device!LastLines(a)
  PROVE  Device!LastLines(Append(a, x))
           = IF Len(s) = N THEN Append(Tail(s), x) ELSE Append(s, x)
<1> DEFINE L == Len(a)
           b == Append(a, x)
<1>1. L \in Nat /\ N \in Nat \ {0}
  BY NAssumption
<1>2. b \in Seq(S) /\ Len(b) = L + 1 /\ b[L + 1] = x /\ \A i \in 1 .. L : b[i] = a[i]
  BY AppendProperties
<1>3. /\ s \in Seq(S) /\ Len(s) = L - Dropped(a)
      /\ \A i \in 1 .. L - Dropped(a) : s[i] = a[Dropped(a) + i]
  BY LastLinesIs
<1> HIDE DEF b, L
<1>4. CASE L < N
  <2>1. L <= N /\ L + 1 <= N
    BY <1>1, <1>4
  <2>2. s = a /\ Device!LastLines(b) = b
    BY <1>2, <2>1, LastLinesAll DEF L
  <2>3. Len(s) # N
    BY <1>1, <1>4, <2>2 DEF L
  <2>4. QED
    BY <2>2, <2>3 DEF b
<1>5. CASE L >= N
  <2> DEFINE r == Append(Tail(s), x)
             q == Device!LastLines(b)
             d == L - N
  <2>1. /\ Dropped(a) = d /\ Dropped(b) = d + 1 /\ L - Dropped(a) = N
        /\ (L + 1) - Dropped(b) = N /\ d \in Nat
    <3>1. Dropped(a) = d
      <4>1. CASE L = N
        BY <1>1, <4>1 DEF Dropped, L
      <4>2. CASE L > N
        BY <1>1, <4>2 DEF Dropped, L
      <4>3. QED
        BY <1>1, <1>5, <4>1, <4>2
    <3>2. Dropped(b) = (L + 1) - N
      BY <1>1, <1>2, <1>5 DEF Dropped
    <3>3. QED
      BY <1>1, <1>5, <3>1, <3>2
  <2> HIDE DEF d
  <2>2. s # << >> /\ Len(s) = N /\ \A i \in 1 .. N : s[i] = a[d + i]
    BY <1>1, <1>3, <2>1
  <2>3. /\ Tail(s) \in Seq(S) /\ Len(Tail(s)) = N - 1
        /\ \A i \in 1 .. N - 1 : Tail(s)[i] = s[i + 1]
    BY <1>3, <2>2, HeadTailProperties
  <2>4. /\ r \in Seq(S) /\ Len(r) = (N - 1) + 1 /\ r[(N - 1) + 1] = x
        /\ \A i \in 1 .. N - 1 : r[i] = Tail(s)[i]
    BY <2>3, AppendProperties
  <2>5. /\ q \in Seq(S) /\ Len(q) = N
        /\ \A i \in 1 .. N : q[i] = b[(d + 1) + i]
    <3>1. Len(b) - Dropped(b) = N
      BY <1>2, <2>1
    <3>2. /\ q \in Seq(S) /\ Len(q) = N
          /\ \A i \in 1 .. N : q[i] = b[Dropped(b) + i]
      BY <1>2, <3>1, LastLinesIs
    <3>3. QED
      BY <2>1, <3>2
  <2> HIDE DEF q, r
  <2>6. ASSUME NEW i \in 1 .. N PROVE r[i] = q[i]
    <3>1. CASE i = N
      <4>1. (d + 1) + i = L + 1 /\ (N - 1) + 1 = i
        BY <1>1, <3>1 DEF d
      <4>2. QED
        BY <1>2, <2>4, <2>5, <4>1
    <3>2. CASE i # N
      <4>1. i \in 1 .. N - 1 /\ i + 1 \in 1 .. N /\ d + (i + 1) = (d + 1) + i
            /\ (d + 1) + i \in 1 .. L
        BY <1>1, <1>5, <3>2 DEF d
      <4>2. r[i] = s[i + 1]
        BY <2>3, <2>4, <4>1
      <4>3. s[i + 1] = a[d + (i + 1)]
        BY <2>2, <4>1
      <4>4. q[i] = a[(d + 1) + i]
        BY <1>2, <2>5, <4>1
      <4>5. QED
        BY <4>1, <4>2, <4>3, <4>4
    <3>3. QED
      BY <3>1, <3>2
  <2>7. Len(r) = N
    BY <1>1, <2>4
  <2>8. r = q
    BY <2>4, <2>5, <2>6, <2>7, SeqEqual
  <2>9. QED
    BY <2>2, <2>8 DEF q, r, b
<1>6. QED
  BY <1>1, <1>4, <1>5

\* One line more of a list.
LEMMA PrefixGrows ==
  ASSUME NEW S, NEW a \in Seq(S), NEW s \in Seq(S), NEW k \in 0 .. Len(s) - 1
  PROVE  /\ a \o SubSeq(s, 1, k) \in Seq(S)
         /\ a \o SubSeq(s, 1, k + 1) = Append(a \o SubSeq(s, 1, k), s[k + 1])
<1> DEFINE p == SubSeq(s, 1, k)
           x == s[k + 1]
<1>0. Len(s) \in Nat /\ k \in Nat
  OBVIOUS
<1>1. k + 1 \in 1 .. Len(s) /\ (k + 1) - 1 = k /\ 1 \in 1 .. Len(s) /\ k \in 0 .. Len(s)
  BY <1>0
<1>2. SubSeq(s, 1, k + 1) = p \o <<x>>
  BY <1>1, SubSeqRecursiveSecond
<1>3. p \in Seq(S) /\ x \in S /\ <<x>> \in Seq(S)
  <2>1. \A i \in 1 .. k : s[i] \in S
    BY <1>0
  <2>2. p \in Seq(S)
    BY <1>0, <2>1, SubSeqProperties
  <2>3. x \in S
    BY <1>1, ElementOfSeq
  <2>4. QED
    BY <2>2, <2>3
<1> HIDE DEF p, x
<1>4. a \o (p \o <<x>>) = (a \o p) \o <<x>>
  BY <1>3, ConcatAssociative
<1>5. a \o p \in Seq(S)
  BY <1>3, ConcatProperties
<1>6. Append(a \o p, x) = (a \o p) \o <<x>>
  BY <1>3, <1>5, AppendIsConcat
<1>7. QED
  BY <1>2, <1>4, <1>5, <1>6 DEF p, x

\* What the two copies of aesd_write leave in the buffer.
LEMMA OverlayPrefix ==
  ASSUME NEW s \in Seq(Nat), NEW d \in Seq(Nat), Len(d) <= Len(s)
  PROVE  SubSeq(Overlay(s, 0, d), 1, Len(d)) = d
<1> DEFINE o == Overlay(s, 0, d)
           p == SubSeq(o, 1, Len(d))
<1>1. o \in Seq(Nat) /\ Len(o) = Len(s) /\ Len(s) \in Nat /\ Len(d) \in Nat
  BY OverlayKeepsSize
<1>2. \A k \in 1 .. Len(d) : o[k] = d[k]
  <2>1. ASSUME NEW k \in 1 .. Len(d) PROVE o[k] = d[k]
    <3>1. k \in DOMAIN s /\ k \in 0 + 1 .. 0 + Len(d) /\ k - 0 = k
      BY <1>1
    <3>2. QED
      BY <3>1, Zenon DEF Overlay
  <2>2. QED
    BY <2>1
<1> HIDE DEF o
<1>3. p \in Seq(Nat) /\ Len(p) = Len(d) /\ \A k \in 1 .. Len(d) : p[k] = o[0 + k]
  <2>1. 0 <= Len(d) /\ Len(d) - 0 = Len(d)
    BY <1>1
  <2>2. QED
    BY <1>1, <2>1, PartOfSeq
<1> HIDE DEF p
<1>4. \A k \in 1 .. Len(p) : p[k] = d[k]
  BY <1>1, <1>2, <1>3
<1>5. QED
  BY <1>3, <1>4, SeqEqual DEF p, o

\* Bytes laid over the end of others are those joined with them.
LEMMA OverlayJoins ==
  ASSUME NEW s \in Seq(Nat), NEW i \in Nat, NEW d \in Seq(Nat), i + Len(d) = Len(s)
  PROVE  Overlay(s, i, d) = SubSeq(s, 1, i) \o d
<1> DEFINE o == Overlay(s, i, d)
           p == SubSeq(s, 1, i)
           q == p \o d
<1>1. o \in Seq(Nat) /\ Len(o) = Len(s) /\ Len(s) \in Nat /\ Len(d) \in Nat
  BY OverlayKeepsSize
<1>2. p \in Seq(Nat) /\ Len(p) = i /\ \A k \in 1 .. i : p[k] = s[k]
  <2>1. 0 <= i /\ i <= Len(s) /\ i - 0 = i /\ 0 + 1 = 1 /\ \A k \in 1 .. i : 0 + k = k
    BY <1>1
  <2>2. QED
    BY <2>1, PartOfSeq
<1> HIDE DEF p
<1>3. /\ q \in Seq(Nat) /\ Len(q) = Len(s)
      /\ \A k \in 1 .. Len(s) : q[k] = IF k <= i THEN p[k] ELSE d[k - i]
  <2>1. /\ q \in Seq(Nat) /\ Len(q) = Len(p) + Len(d)
        /\ \A k \in 1 .. Len(p) + Len(d) :
             q[k] = IF k <= Len(p) THEN p[k] ELSE d[k - Len(p)]
    BY <1>2, ConcatProperties
  <2> HIDE DEF q
  <2>2. QED
    BY <1>2, <2>1
<1>4. \A k \in 1 .. Len(s) : o[k] = IF k <= i THEN s[k] ELSE d[k - i]
  <2>1. \A k \in 1 .. Len(s) : o[k] = IF k \in i + 1 .. i + Len(d) THEN d[k - i] ELSE s[k]
    BY <1>1 DEF Overlay
  <2>2. \A k \in 1 .. Len(s) : k \in i + 1 .. i + Len(d) <=> ~(k <= i)
    BY <1>1
  <2> HIDE DEF o
  <2>3. QED
    BY <2>1, <2>2
<1> HIDE DEF o, q
<1>5. \A k \in 1 .. Len(o) : o[k] = q[k]
  <2>1. ASSUME NEW k \in 1 .. Len(s) PROVE o[k] = q[k]
    <3>1. CASE k <= i
      <4>1. k \in 1 .. i
        BY <3>1
      <4>2. QED
        BY <1>2, <1>3, <1>4, <3>1, <4>1
    <3>2. CASE ~(k <= i)
      BY <1>3, <1>4, <3>2
    <3>3. QED
      BY <3>1, <3>2
  <2>2. QED
    BY <1>1, <2>1
<1>6. QED
  BY <1>1, <1>3, <1>5, SeqEqual DEF o, q, p

\* What follows the first off bytes of a text, and its first newline.
IsTail(text, off, w) ==
  /\ w \in Seq(Nat) /\ Len(w) = Len(text) - off
  /\ \A m \in 1 .. Len(text) - off : w[m] = text[off + m]
IsFirst(w, n) ==
  /\ n \in 0 .. Len(w)
  /\ n = 0 => \A i \in 1 .. Len(w) : w[i] # NL
  /\ n # 0 => w[n] = NL /\ \A i \in 1 .. n - 1 : w[i] # NL

\* The first bytes of a tail, as a part of the text.
LEMMA PartOfTail ==
  ASSUME NEW text \in Seq(Nat), NEW off \in 0 .. Len(text), NEW w, NEW n \in 0 .. Len(w),
         IsTail(text, off, w)
  PROVE  SubSeq(w, 1, n) = SubSeq(text, off + 1, off + n)
<1> DEFINE x == SubSeq(w, 0 + 1, n)
           y == SubSeq(text, off + 1, off + n)
           L == Len(text)
<1>1. w \in Seq(Nat) /\ Len(w) = L - off /\ L \in Nat /\ off \in 0 .. L /\ Len(w) \in Nat
  BY DEF IsTail
<1> HIDE DEF L
<1>2. /\ 0 <= n /\ n <= Len(w) /\ n - 0 = n /\ n \in Nat /\ 0 + 1 = 1
      /\ off \in Nat /\ off <= off + n /\ off + n <= L /\ (off + n) - off = n /\ off + n \in Nat
  BY <1>1
<1>3. x \in Seq(Nat) /\ Len(x) = n /\ \A m \in 1 .. n : x[m] = w[0 + m]
  BY <1>1, <1>2, PartOfSeq
<1>4. y \in Seq(Nat) /\ Len(y) = n /\ \A m \in 1 .. n : y[m] = text[off + m]
  BY <1>2, PartOfSeq DEF L
<1> HIDE DEF x, y
<1>5. \A m \in 1 .. n : m \in 1 .. L - off /\ 0 + m = m
  BY <1>1, <1>2
<1>6. \A m \in 1 .. L - off : w[m] = text[off + m]
  BY DEF IsTail, L
<1>7. \A m \in 1 .. Len(x) : x[m] = y[m]
  BY <1>3, <1>4, <1>5, <1>6
<1>8. x = y
  BY <1>3, <1>4, <1>7, SeqEqual
<1>9. QED
  BY <1>2, <1>8 DEF x, y

\* memchr from the end of the first k lines on finds the end of the next one ...
LEMMA NextLineEnd ==
  ASSUME NEW text \in Seq(Nat), NEW k \in 0 .. Len(Device!Ends(text)),
         NEW w, NEW n, IsTail(text, EndOf(text, k), w), IsFirst(w, n), n > 0
  PROVE  /\ k + 1 \in 1 .. Len(Device!Ends(text)) /\ EndOf(text, k + 1) = EndOf(text, k) + n
<1> DEFINE L == Len(text)
           off == EndOf(text, k)
<1>1. off \in 0 .. L /\ L \in Nat
  BY EndOfRank
<1>2. Len(w) = L - off /\ n \in 1 .. L - off /\ off + n \in 1 .. L /\ off < off + n
  <2>1. Len(w) = L - off /\ n \in 0 .. Len(w)
    BY DEF IsTail, IsFirst
  <2> HIDE DEF L, off
  <2>2. QED
    BY <1>1, <2>1
<1>3. off + n \in Newlines(text)
  <2>1. text[off + n] = NL
    <3>1. w[n] = text[off + n]
      BY <1>2 DEF IsTail
    <3>2. w[n] = NL
      BY <1>2 DEF IsFirst
    <3>3. QED
      BY <3>1, <3>2
  <2>2. QED
    BY <1>2, <2>1 DEF Newlines
<1>4. \A i \in Newlines(text) : i < off + n => i <= off
  <2>1. ASSUME NEW i \in Newlines(text), i < off + n, ~(i <= off) PROVE FALSE
    <3>1. i \in 1 .. L /\ text[i] = NL
      BY DEF Newlines
    <3>2. i - off \in 1 .. n - 1 /\ i - off \in 1 .. L - off /\ off + (i - off) = i
      <4> HIDE DEF L, off
      <4>1. QED
        BY <1>1, <1>2, <2>1, <3>1
    <3>3. w[i - off] = NL
      BY <3>1, <3>2 DEF IsTail
    <3>4. w[i - off] # NL
      BY <1>2, <3>2 DEF IsFirst
    <3>5. QED
      BY <3>3, <3>4
  <2>2. QED
    BY <2>1
<1>5. QED
  BY <1>2, <1>3, <1>4, NextEnd

\* ... and where it finds none, there is no further line.
LEMMA NoNextLine ==
  ASSUME NEW text \in Seq(Nat), NEW k \in 0 .. Len(Device!Ends(text)),
         NEW w, IsTail(text, EndOf(text, k), w), IsFirst(w, 0)
  PROVE  k = Len(Device!Ends(text))
<1> DEFINE L == Len(text)
           off == EndOf(text, k)
<1>1. off \in 0 .. L /\ L \in Nat
  BY EndOfRank
<1>2. \A i \in Newlines(text) : i <= off
  <2>1. ASSUME NEW i \in Newlines(text), ~(i <= off) PROVE FALSE
    <3>1. i \in 1 .. L /\ text[i] = NL
      BY DEF Newlines
    <3>2. i - off \in 1 .. L - off /\ off + (i - off) = i
      <4> HIDE DEF L, off
      <4>1. QED
        BY <1>1, <2>1, <3>1
    <3>3. w[i - off] = NL /\ Len(w) = L - off
      BY <3>1, <3>2 DEF IsTail
    <3>4. QED
      BY <3>2, <3>3 DEF IsFirst
  <2>2. QED
    BY <2>1
<1>3. QED
  BY <1>2, LastEnd

\* So the loop of aesd_write finds the lines of the text one after the other.
Finds(text, k, w, n) ==
  /\ n > 0 => /\ k + 1 \in 0 .. Len(Device!Ends(text))
              /\ k \in 0 .. Len(Device!LinesOf(text)) - 1
              /\ EndOf(text, k + 1) = EndOf(text, k) + n
              /\ SubSeq(w, 1, n) = Device!LinesOf(text)[k + 1]
  /\ n = 0 => k = Len(Device!Ends(text)) /\ w = Device!RestOf(text)

\* The next newline ends the next line; when there is none the rest is left.
LEMMA NextLine ==
  ASSUME NEW text \in Seq(Nat), NEW k \in 0 .. Len(Device!Ends(text)),
         NEW w, w = SubSeq(text, EndOf(text, k) + 1, Len(text)),
         NEW n, n = FirstAt(w, NL)
  PROVE  Finds(text, k, w, n)
<1> DEFINE L == Len(text)
           E == Len(Device!Ends(text))
           off == EndOf(text, k)
<1>1. off \in 0 .. L /\ L \in Nat /\ E \in Nat
  BY EndOfRank, EndsByRank
<1>2. IsTail(text, off, w)
  <2>1. off \in Nat /\ off <= L /\ L <= L
    BY <1>1
  <2>2. QED
    BY <1>1, <2>1, PartOfSeq DEF IsTail
<1>3. IsFirst(w, n)
  <2>1. w \in Seq(Nat)
    BY <1>2 DEF IsTail
  <2>2. IsFirst(w, FirstAt(w, NL))
    BY <2>1, FirstByte, ZenonT(40) DEF IsFirst
  <2>3. QED
    BY <2>2
<1>4. w \in Seq(Nat) /\ n \in 0 .. Len(w) /\ Len(w) = L - off
  BY <1>2, <1>3 DEF IsTail, IsFirst
<1>5. ASSUME n > 0
      PROVE  /\ k + 1 \in 0 .. E /\ k \in 0 .. Len(Device!LinesOf(text)) - 1
             /\ EndOf(text, k + 1) = off + n
             /\ SubSeq(w, 1, n) = Device!LinesOf(text)[k + 1]
  <2>1. k + 1 \in 1 .. E /\ EndOf(text, k + 1) = off + n
    BY <1>2, <1>3, <1>5, NextLineEnd
  <2>2. Len(Device!LinesOf(text)) = E /\ k \in 0 .. E - 1 /\ k + 1 \in 0 .. E
    <3>1. k \in 0 .. E - 1 /\ k + 1 \in 0 .. E
      <4> HIDE DEF E
      <4>1. k \in 0 .. E
        BY DEF E
      <4>2. QED
        BY <1>1, <2>1, <4>1
    <3>2. QED
      BY <3>1, LinesByEnds
  <2>3. Device!LinesOf(text)[k + 1] = SubSeq(text, off + 1, off + n)
    BY <2>1, <2>2, LinesByEnds
  <2>4. SubSeq(w, 1, n) = SubSeq(text, off + 1, off + n)
    <3>1. off \in 0 .. Len(text) /\ n \in 0 .. Len(w) /\ IsTail(text, off, w)
      BY <1>1, <1>2, <1>4
    <3> HIDE DEF off
    <3>2. QED
      BY <3>1, PartOfTail, Zenon
  <2>5. QED
    BY <2>1, <2>2, <2>3, <2>4
<1>6. ASSUME n = 0 PROVE k = E /\ w = Device!RestOf(text)
  <2>1. IsFirst(w, 0)
    BY <1>3, <1>6
  <2>2. k = E
    BY <1>2, <2>1, NoNextLine
  <2>3. QED
    BY <2>2, RestByEnds
<1>7. QED
  BY <1>5, <1>6 DEF Finds

(* ------------------ what the device holds, and writes ------------------ *)

\* The labels from the free of the old unfinished line to the end of a write; those
\* with the lock held; those before the loop; those with a filled buffer.
Late == {"clear_partial", "lock", "store", "oops", "unlock"}
Locking == {"store", "oops", "unlock", "reading", "seeking", "adjusting"}
BeforeLoop == {"restart", "alloc", "copy_partial", "copy_user", "free_partial",
               "clear_partial", "lock"}
Filled == {"free_partial", "clear_partial", "lock", "store"}

VisibleTypes ==
  /\ visible \in [lines : Seq(Seq(Nat)), rest : Seq(Nat), ok : BOOLEAN]
  /\ Len(visible.lines) <= N

\* The task that holds the lock is the one between its lock and its unlock.
Holder ==
  /\ lock \in Task \cup {Nobody}
  /\ \A t \in Task : pc[t] \in Locking <=> lock = t

\* What the programs see: the unfinished line as long as nobody is replacing it ...
RestStands ==
  loaded => /\ InputsAreLines => visible.rest = << >>
            /\ (\A t \in Writer : pc[t] \notin Late) => visible.rest = Bytes(partial)

\* ... and the lines of the ring while no writer holds the lock.
RingIsVisible == loaded /\ lock \notin Writer => visible.lines = StoredLines

\* The text that a write has to store, and that its first k lines are in the ring.
Whole(t) == visible.rest \o call[t].data
Kept(t, k) ==
  StoredLines = Device!LastLines(visible.lines \o SubSeq(Device!LinesOf(Whole(t)), 1, k))

\* How far a write is: the buffer takes up the text, the loop has stored the lines
\* before off, and at the end either all of it is stored or the write reports an error.
InLoop(t, k) == call[t].off = EndOf(Whole(t), k) /\ Kept(t, k)
AtEnd(t, k) ==
  /\ Kept(t, k)
  /\ \/ /\ call[t].ret >= 0 /\ k = Len(Device!Ends(Whole(t)))
        /\ Bytes(partial) = Device!RestOf(Whole(t))
     \/ ~(call[t].ret >= 0) /\ Bytes(partial) = << >> /\ Failures # {}
WriterText(t) ==
  /\ pc[t] \in BeforeLoop => call[t].off = 0
  /\ pc[t] = "copy_user" => SubSeq(mem[call[t].buffer], 1, partial.size) = Bytes(partial)
  /\ pc[t] \in Filled => mem[call[t].buffer] = Whole(t)
  /\ pc[t] = "store" => \E k \in 0 .. Len(Device!Ends(Whole(t))) : InLoop(t, k)
  /\ pc[t] = "unlock" => \E k \in 0 .. Len(Device!Ends(Whole(t))) : AtEnd(t, k)

TextInv ==
  /\ VisibleTypes /\ Holder /\ RestStands /\ RingIsVisible
  /\ \A t \in Writer : WriterText(t)

\* The bytes of the unfinished line.
LEMMA PartialBytes ==
  ASSUME Inv
  PROVE  /\ Bytes(partial) \in Seq(Nat)
         /\ partial.buffptr \notin Live => Bytes(partial) = << >>
         /\ partial = EmptyEntry => Bytes(partial) = << >>
         /\ partial.buffptr \in Live => /\ Bytes(partial) = mem[partial.buffptr]
                                        /\ Len(Bytes(partial)) = partial.size
<1>1. partial.buffptr \notin Live => Bytes(partial) = << >>
  BY DEF Bytes
<1>2. partial = EmptyEntry => partial.buffptr \notin Live
  BY NullAssumption DEF EmptyEntry, Inv, StoreTypes
<1>3. ASSUME partial.buffptr \in Live
      PROVE  /\ Bytes(partial) = mem[partial.buffptr] /\ Bytes(partial) \in Seq(Nat)
             /\ Len(Bytes(partial)) = partial.size
  <2> DEFINE m == mem[partial.buffptr]
  <2>1. m \in Seq(Nat) /\ partial.size = Len(m)
    BY <1>3 DEF Inv, StoreTypes, PointersLive
  <2>2. Bytes(partial) = SubSeq(m, 1, Len(m))
    BY <1>3, <2>1 DEF Bytes
  <2> HIDE DEF m
  <2>3. SubSeq(m, 1, Len(m)) = m
    BY <2>1, SubSeqFull
  <2>4. QED
    BY <2>1, <2>2, <2>3 DEF m
<1>4. Bytes(partial) \in Seq(Nat)
  <2>1. << >> \in Seq(Nat)
    OBVIOUS
  <2>2. QED
    BY <1>1, <1>3, <2>1
<1>5. QED
  BY <1>1, <1>2, <1>3, <1>4

\* The bytes of a slot.
LEMMA SlotBytes ==
  ASSUME Inv, NEW i \in Slot
  PROVE  /\ Bytes(entry[i]) \in Seq(Nat)
         /\ entry[i].buffptr \notin Live => Bytes(entry[i]) = << >>
         /\ entry[i].buffptr \in Live => /\ Bytes(entry[i]) = mem[entry[i].buffptr]
                                         /\ Len(Bytes(entry[i])) = entry[i].size
<1>1. entry[i].buffptr \notin Live => Bytes(entry[i]) = << >>
  BY DEF Bytes
<1>2. ASSUME entry[i].buffptr \in Live
      PROVE  /\ Bytes(entry[i]) = mem[entry[i].buffptr] /\ Bytes(entry[i]) \in Seq(Nat)
             /\ Len(Bytes(entry[i])) = entry[i].size
  <2> DEFINE m == mem[entry[i].buffptr]
  <2>1. m \in Seq(Nat) /\ entry[i].size = Len(m)
    BY <1>2, NullAssumption DEF Inv, StoreTypes, PointersLive
  <2>2. Bytes(entry[i]) = SubSeq(m, 1, Len(m))
    BY <1>2, <2>1 DEF Bytes
  <2> HIDE DEF m
  <2>3. SubSeq(m, 1, Len(m)) = m
    BY <2>1, SubSeqFull
  <2>4. QED
    BY <2>1, <2>2, <2>3 DEF m
<1>3. Bytes(entry[i]) \in Seq(Nat)
  <2>1. << >> \in Seq(Nat)
    OBVIOUS
  <2>2. QED
    BY <1>1, <1>2, <2>1
<1>4. QED
  BY <1>1, <1>2, <1>3

\* The k-th stored line lies in a slot.
LEMMA StoredSlot ==
  ASSUME Inv, loaded
  PROVE  /\ Count \in 0 .. N /\ Stored \in Seq(BufferEntry) /\ Len(Stored) = Count
         /\ \A k \in 1 .. Count : /\ (out_offs + k - 1) % N \in Slot
                                  /\ Stored[k] = entry[(out_offs + k - 1) % N]
<1>1. BufferTypeOK /\ RingInv
  BY DEF Inv, StoreTypes, CallsKeepLoaded
<1>2. /\ Count \in 0 .. N /\ Stored \in Seq(BufferEntry) /\ Len(Stored) = Count
      /\ \A k \in 1 .. Count : Stored[k] = entry[(out_offs + k - 1) % N]
  BY <1>1, StoredIsSeq
<1>3. out_offs \in Slot /\ N \in Nat
  BY <1>1, NAssumption DEF BufferTypeOK
<1>4. ASSUME NEW k \in 1 .. Count PROVE (out_offs + k - 1) % N \in Slot
  <2>1. k - 1 \in 0 .. N /\ out_offs + (k - 1) = out_offs + k - 1
    BY <1>2, <1>3 DEF Slot
  <2>2. (out_offs + (k - 1)) % N \in Slot
    BY <1>3, <2>1, SlotAfter
  <2>3. QED
    BY <2>1, <2>2
<1>5. QED
  BY <1>2, <1>4

\* The stored lines are sequences of bytes, as many as the ring counts.
LEMMA StoredLinesTyped ==
  ASSUME Inv, loaded
  PROVE  StoredLines \in Seq(Seq(Nat)) /\ Len(StoredLines) = Count /\ Count \in 0 .. N
<1>1. Count \in 0 .. N
  BY StoredSlot
<1>2. \A k \in 1 .. Count : Bytes(Stored[k]) \in Seq(Nat)
  BY StoredSlot, SlotBytes
<1>3. StoredLines \in [1 .. Count -> Seq(Nat)]
  BY <1>2 DEF StoredLines
<1>4. QED
  BY <1>1, <1>3

\* The stored lines change only with the ring or the memory of its slots.
LEMMA StoredLinesKept ==
  ASSUME Inv, loaded, UNCHANGED ring,
         \A i \in Slot : /\ entry[i].buffptr \in Live' <=> entry[i].buffptr \in Live
                         /\ entry[i].buffptr \in Live =>
                              mem'[entry[i].buffptr] = mem[entry[i].buffptr]
  PROVE  StoredLines' = StoredLines
<1>1. Count' = Count /\ Stored' = Stored
  BY DEF Count, Stored, ring, bufferVars
<1>2. \A i \in Slot : Bytes(entry[i])' = Bytes(entry[i])
  BY DEF Bytes, Live, ring, bufferVars
<1>3. \A k \in 1 .. Count : Bytes(Stored[k])' = Bytes(Stored[k])
  <2>1. ASSUME NEW k \in 1 .. Count PROVE Bytes(Stored[k])' = Bytes(Stored[k])
    <3>1. PICK i \in Slot : Stored[k] = entry[i]
      BY StoredSlot
    <3>2. Stored'[k] = entry'[i] /\ entry' = entry
      BY <1>1, <3>1 DEF ring, bufferVars
    <3>3. QED
      BY <1>2, <3>1, <3>2 DEF Bytes
  <2>2. QED
    BY <2>1
<1>4. QED
  BY <1>1, <1>3 DEF StoredLines

\* Nobody is replacing the unfinished line while a write is not that far: with one
\* writer nobody else is there, and writers of whole lines have none.
LEMMA RestIsPartial ==
  ASSUME OneWriter \/ InputsAreLines, Inv, RestStands, loaded, NEW t \in Writer,
         pc[t] \notin Late
  PROVE  visible.rest = Bytes(partial)
<1>1. CASE OneWriter
  <2>1. \A u \in Writer : pc[u] \notin Late
    BY <1>1 DEF OneWriter
  <2>2. QED
    BY <2>1 DEF RestStands
<1>2. CASE InputsAreLines
  <2>1. partial = EmptyEntry /\ visible.rest = << >>
    BY <1>2 DEF Inv, NothingUnfinished, RestStands
  <2>2. QED
    BY <2>1, PartialBytes
<1>3. QED
  BY <1>1, <1>2

\* What a writer has put together is a sequence of bytes, and so is what it adds to.
LEMMA WholeTyped ==
  ASSUME Inv, VisibleTypes, NEW t \in Writer, pc[t] # "idle"
  PROVE  /\ Whole(t) \in Seq(Nat) /\ visible.rest \in Seq(Nat) /\ call[t].data \in Seq(Nat)
         /\ visible.lines \in Seq(Seq(Nat)) /\ loaded /\ call[t].data \in Inputs
<1>1. visible.rest \in Seq(Nat) /\ visible.lines \in Seq(Seq(Nat))
  BY DEF VisibleTypes
<1>2. call[t].data \in Seq(Nat) /\ call[t].data \in Inputs
  BY DriverAssumption DEF Inv, TaskTypes
<1>3. loaded
  BY DEF Inv, CallsKeepLoaded, Task
<1>4. Whole(t) \in Seq(Nat)
  BY <1>1, <1>2, ConcatProperties DEF Whole
<1>5. QED
  BY <1>1, <1>2, <1>3, <1>4

\* Another writer of whole lines goes on where it was.
LEMMA OtherKeepsText ==
  ASSUME InputsAreLines, Inv, Inv', RestStands, RestStands', loaded, loaded',
         NEW u \in Writer, WriterText(u), pc'[u] = pc[u], call'[u] = call[u],
         pc[u] \in WithBuffer => mem'[call[u].buffer] = mem[call[u].buffer],
         pc[u] \in {"store", "unlock"} =>
           StoredLines' = StoredLines /\ visible'.lines = visible.lines
  PROVE  WriterText(u)'
<1>1. partial = EmptyEntry /\ partial' = EmptyEntry
  BY DEF Inv, NothingUnfinished
<1>2. visible.rest = << >> /\ visible'.rest = << >>
  BY DEF RestStands
<1>3. Bytes(partial) = << >>
  BY <1>1, PartialBytes
<1>4. Bytes(partial)' = << >>
  BY <1>1, NullAssumption DEF Bytes, EmptyEntry, Inv, StoreTypes
<1>5. Whole(u)' = Whole(u)
  BY <1>2 DEF Whole
<1>6. pc[u] \in {"store", "unlock"} => \A k : Kept(u, k)' <=> Kept(u, k)
  BY <1>5 DEF Kept
<1>7. (pc[u] \in BeforeLoop => call[u].off = 0)'
  BY DEF WriterText
<1>8. (pc[u] = "copy_user" => SubSeq(mem[call[u].buffer], 1, partial.size) = Bytes(partial))'
  BY <1>1, <1>3, <1>4 DEF WriterText, WithBuffer
<1>9. (pc[u] \in Filled => mem[call[u].buffer] = Whole(u))'
  BY <1>5 DEF WriterText, WithBuffer, Filled
<1>10. (pc[u] = "store" => \E k \in 0 .. Len(Device!Ends(Whole(u))) : InLoop(u, k))'
  <2>1. SUFFICES ASSUME pc[u] = "store"
                 PROVE  (\E k \in 0 .. Len(Device!Ends(Whole(u))) : InLoop(u, k))'
    OBVIOUS
  <2>2. PICK k \in 0 .. Len(Device!Ends(Whole(u))) : InLoop(u, k)
    BY <2>1 DEF WriterText
  <2>3. InLoop(u, k)'
    BY <1>5, <1>6, <2>1, <2>2 DEF InLoop
  <2>4. QED
    BY <1>5, <2>3
<1>11. (pc[u] = "unlock" => \E k \in 0 .. Len(Device!Ends(Whole(u))) : AtEnd(u, k))'
  <2>1. SUFFICES ASSUME pc[u] = "unlock"
                 PROVE  (\E k \in 0 .. Len(Device!Ends(Whole(u))) : AtEnd(u, k))'
    OBVIOUS
  <2>2. PICK k \in 0 .. Len(Device!Ends(Whole(u))) : AtEnd(u, k)
    BY <2>1 DEF WriterText
  <2>3. AtEnd(u, k)'
    BY <1>3, <1>4, <1>5, <1>6, <2>1, <2>2 DEF AtEnd
  <2>4. QED
    BY <1>5, <2>3
<1>12. QED
  BY <1>7, <1>8, <1>9, <1>10, <1>11 DEF WriterText

\* So a step of one writer need only be followed for that writer.
Alone(t) ==
  \A u \in Writer : u # t =>
    /\ pc'[u] = pc[u] /\ call'[u] = call[u]
    /\ pc[u] \in WithBuffer => mem'[call[u].buffer] = mem[call[u].buffer]
    /\ pc[u] \in {"store", "unlock"} =>
         StoredLines' = StoredLines /\ visible'.lines = visible.lines

\* A step of a writer that is alone: the other writers need no looking after.
LEMMA WriterKeepsText ==
  ASSUME OneWriter \/ InputsAreLines, Inv, Inv', TextInv, NEW t \in Writer, loaded, loaded',
         Alone(t), VisibleTypes', Holder', RestStands', RingIsVisible', WriterText(t)'
  PROVE  TextInv'
<1>1. ASSUME NEW u \in Writer PROVE WriterText(u)'
  <2>1. CASE u = t
    BY <2>1
  <2>2. CASE u # t
    <3>1. InputsAreLines
      BY <2>2 DEF OneWriter
    <3>2. QED
      BY <2>2, <3>1, OtherKeepsText DEF TextInv, Alone
  <2>3. QED
    BY <2>1, <2>2
<1>2. QED
  BY <1>1 DEF TextInv

\* A step with no lock or unlock.
LEMMA HolderKept ==
  ASSUME Holder, NEW t \in Task, \A u \in Task : u # t => pc'[u] = pc[u],
         lock' = lock, pc'[t] \in Locking <=> pc[t] \in Locking
  PROVE  Holder'
<1>1. \A u \in Task : pc'[u] \in Locking <=> pc[u] \in Locking
  OBVIOUS
<1>2. QED
  BY <1>1 DEF Holder

\* Where another writer's step may not reach: memory but its own buffer and the
\* unfinished line.
MemoryKept(t) ==
  \A p \in Live : p # call[t].buffer /\ p # partial.buffptr =>
                    p \in Live' /\ mem'[p] = mem[p]

\* What the slots of the ring hold stays when the step frees none of it.
LEMMA SlotsKept ==
  ASSUME Inv, Inv', NEW t \in Writer, MemoryKept(t), UNCHANGED ring
  PROVE  \A i \in Slot : /\ entry[i].buffptr \in Live' <=> entry[i].buffptr \in Live
                         /\ entry[i].buffptr \in Live =>
                              mem'[entry[i].buffptr] = mem[entry[i].buffptr]
<1>1. SUFFICES ASSUME NEW i \in Slot
               PROVE  /\ entry[i].buffptr \in Live' <=> entry[i].buffptr \in Live
                      /\ entry[i].buffptr \in Live =>
                           mem'[entry[i].buffptr] = mem[entry[i].buffptr]
  OBVIOUS
<1> DEFINE p == entry[i].buffptr
<1>2. NULL \notin Live /\ NULL \notin Live'
  BY NullAssumption DEF Inv, StoreTypes
<1>3. p # NULL => p # call[t].buffer /\ p # partial.buffptr
  BY DEF Inv, Unshared, Task
<1>4. p \in Live => p \in Live' /\ mem'[p] = mem[p]
  <2> HIDE DEF p
  <2>1. QED
    BY <1>2, <1>3 DEF MemoryKept
<1>5. p \notin Live => p = NULL
  BY DEF Inv, PointersLive
<1>6. QED
  BY <1>2, <1>4, <1>5

\* A step before or after the loop, or one that leaves it: the ring, the lock and what
\* the programs see stay.
LEMMA QuietStep ==
  ASSUME OneWriter \/ InputsAreLines, Inv, Inv', TextInv, NEW t \in Writer, loaded, loaded',
         \A u \in Task : u # t => pc'[u] = pc[u] /\ call'[u] = call[u],
         MemoryKept(t), UNCHANGED <<ring, lock, visible>>,
         pc'[t] \in Locking <=> pc[t] \in Locking,
         pc'[t] \in Late \/ (pc[t] \notin Late /\ Bytes(partial)' = Bytes(partial)),
         WriterText(t)'
  PROVE  TextInv'
<1>1. StoredLines' = StoredLines
  BY SlotsKept, StoredLinesKept
<1>2. \A u \in Writer : u # t /\ pc[u] \in WithBuffer =>
        mem'[call[u].buffer] = mem[call[u].buffer]
  <2>1. SUFFICES ASSUME NEW u \in Writer, u # t, pc[u] \in WithBuffer
                 PROVE  mem'[call[u].buffer] = mem[call[u].buffer]
    OBVIOUS
  <2>2. call[u].buffer \in Live /\ call[u].buffer # NULL
    BY <2>1, NullAssumption DEF Inv, Buffers, StoreTypes
  <2>3. call[u].buffer # call[t].buffer /\ call[u].buffer # partial.buffptr
    BY <2>1, <2>2 DEF Inv, Unshared, Task
  <2>4. QED
    BY <2>2, <2>3 DEF MemoryKept
<1>3. Alone(t)
  BY <1>1, <1>2 DEF Alone, Task
<1>4. VisibleTypes'
  BY DEF TextInv, VisibleTypes
<1>5. Holder'
  BY HolderKept DEF TextInv, Task
<1>6. RingIsVisible'
  BY <1>1 DEF TextInv, RingIsVisible
<1>7. RestStands'
  <2>1. InputsAreLines => visible'.rest = << >>
    BY DEF TextInv, RestStands
  <2>2. ASSUME \A u \in Writer : pc'[u] \notin Late
        PROVE  visible'.rest = Bytes(partial)'
    <3>1. \A u \in Writer : pc[u] \notin Late
      BY <2>2 DEF Task
    <3>2. QED
      BY <2>2, <3>1 DEF TextInv, RestStands
  <2>3. QED
    BY <2>1, <2>2 DEF RestStands
<1>8. QED
  BY <1>3, <1>4, <1>5, <1>6, <1>7, WriterKeepsText

\* aesd_write is called.
LEMMA WriteCallKeepsText ==
  ASSUME OneWriter \/ InputsAreLines, Inv, Inv', TextInv, NEW t \in Writer,
         NEW f \in File, NEW data \in Inputs, WriteCall(t, f, data)
  PROVE  TextInv'
<1> DEFINE c == [WithFpos(f) EXCEPT !.data = data, !.count = Len(data)]
<1>1. /\ pc[t] = "idle" /\ f \in opened
      /\ call' = [call EXCEPT ![t] = c] /\ pc' = [pc EXCEPT ![t] = "alloc"]
      /\ UNCHANGED <<ring, partial, mem, loaded, lock, visible>>
  BY DEF WriteCall, Enter, Goto, store
<1>2. c.off = 0
  BY DEF WithFpos, NoCall
<1> HIDE DEF c
<1>3. /\ pc'[t] = "alloc" /\ call'[t] = c
      /\ \A u \in Task : u # t => pc'[u] = pc[u] /\ call'[u] = call[u]
  BY <1>1, OtherTasks DEF Inv
<1>4. loaded /\ loaded'
  BY <1>1 DEF Inv, CallsKeepLoaded
<1>5. MemoryKept(t) /\ Bytes(partial)' = Bytes(partial)
  BY <1>1 DEF MemoryKept, Live, Bytes
<1>6. WriterText(t)'
  BY <1>2, <1>3 DEF WriterText, Filled
<1>7. QED
  BY <1>1, <1>3, <1>4, <1>5, <1>6, QuietStep DEF Locking, Late

\* The working buffer is allocated.
LEMMA AllocKeepsText ==
  ASSUME OneWriter \/ InputsAreLines, Inv, Inv', TextInv, NEW t \in Writer, NEW bytes,
         pc[t] = "alloc", mem' = MemAfter(NewPtr, bytes, {}),
         call' = [call EXCEPT ![t].buffer = NewPtr], pc' = [pc EXCEPT ![t] = "copy_partial"],
         UNCHANGED <<ring, partial, lock, loaded, visible>>
  PROVE  TextInv'
<1> DEFINE p == NewPtr
           c == [call[t] EXCEPT !.buffer = p]
<1>1. p \notin Live /\ p \notin Referenced
  BY FreshPtr DEF Inv
<1>2. c.off = call[t].off /\ call' = [call EXCEPT ![t] = c]
  BY DEF Inv, TaskTypes, Task, CallFields
<1>3. /\ Live' = Live \cup {p} /\ \A q \in Live : mem'[q] = mem[q]
  <2> HIDE DEF p
  <2>1. mem' = MemAfter(p, bytes, {})
    BY DEF p
  <2>2. QED
    BY <1>1, <2>1 DEF MemAfter, Live
<1> HIDE DEF p, c
<1>4. /\ pc'[t] = "copy_partial" /\ call'[t] = c
      /\ \A u \in Task : u # t => pc'[u] = pc[u] /\ call'[u] = call[u]
  <2>1. TaskTypes /\ pc' = [pc EXCEPT ![t] = "copy_partial"]
    BY DEF Inv
  <2>2. /\ t \in Task /\ t \notin Reader
        /\ pc'[t] = "copy_partial" /\ call'[t] = c
        /\ \A u \in Task : u # t => pc'[u] = pc[u] /\ call'[u] = call[u]
        /\ \A u \in Writer : u \in Task
        /\ \A u \in Reader : u \in Task /\ u # t
    BY <1>2, <2>1, OtherTasks
  <2>3. QED
    BY <2>2
<1>5. loaded
  BY WholeTyped DEF TextInv
<1>6. MemoryKept(t)
  BY <1>3 DEF MemoryKept
<1>7. Bytes(partial)' = Bytes(partial)
  <2>1. partial.buffptr # p
    BY <1>1 DEF Referenced
  <2>2. QED
    BY <1>3, <2>1 DEF Bytes, Live
<1>8. WriterText(t)'
  BY <1>2, <1>4 DEF TextInv, WriterText, BeforeLoop, Filled
<1>9. QED
  BY <1>4, <1>5, <1>6, <1>7, <1>8, QuietStep DEF Locking, Late

\* The unfinished line is copied to the buffer.
LEMMA CopyPartialKeepsText ==
  ASSUME OneWriter \/ InputsAreLines, Inv, Inv', TextInv, NEW t \in Writer,
         CopyPartial(t), ~UsesFreed(t)
  PROVE  TextInv'
<1> DEFINE b == mem[call[t].buffer]
           bytes == WithPartial(b)
<1>1. /\ pc[t] = "copy_partial" /\ pc' = [pc EXCEPT ![t] = "copy_user"]
      /\ UNCHANGED <<ring, partial, loaded, lock, call, visible>>
  BY DEF CopyPartial, Goto
<1>2. call[t].buffer \in Live /\ b \in Seq(Nat) /\ call[t].buffer # NULL
  BY <1>1, NullAssumption DEF Inv, Buffers, WithBuffer, StoreTypes
<1>3. mem' = [mem EXCEPT ![call[t].buffer] = bytes]
  BY <1>2 DEF CopyPartial, Live
<1>4. /\ Live' = Live /\ mem'[call[t].buffer] = bytes
      /\ \A q \in Live : q # call[t].buffer => mem'[q] = mem[q]
  <2> HIDE DEF bytes
  <2>1. QED
    BY <1>2, <1>3 DEF Inv, StoreTypes, Live
<1>5. SubSeq(bytes, 1, partial.size) = Bytes(partial)
  <2>1. CASE partial.buffptr = NULL
    <3>1. partial.size = 0 /\ Bytes(partial) = << >>
      BY <2>1, NullAssumption, PartialBytes DEF Inv, StoreTypes
    <3>2. SubSeq(bytes, 1, 0) = << >>
      <4> HIDE DEF bytes
      <4>1. QED
        BY SubSeqEmpty
    <3>3. QED
      BY <3>1, <3>2
  <2>2. CASE partial.buffptr # NULL
    <3>1. partial.buffptr \in Live
      BY <1>1, <2>2 DEF UsesFreed
    <3>2. Bytes(partial) \in Seq(Nat) /\ Len(Bytes(partial)) = partial.size
      BY <3>1, PartialBytes
    <3>3. Len(b) = partial.size + call[t].count /\ call[t].count \in Nat
      <4>1. call[t].count = Len(call[t].data) /\ call[t].data \in Seq(Nat)
        BY <1>1, DriverAssumption DEF Inv, TaskTypes
      <4>2. Len(b) = partial.size + call[t].count
        BY <1>1 DEF Inv, PartialStands
      <4> HIDE DEF b
      <4>3. QED
        BY <4>1, <4>2
    <3>4. bytes = Overlay(b, 0, Bytes(partial))
      BY <2>2 DEF WithPartial
    <3>5. Len(Bytes(partial)) <= Len(b)
      <4> HIDE DEF b
      <4>1. QED
        BY <3>2, <3>3
    <3> HIDE DEF b, bytes
    <3>6. QED
      BY <1>2, <3>2, <3>4, <3>5, OverlayPrefix
  <2>3. QED
    BY <2>1, <2>2
<1> HIDE DEF bytes, b
<1>6. /\ pc'[t] = "copy_user"
      /\ \A u \in Task : u # t => pc'[u] = pc[u] /\ call'[u] = call[u]
  BY <1>1 DEF Inv, TaskTypes, Task
<1>7. loaded
  BY <1>1, WholeTyped DEF TextInv
<1>8. MemoryKept(t)
  BY <1>4 DEF MemoryKept
<1>9. Bytes(partial)' = Bytes(partial)
  <2>1. partial.buffptr # call[t].buffer
    BY <1>2 DEF Inv, Unshared, Task
  <2>2. QED
    BY <1>1, <1>4, <2>1 DEF Bytes
<1>10. WriterText(t)'
  <2>1. (pc[t] = "copy_user" => SubSeq(mem[call[t].buffer], 1, partial.size) = Bytes(partial))'
    BY <1>1, <1>4, <1>5, <1>9
  <2>2. call'[t].off = 0
    BY <1>1 DEF TextInv, WriterText, BeforeLoop
  <2>3. QED
    BY <1>6, <2>1, <2>2 DEF WriterText, Filled
<1>11. QED
  BY <1>1, <1>6, <1>7, <1>8, <1>9, <1>10, QuietStep DEF Locking, Late

\* The caller's bytes are copied behind it: the buffer holds the text to be stored.
LEMMA CopyUserKeepsText ==
  ASSUME OneWriter \/ InputsAreLines, Inv, Inv', TextInv, NEW t \in Writer,
         pc[t] = "copy_user",
         mem' = [mem EXCEPT ![call[t].buffer] = Overlay(@, partial.size, call[t].data)],
         pc' = [pc EXCEPT ![t] = "free_partial"],
         UNCHANGED <<ring, partial, loaded, lock, call, visible>>
  PROVE  TextInv'
<1> DEFINE b == mem[call[t].buffer]
           d == call[t].data
           bytes == Overlay(b, partial.size, d)
<1>1. call[t].buffer \in Live /\ b \in Seq(Nat) /\ call[t].buffer # NULL
  BY NullAssumption DEF Inv, Buffers, WithBuffer, StoreTypes
<1>2. mem' = [mem EXCEPT ![call[t].buffer] = bytes]
  BY <1>1 DEF Live
<1>3. /\ Live' = Live /\ mem'[call[t].buffer] = bytes
      /\ \A q \in Live : q # call[t].buffer => mem'[q] = mem[q]
  <2> HIDE DEF bytes
  <2>1. QED
    BY <1>1, <1>2 DEF Inv, StoreTypes, Live
<1>4. loaded /\ d \in Seq(Nat)
  BY WholeTyped DEF TextInv
<1>5. bytes = Whole(t)
  <2>1. Len(b) = partial.size + Len(d) /\ partial.size \in Nat
    BY DEF Inv, PartialStands, TaskTypes, StoreTypes, BufferEntry
  <2>2. SubSeq(b, 1, partial.size) = Bytes(partial)
    BY DEF TextInv, WriterText
  <2>3. visible.rest = Bytes(partial)
    BY <1>4, RestIsPartial DEF TextInv, Late
  <2> HIDE DEF b, d
  <2>4. bytes = SubSeq(b, 1, partial.size) \o d
    BY <1>1, <1>4, <2>1, OverlayJoins
  <2>5. QED
    BY <2>2, <2>3, <2>4 DEF Whole, d
<1> HIDE DEF bytes, b, d
<1>6. /\ pc'[t] = "free_partial"
      /\ \A u \in Task : u # t => pc'[u] = pc[u] /\ call'[u] = call[u]
  BY DEF Inv, TaskTypes, Task
<1>7. MemoryKept(t)
  BY <1>3 DEF MemoryKept
<1>8. Bytes(partial)' = Bytes(partial)
  <2>1. partial.buffptr # call[t].buffer
    BY <1>1 DEF Inv, Unshared, Task
  <2>2. QED
    BY <1>3, <2>1 DEF Bytes
<1>9. WriterText(t)'
  <2>1. mem'[call'[t].buffer] = Whole(t)'
    BY <1>3, <1>5 DEF Whole
  <2>2. call'[t].off = 0
    BY DEF TextInv, WriterText, BeforeLoop
  <2>3. QED
    BY <1>6, <2>1, <2>2 DEF WriterText
<1>10. QED
  BY <1>4, <1>6, <1>7, <1>8, <1>9, QuietStep DEF Locking, Late

\* The old unfinished line is freed ...
LEMMA FreePartialKeepsText ==
  ASSUME OneWriter \/ InputsAreLines, Inv, Inv', TextInv, NEW t \in Writer, FreePartial(t)
  PROVE  TextInv'
<1> DEFINE label == IF partial.buffptr = NULL THEN "lock" ELSE "clear_partial"
<1>1. /\ pc[t] = "free_partial" /\ pc' = [pc EXCEPT ![t] = label]
      /\ UNCHANGED <<ring, partial, loaded, lock, call, visible>>
      /\ mem' = MemWithout({partial.buffptr})
  BY DEF FreePartial, Goto
<1>2. label \in {"lock", "clear_partial"}
  OBVIOUS
<1> HIDE DEF label
<1>3. /\ pc'[t] = label
      /\ \A u \in Task : u # t => pc'[u] = pc[u] /\ call'[u] = call[u]
  BY <1>1 DEF Inv, TaskTypes, Task
<1>4. /\ Live' = Live \ {partial.buffptr} /\ \A q \in Live' : mem'[q] = mem[q]
  BY <1>1 DEF MemWithout, Live
<1>5. call[t].buffer \in Live /\ call[t].buffer # NULL /\ call[t].buffer # partial.buffptr
  BY <1>1, NullAssumption DEF Inv, Buffers, WithBuffer, StoreTypes, Unshared, Task
<1>6. loaded
  BY <1>1, WholeTyped DEF TextInv
<1>7. MemoryKept(t)
  BY <1>4 DEF MemoryKept
<1>8. WriterText(t)'
  <2>1. mem'[call'[t].buffer] = Whole(t)'
    <3>1. mem[call[t].buffer] = Whole(t)
      BY <1>1 DEF TextInv, WriterText, Filled
    <3>2. QED
      BY <1>1, <1>4, <1>5, <3>1 DEF Whole
  <2>2. call'[t].off = 0
    BY <1>1 DEF TextInv, WriterText, BeforeLoop
  <2>3. QED
    BY <1>2, <1>3, <2>1, <2>2 DEF WriterText
<1>9. pc'[t] \in Late /\ pc'[t] \notin Locking /\ pc[t] \notin Locking
  BY <1>1, <1>2, <1>3 DEF Late, Locking
<1>10. QED
  BY <1>1, <1>3, <1>6, <1>7, <1>8, <1>9, QuietStep

\* ... and forgotten.
LEMMA ClearPartialKeepsText ==
  ASSUME OneWriter \/ InputsAreLines, Inv, Inv', TextInv, NEW t \in Writer, ClearPartial(t)
  PROVE  TextInv'
<1>1. /\ pc[t] = "clear_partial" /\ pc' = [pc EXCEPT ![t] = "lock"]
      /\ UNCHANGED <<ring, mem, loaded, lock, call, visible>>
  BY DEF ClearPartial, Goto
<1>2. /\ pc'[t] = "lock"
      /\ \A u \in Task : u # t => pc'[u] = pc[u] /\ call'[u] = call[u]
  BY <1>1 DEF Inv, TaskTypes, Task
<1>3. loaded
  BY <1>1, WholeTyped DEF TextInv
<1>4. MemoryKept(t)
  BY <1>1 DEF MemoryKept, Live
<1>5. WriterText(t)'
  <2>1. mem'[call'[t].buffer] = Whole(t)'
    BY <1>1 DEF TextInv, WriterText, Filled, Whole
  <2>2. call'[t].off = 0
    BY <1>1 DEF TextInv, WriterText, BeforeLoop
  <2>3. QED
    BY <1>2, <2>1, <2>2 DEF WriterText
<1>6. pc'[t] \in Late /\ pc'[t] \notin Locking /\ pc[t] \notin Locking
  BY <1>1, <1>2 DEF Late, Locking
<1>7. QED
  BY <1>1, <1>2, <1>3, <1>4, <1>5, <1>6, QuietStep

\* The working buffer is freed and the call returns.
LEMMA WriteOutKeepsText ==
  ASSUME OneWriter \/ InputsAreLines, Inv, Inv', TextInv, NEW t \in Writer, WriteOut(t)
  PROVE  TextInv'
<1>0. PICK label, c : WriteEnds(t, label, c)
  BY WriteOutEnds
<1>1. /\ pc[t] = "out" /\ pc' = [pc EXCEPT ![t] = label] /\ label \in {"idle", "restart"}
      /\ call' = [call EXCEPT ![t] = c] /\ mem' = MemWithout({call[t].buffer})
      /\ UNCHANGED <<ring, partial, loaded, lock, visible>>
  BY <1>0 DEF WriteOut, WriteEnds, FreedAtOut
<1>2. /\ pc'[t] = label /\ call'[t] = c
      /\ \A u \in Task : u # t => pc'[u] = pc[u] /\ call'[u] = call[u]
  BY <1>1, OtherTasks DEF Inv
<1>3. /\ Live' = Live \ {call[t].buffer} /\ \A q \in Live' : mem'[q] = mem[q]
  BY <1>1 DEF MemWithout, Live
<1>4. loaded
  BY <1>1, WholeTyped DEF TextInv
<1>5. MemoryKept(t)
  BY <1>3 DEF MemoryKept
<1>6. Bytes(partial)' = Bytes(partial)
  <2>1. partial.buffptr \in Live => partial.buffptr # call[t].buffer
    BY NullAssumption DEF Inv, Unshared, StoreTypes, Task
  <2>2. QED
    BY <1>1, <1>3, <2>1 DEF Bytes
<1>7. WriterText(t)'
  <2>1. call'[t].off = 0
    BY <1>0, <1>1, <1>2 DEF WriteEnds
  <2>2. QED
    BY <1>1, <1>2, <2>1 DEF WriterText, Filled
<1>8. QED
  BY <1>1, <1>2, <1>4, <1>5, <1>6, <1>7, QuietStep DEF Locking, Late

\* The kernel calls aesd_write again.
LEMMA RestartKeepsText ==
  ASSUME OneWriter \/ InputsAreLines, Inv, Inv', TextInv, NEW t \in Writer, WriteRestart(t)
  PROVE  TextInv'
<1> DEFINE pos == fpos[call[t].file]
<1>1. /\ pc[t] = "restart" /\ pc' = [pc EXCEPT ![t] = "alloc"]
      /\ call' = [call EXCEPT ![t].pos = pos]
      /\ UNCHANGED <<ring, partial, mem, loaded, lock, visible>>
  BY DEF WriteRestart, Goto, store
<1> HIDE DEF pos
<1>2. /\ pc'[t] = "alloc" /\ call'[t].off = call[t].off
      /\ \A u \in Task : u # t => pc'[u] = pc[u] /\ call'[u] = call[u]
  BY <1>1 DEF Inv, TaskTypes, Task, CallFields
<1>3. loaded
  BY <1>1, WholeTyped DEF TextInv
<1>4. MemoryKept(t) /\ Bytes(partial)' = Bytes(partial)
  BY <1>1 DEF MemoryKept, Live, Bytes
<1>5. call[t].off = 0
  BY <1>1 DEF TextInv, WriterText, BeforeLoop
<1>6. WriterText(t)'
  BY <1>2, <1>5 DEF WriterText, Filled
<1>7. QED
  BY <1>1, <1>2, <1>3, <1>4, <1>6, QuietStep DEF Locking, Late

\* A write gives up before it has the lock: what it was about to store is lost, what
\* the device held is not.
LEMMA GiveUpKeepsText ==
  ASSUME OneWriter \/ InputsAreLines, Inv, Inv', TextInv, NEW t \in Writer, NEW error,
         GiveUp(t, error), pc[t] \in {"alloc", "copy_user", "lock"},
         UNCHANGED <<store, lock, loaded>>
  PROVE  TextInv'
<1> USE DEF store
<1>1. /\ pc' = [pc EXCEPT ![t] = "out"] /\ call' = [call EXCEPT ![t].ret = error]
      /\ visible' = [visible EXCEPT !.rest = Bytes(partial), !.ok = FALSE]
  BY DEF GiveUp, Goto
<1>2. /\ pc'[t] = "out"
      /\ \A u \in Task : u # t => pc'[u] = pc[u] /\ call'[u] = call[u]
  BY <1>1 DEF Inv, TaskTypes, Task
<1>3. loaded /\ loaded'
  BY WholeTyped DEF TextInv
<1>4. Bytes(partial) \in Seq(Nat)
  BY PartialBytes
<1>5. VisibleTypes' /\ visible'.lines = visible.lines /\ visible'.rest = Bytes(partial)
  BY <1>1, <1>4 DEF TextInv, VisibleTypes
<1>6. StoredLines' = StoredLines
  BY <1>3, StoredLinesKept DEF Live
<1>7. Alone(t)
  BY <1>2, <1>5, <1>6 DEF Alone, Task
<1>8. Holder'
  BY <1>2, HolderKept DEF TextInv, Locking, Task
<1>9. RingIsVisible'
  BY <1>5, <1>6 DEF TextInv, RingIsVisible
<1>10. RestStands'
  <2>1. InputsAreLines => Bytes(partial) = << >>
    BY PartialBytes DEF Inv, NothingUnfinished
  <2>2. Bytes(partial)' = Bytes(partial)
    BY DEF Bytes, Live
  <2>3. QED
    BY <1>5, <2>1, <2>2 DEF RestStands
<1>11. WriterText(t)'
  BY <1>2 DEF WriterText, BeforeLoop, Filled
<1>12. QED
  BY <1>3, <1>5, <1>7, <1>8, <1>9, <1>10, <1>11, WriterKeepsText

\* The lock is taken: the loop starts at the start of the text, with the lines that
\* the programs see.
LEMMA LockKeepsText ==
  ASSUME OneWriter \/ InputsAreLines, Inv, Inv', TextInv, NEW t \in Writer, LockForWrite(t)
  PROVE  TextInv'
<1>1. /\ pc[t] = "lock" /\ lock = Nobody /\ lock' = t /\ pc' = [pc EXCEPT ![t] = "store"]
      /\ UNCHANGED <<ring, partial, mem, loaded, call, visible>>
  BY DEF LockForWrite, LockIsFree, Goto, store
<1>2. /\ pc'[t] = "store"
      /\ \A u \in Task : u # t => pc'[u] = pc[u] /\ call'[u] = call[u]
  BY <1>1 DEF Inv, TaskTypes, Task
<1>3. loaded /\ loaded' /\ Whole(t) \in Seq(Nat) /\ visible.lines \in Seq(Seq(Nat))
  BY <1>1, WholeTyped DEF TextInv
<1>4. StoredLines' = StoredLines
  BY <1>1, <1>3, StoredLinesKept DEF Live
<1>5. Alone(t)
  BY <1>1, <1>2, <1>4 DEF Alone, Task
<1>6. Holder'
  <2>1. \A u \in Task : u # Nobody
    BY NobodyAssumption
  <2>2. \A u \in Task : pc[u] \notin Locking
    BY <1>1, <2>1 DEF TextInv, Holder
  <2>3. QED
    BY <1>1, <1>2, <2>2 DEF Holder, Locking, Task
<1>7. VisibleTypes'
  BY <1>1 DEF TextInv, VisibleTypes
<1>8. RingIsVisible'
  BY <1>1 DEF RingIsVisible
<1>9. RestStands'
  <2>1. pc'[t] \in Late
    BY <1>2 DEF Late
  <2>2. QED
    BY <1>1, <2>1 DEF TextInv, RestStands
<1>10. WriterText(t)'
  <2>1. Whole(t)' = Whole(t)
    BY <1>1 DEF Whole
  <2>2. mem'[call'[t].buffer] = Whole(t)'
    BY <1>1, <2>1 DEF TextInv, WriterText, Filled
  <2>3. call'[t].off = 0
    BY <1>1 DEF TextInv, WriterText, BeforeLoop
  <2>4. InLoop(t, 0)'
    <3>1. SubSeq(Device!LinesOf(Whole(t)), 1, 0) = << >>
      BY SubSeqEmpty
    <3>2. visible.lines \o << >> = visible.lines
      BY <1>3, ConcatEmptySeq
    <3>3. Device!LastLines(visible.lines) = visible.lines
      BY <1>3, LastLinesAll DEF TextInv, VisibleTypes
    <3>4. StoredLines = visible.lines
      BY <1>1, <1>3, NobodyAssumption DEF TextInv, RingIsVisible, Task
    <3>5. Kept(t, 0)
      BY <3>1, <3>2, <3>3, <3>4 DEF Kept
    <3>6. Kept(t, 0)'
      BY <1>1, <1>4, <2>1, <3>5 DEF Kept
    <3>7. QED
      BY <2>3, <3>6 DEF InLoop, EndOf
  <2>5. 0 \in 0 .. Len(Device!Ends(Whole(t)'))
    BY <1>3, <2>1, EndsByRank
  <2>6. (\E k \in 0 .. Len(Device!Ends(Whole(t))) : InLoop(t, k))'
    BY <2>4, <2>5
  <2>7. QED
    BY <1>2, <2>2, <2>6 DEF WriterText, BeforeLoop
<1>11. QED
  BY <1>3, <1>5, <1>6, <1>7, <1>8, <1>9, <1>10, WriterKeepsText

\* Where the loop is: k lines are stored, and memchr finds the next one or none.
LEMMA LoopText ==
  ASSUME Inv, TextInv, NEW t \in Writer, pc[t] = "store"
  PROVE  \E k \in 0 .. Len(Device!Ends(Whole(t))) :
           /\ InLoop(t, k)
           /\ LineLength(t) \in Nat
           /\ LineLength(t) > 0 =>
                /\ k + 1 \in 0 .. Len(Device!Ends(Whole(t)))
                /\ k \in 0 .. Len(Device!LinesOf(Whole(t))) - 1
                /\ EndOf(Whole(t), k + 1) = call[t].off + LineLength(t)
                /\ SubSeq(Working(t), 1, LineLength(t)) = Device!LinesOf(Whole(t))[k + 1]
           /\ LineLength(t) = 0 => /\ k = Len(Device!Ends(Whole(t)))
                                   /\ Working(t) = Device!RestOf(Whole(t))
<1> DEFINE text == Whole(t)
           w == Working(t)
           n == LineLength(t)
<1>1. text \in Seq(Nat)
  BY WholeTyped DEF TextInv
<1>2. mem[call[t].buffer] = text
  BY DEF TextInv, WriterText, Filled
<1>3. PICK k \in 0 .. Len(Device!Ends(text)) : InLoop(t, k)
  BY DEF TextInv, WriterText
<1>4. call[t].off = EndOf(text, k)
  BY <1>3 DEF InLoop
<1>5. w = SubSeq(text, EndOf(text, k) + 1, Len(text))
  BY <1>2, <1>4 DEF Working
<1>6. n \in Nat /\ w \in Seq(Nat)
  BY WorkingInBuffer
<1>7. n = FirstAt(w, NL)
  BY <1>6, FirstByte DEF LineLength
<1> HIDE DEF text, w, n
<1>8. Finds(text, k, w, n)
  BY <1>1, <1>3, <1>5, <1>7, NextLine
<1>9. QED
  BY <1>3, <1>4, <1>6, <1>8 DEF Finds, text, w, n

\* The loop ends: everything is stored, or the write reports an error.
LEMMA LeaveLoopKeepsText ==
  ASSUME OneWriter \/ InputsAreLines, Inv, Inv', TextInv, NEW t \in Writer,
         pc[t] = "store", pc' = [pc EXCEPT ![t] = "unlock"],
         UNCHANGED <<ring, lock, loaded, visible>>, MemoryKept(t),
         \A u \in Task : u # t => call'[u] = call[u], call'[t].data = call[t].data,
         \/ LineLength(t) = 0 /\ call'[t].ret >= 0 /\ Bytes(partial)' = Working(t)
         \/ ~(call'[t].ret >= 0) /\ Bytes(partial)' = << >> /\ Failures # {}
  PROVE  TextInv'
<1>1. /\ pc'[t] = "unlock"
      /\ \A u \in Task : u # t => pc'[u] = pc[u] /\ call'[u] = call[u]
  BY DEF Inv, TaskTypes, Task
<1>2. loaded
  BY WholeTyped DEF TextInv
<1>3. StoredLines' = StoredLines
  BY <1>2, SlotsKept, StoredLinesKept
<1>4. Whole(t)' = Whole(t)
  BY DEF Whole
<1>5. PICK k \in 0 .. Len(Device!Ends(Whole(t))) :
        /\ InLoop(t, k)
        /\ LineLength(t) = 0 => /\ k = Len(Device!Ends(Whole(t)))
                                /\ Working(t) = Device!RestOf(Whole(t))
  BY LoopText
<1>6. AtEnd(t, k)'
  <2>1. Kept(t, k)'
    BY <1>3, <1>4, <1>5 DEF InLoop, Kept
  <2>2. CASE LineLength(t) = 0 /\ call'[t].ret >= 0 /\ Bytes(partial)' = Working(t)
    BY <1>4, <1>5, <2>1, <2>2 DEF AtEnd
  <2>3. CASE ~(call'[t].ret >= 0) /\ Bytes(partial)' = << >> /\ Failures # {}
    BY <2>1, <2>3 DEF AtEnd
  <2>4. QED
    BY <2>2, <2>3
<1>7. WriterText(t)'
  <2>1. (\E j \in 0 .. Len(Device!Ends(Whole(t))) : AtEnd(t, j))'
    BY <1>4, <1>6
  <2>2. QED
    BY <1>1, <2>1 DEF WriterText, BeforeLoop, Filled
<1>8. pc'[t] \in Late /\ pc'[t] \in Locking /\ pc[t] \in Locking
  BY <1>1 DEF Late, Locking
<1>9. QED
  BY <1>1, <1>2, <1>7, <1>8, QuietStep

\* A task that dies with the lock held stores nothing more.
LEMMA OopsKeepsText ==
  ASSUME OneWriter \/ InputsAreLines, Inv, Inv', TextInv, NEW t \in Writer,
         pc[t] = "store", pc' = [pc EXCEPT ![t] = "oops"],
         UNCHANGED <<store, lock, loaded, call, visible>>
  PROVE  TextInv'
<1> USE DEF store
<1>1. /\ pc'[t] = "oops"
      /\ \A u \in Task : u # t => pc'[u] = pc[u] /\ call'[u] = call[u]
  BY DEF Inv, TaskTypes, Task
<1>2. loaded
  BY WholeTyped DEF TextInv
<1>3. MemoryKept(t)
  BY DEF MemoryKept, Live
<1>4. WriterText(t)'
  BY <1>1 DEF WriterText, BeforeLoop, Filled
<1>5. pc'[t] \in Late /\ pc'[t] \in Locking /\ pc[t] \in Locking
  BY <1>1 DEF Late, Locking
<1>6. QED
  BY <1>1, <1>2, <1>3, <1>4, <1>5, QuietStep

\* What is left becomes the unfinished line.
LEMMA KeepTailKeepsText ==
  ASSUME OneWriter \/ InputsAreLines, Inv, Inv', TextInv, NEW t \in Writer, KeepTail(t)
  PROVE  TextInv'
<1> DEFINE ret == call[t].count
           pos == call[t].pos + call[t].count
           w == Working(t)
<1>1. /\ pc[t] = "store" /\ LineLength(t) = 0 /\ pc' = [pc EXCEPT ![t] = "unlock"]
      /\ UNCHANGED <<ring, lock, loaded, visible>>
  BY DEF KeepTail, Goto
<1>2. t \in Task /\ DOMAIN call[t] = CallFields /\ call = [u \in Task |-> call[u]]
  BY DEF Inv, TaskTypes, Task
<1>3. partial = EmptyEntry /\ Bytes(partial) = << >> /\ partial.buffptr = NULL
  BY <1>1, PartialBytes DEF Inv, PartialStands, EmptyEntry
<1>4. ret \in Nat /\ w \in Seq(Nat)
  <2>1. call[t].count = Len(call[t].data) /\ call[t].data \in Seq(Nat)
    BY <1>1, DriverAssumption DEF Inv, TaskTypes
  <2>2. QED
    BY <1>1, <2>1, WorkingInBuffer
<1>5. \/ /\ w = << >> /\ call' = [call EXCEPT ![t].ret = ret, ![t].pos = pos]
         /\ UNCHANGED <<partial, mem>>
      \/ /\ call' = [call EXCEPT ![t].ret = ret, ![t].pos = pos]
         /\ partial' = [buffptr |-> NewPtr, size |-> Len(w)]
         /\ mem' = MemAfter(NewPtr, w, {})
      \/ /\ "tail" \in Failures /\ partial' = PartialWithoutMemory(w)
         /\ call' = [call EXCEPT ![t].ret = ENOMEM]
         /\ UNCHANGED mem
  BY <1>2 DEF KeepTail, HasTail, CallFields
<1> HIDE DEF pos, ret
<1>6. /\ \A u \in Task : u # t => call'[u] = call[u]
      /\ call'[t].data = call[t].data
  <2>1. CASE call' = [call EXCEPT ![t].ret = ret, ![t].pos = pos]
    BY <1>2, <2>1 DEF CallFields, Task
  <2>2. CASE call' = [call EXCEPT ![t].ret = ENOMEM]
    BY <1>2, <2>2 DEF CallFields, Task
  <2>3. QED
    BY <1>5, <2>1, <2>2
<1> HIDE DEF w
<1>7. CASE /\ w = << >> /\ call' = [call EXCEPT ![t].ret = ret, ![t].pos = pos]
           /\ UNCHANGED <<partial, mem>>
  <2>1. MemoryKept(t) /\ Bytes(partial)' = w
    BY <1>3, <1>7 DEF MemoryKept, Live, Bytes
  <2>2. call'[t].ret = ret
    BY <1>2, <1>7 DEF CallFields
  <2>3. call'[t].ret >= 0
    BY <1>4, <2>2
  <2>4. QED
    BY <1>1, <1>6, <2>1, <2>3, LeaveLoopKeepsText DEF w
<1>8. CASE /\ call' = [call EXCEPT ![t].ret = ret, ![t].pos = pos]
           /\ partial' = [buffptr |-> NewPtr, size |-> Len(w)]
           /\ mem' = MemAfter(NewPtr, w, {})
  <2> DEFINE p == NewPtr
  <2>1. p \notin Live
    BY FreshPtr DEF Inv
  <2>2. mem' = MemAfter(p, w, {}) /\ partial' = [buffptr |-> p, size |-> Len(w)]
    BY <1>8
  <2> HIDE DEF p
  <2>3. Live' = Live \cup {p} /\ mem'[p] = w /\ \A q \in Live : mem'[q] = mem[q]
    BY <2>1, <2>2 DEF MemAfter, Live
  <2>4. MemoryKept(t)
    BY <2>3 DEF MemoryKept
  <2>5. Bytes(partial)' = w
    <3>1. Bytes(partial)' = SubSeq(w, 1, Len(w))
      BY <2>2, <2>3 DEF Bytes
    <3>2. QED
      BY <1>4, <3>1, SubSeqFull
  <2>6. call'[t].ret = ret
    BY <1>2, <1>8 DEF CallFields
  <2>7. call'[t].ret >= 0
    BY <1>4, <2>6
  <2>8. QED
    BY <1>1, <1>6, <2>4, <2>5, <2>7, LeaveLoopKeepsText DEF w
<1>9. CASE /\ "tail" \in Failures /\ partial' = PartialWithoutMemory(w)
           /\ call' = [call EXCEPT ![t].ret = ENOMEM]
           /\ UNCHANGED mem
  <2>1. partial' = EmptyEntry
    BY <1>3, <1>9 DEF PartialWithoutMemory, EmptyEntry
  <2>2. MemoryKept(t) /\ Bytes(partial)' = << >>
    BY <1>3, <1>9, <2>1 DEF MemoryKept, Live, Bytes
  <2>3. call'[t].ret = ENOMEM
    BY <1>2, <1>9 DEF CallFields
  <2>4. ~(call'[t].ret >= 0) /\ Failures # {}
    BY <1>9, <2>3 DEF ENOMEM
  <2>5. QED
    BY <1>1, <1>6, <2>2, <2>4, LeaveLoopKeepsText
<1>10. QED
  BY <1>5, <1>7, <1>8, <1>9

\* The lock is released: what has been stored is what the programs see.
LEMMA UnlockKeepsText ==
  ASSUME OneWriter \/ InputsAreLines, Inv, Inv', TextInv, NEW t \in Writer, Unlock(t)
  PROVE  TextInv'
<1>1. /\ pc[t] = "unlock" /\ lock' = Nobody /\ pc' = [pc EXCEPT ![t] = "out"]
      /\ visible' = [lines |-> StoredLines, rest |-> Bytes(partial), ok |-> call[t].ret >= 0]
      /\ UNCHANGED <<ring, partial, mem, loaded, call>>
  BY DEF Unlock, Unlocked, Goto, store
<1>2. /\ pc'[t] = "out"
      /\ \A u \in Task : u # t => pc'[u] = pc[u] /\ call'[u] = call[u]
  BY <1>1 DEF Inv, TaskTypes, Task
<1>3. loaded /\ loaded'
  BY <1>1, WholeTyped DEF TextInv
<1>4. StoredLines' = StoredLines
  BY <1>1, <1>3, StoredLinesKept DEF Live
<1>5. \A u \in Task : u # t => pc[u] \notin Locking
  BY <1>1 DEF TextInv, Holder, Locking, Task
<1>6. Alone(t)
  BY <1>1, <1>2, <1>5 DEF Alone, Locking, Task
<1>7. Holder'
  <2>1. \A u \in Task : u # Nobody
    BY NobodyAssumption
  <2>2. QED
    BY <1>1, <1>2, <1>5, <2>1 DEF Holder, Locking, Task
<1>8. VisibleTypes'
  <2>1. /\ StoredLines \in Seq(Seq(Nat)) /\ Len(StoredLines) <= N /\ Bytes(partial) \in Seq(Nat)
    BY <1>3, StoredLinesTyped, PartialBytes, NAssumption
  <2>2. visible'.lines = StoredLines
    BY <1>1
  <2>3. visible' \in [lines : Seq(Seq(Nat)), rest : Seq(Nat), ok : BOOLEAN]
    BY <1>1, <2>1
  <2>4. QED
    BY <2>1, <2>2, <2>3 DEF VisibleTypes
<1>9. RingIsVisible'
  BY <1>1, <1>4 DEF RingIsVisible
<1>10. RestStands'
  <2>1. InputsAreLines => Bytes(partial) = << >>
    BY PartialBytes DEF Inv, NothingUnfinished
  <2>2. Bytes(partial)' = Bytes(partial) /\ visible'.rest = Bytes(partial)
    BY <1>1 DEF Bytes, Live
  <2>3. QED
    BY <2>1, <2>2 DEF RestStands
<1>11. WriterText(t)'
  BY <1>2 DEF WriterText, BeforeLoop, Filled
<1>12. QED
  BY <1>3, <1>6, <1>7, <1>8, <1>9, <1>10, <1>11, WriterKeepsText

\* A stored line joins the lines of the ring and pushes out the oldest once there
\* are N; the other lines stay as they are, although what the ring hands back is freed.
LEMMA StoreLineLines ==
  ASSUME Inv, loaded, NEW bytes \in Seq(Nat), NEW p \in Ptr, p \notin Live, p \notin Referenced,
         AddEntry([buffptr |-> p, size |-> Len(bytes)]), mem' = MemAfter(p, bytes, {Garbage})
  PROVE  StoredLines' = IF Len(StoredLines) = N THEN Append(Tail(StoredLines), bytes)
                                                ELSE Append(StoredLines, bytes)
<1> DEFINE e == [buffptr |-> p, size |-> Len(bytes)]
           old == entry[in_offs].buffptr
           After(x) == IF x.buffptr \in Live' THEN SubSeq(mem'[x.buffptr], 1, x.size)
                                              ELSE << >>
<1>1. BufferTypeOK /\ RingInv /\ in_offs \in Slot /\ N \in Nat \ {0}
  <2>1. BufferTypeOK /\ RingInv
    BY DEF Inv, StoreTypes, CallsKeepLoaded
  <2>2. in_offs \in Slot
    BY <2>1 DEF BufferTypeOK
  <2>3. N \in Nat \ {0}
    BY NAssumption
  <2>4. QED
    BY <2>1, <2>2, <2>3
<1>2. e \in BufferEntry /\ e.buffptr = p /\ e.size = Len(bytes)
  BY DEF BufferEntry
<1>3. AddEntry(e)
  OBVIOUS
<1> HIDE DEF e
<1>4. Garbage = old
  BY <1>1, <1>2, <1>3, AddEntryKeepsRing
<1>5. /\ Live' = (Live \cup {p}) \ {old}
      /\ p \in Live' /\ mem'[p] = bytes /\ \A q \in Live : q # old => mem'[q] = mem[q]
  <2>1. old # p
    BY <1>1 DEF Referenced
  <2> HIDE DEF old
  <2>2. mem' = [q \in (Live \cup {p}) \ {old} |-> IF q = p THEN bytes ELSE mem[q]]
    BY <1>4 DEF MemAfter
  <2>3. QED
    BY <2>1, <2>2 DEF Live
<1>6. After(e) = bytes
  <2>1. After(e) = SubSeq(bytes, 1, Len(bytes))
    BY <1>2, <1>5
  <2>2. QED
    BY <2>1, SubSeqFull
<1>7. ASSUME NEW i \in Slot, i # in_offs PROVE After(entry[i]) = Bytes(entry[i])
  <2>1. entry[i].buffptr # NULL => entry[i].buffptr # old /\ entry[i].buffptr \in Live
    BY <1>1, <1>7 DEF Inv, Unshared, PointersLive
  <2>2. NULL \notin Live /\ p # NULL
    BY NullAssumption DEF Inv, StoreTypes
  <2> HIDE DEF old
  <2>3. QED
    BY <1>5, <2>1, <2>2 DEF Bytes
<1>8. StoredLines' = [k \in 1 .. Count' |-> After(Stored'[k])]
  BY DEF StoredLines, Bytes
<1> HIDE DEF After, old
<1>9. /\ Count \in 0 .. N /\ Stored \in Seq(BufferEntry) /\ Len(Stored) = Count
      /\ \A k \in 1 .. Count : /\ (out_offs + k - 1) % N \in Slot
                               /\ Stored[k] = entry[(out_offs + k - 1) % N]
  BY StoredSlot
<1>10. /\ StoredLines \in Seq(Seq(Nat)) /\ Len(StoredLines) = Count
       /\ \A k \in 1 .. Count : StoredLines[k] = Bytes(Stored[k])
  BY StoredLinesTyped DEF StoredLines
<1>11. CASE full
  <2> DEFINE r == Append(Tail(StoredLines), bytes)
  <2>1. Count = N /\ in_offs = out_offs /\ Stored' = Append(Tail(Stored), e)
    BY <1>1, <1>2, <1>3, <1>11, AddReplacesOldest DEF Count, RingInv
  <2>2. Stored # << >> /\ StoredLines # << >>
    BY <1>1, <1>9, <1>10, <2>1
  <2>3. /\ Tail(Stored) \in Seq(BufferEntry) /\ Len(Tail(Stored)) = N - 1
        /\ \A k \in 1 .. N - 1 : Tail(Stored)[k] = Stored[k + 1]
    BY <1>9, <2>1, <2>2, HeadTailProperties
  <2>4. /\ Len(Stored') = (N - 1) + 1 /\ Stored'[(N - 1) + 1] = e
        /\ \A k \in 1 .. N - 1 : Stored'[k] = Tail(Stored)[k]
    BY <1>2, <2>1, <2>3, AppendProperties
  <2>5. Count' = N /\ Stored'[N] = e
    <3>1. full'
      BY <1>3, <1>11 DEF AddEntry
    <3>2. QED
      BY <1>1, <2>4, <3>1 DEF Count
  <2>6. /\ Tail(StoredLines) \in Seq(Seq(Nat)) /\ Len(Tail(StoredLines)) = N - 1
        /\ \A k \in 1 .. N - 1 : Tail(StoredLines)[k] = StoredLines[k + 1]
    BY <1>10, <2>1, <2>2, HeadTailProperties
  <2>7. /\ r \in Seq(Seq(Nat)) /\ Len(r) = (N - 1) + 1 /\ r[(N - 1) + 1] = bytes
        /\ \A k \in 1 .. N - 1 : r[k] = Tail(StoredLines)[k]
    BY <2>6, AppendProperties
  <2> HIDE DEF r
  <2>8. Len(r) = N /\ r[N] = bytes
    BY <1>1, <2>7
  <2>9. ASSUME NEW k \in 1 .. N PROVE After(Stored'[k]) = r[k]
    <3>1. CASE k = N
      BY <1>6, <2>5, <2>8, <3>1
    <3>2. CASE k # N
      <4>1. k \in 1 .. N - 1 /\ k + 1 \in 1 .. N /\ k \in 0 .. N
        BY <1>1, <3>2
      <4>2. Stored'[k] = Stored[k + 1] /\ r[k] = StoredLines[k + 1]
        BY <2>3, <2>4, <2>6, <2>7, <4>1
      <4> DEFINE i == (out_offs + (k + 1) - 1) % N
      <4>3. i \in Slot /\ Stored[k + 1] = entry[i] /\ r[k] = Bytes(entry[i])
        BY <1>9, <1>10, <2>1, <4>1, <4>2
      <4>4. i # in_offs
        <5>1. out_offs \in 0 .. N - 1
          BY <1>1 DEF BufferTypeOK, Slot
        <5>2. out_offs + (k + 1) - 1 = out_offs + k
          BY <1>1, <4>1, <5>1
        <5>3. i = IF out_offs + k < N THEN out_offs + k ELSE out_offs + k - N
          <6>1. out_offs \in Slot
            BY <5>1 DEF Slot
          <6>2. QED
            BY <4>1, <5>2, <6>1, SlotAfter
        <5> HIDE DEF i
        <5>4. QED
          BY <1>1, <2>1, <4>1, <5>1, <5>3
      <4> HIDE DEF i
      <4>5. QED
        BY <1>7, <4>2, <4>3, <4>4
    <3>3. QED
      BY <3>1, <3>2
  <2>10. StoredLines' = r
    <3>1. StoredLines' = [k \in 1 .. N |-> r[k]]
      BY <1>8, <2>5, <2>9
    <3>2. r = [k \in 1 .. N |-> r[k]]
      BY <2>7, <2>8, SequenceIsItsElements
    <3>3. QED
      BY <3>1, <3>2
  <2>11. QED
    BY <1>10, <2>1, <2>10 DEF r
<1>12. CASE ~full
  <2> DEFINE r == Append(StoredLines, bytes)
             c == Count
  <2>1. c = in_offs /\ c < N /\ out_offs = 0 /\ Stored' = Append(Stored, e)
        /\ Count' = c + 1
    BY <1>1, <1>2, <1>3, <1>12, AddAppends, StoredIsSeq DEF RingInv
  <2>2. c \in Nat
    BY <1>9
  <2>3. /\ Len(Stored') = c + 1 /\ Stored'[c + 1] = e
        /\ \A k \in 1 .. c : Stored'[k] = Stored[k]
    BY <1>2, <1>9, <2>1, AppendProperties
  <2>4. /\ r \in Seq(Seq(Nat)) /\ Len(r) = c + 1 /\ r[c + 1] = bytes
        /\ \A k \in 1 .. c : r[k] = StoredLines[k]
    BY <1>10, AppendProperties
  <2> HIDE DEF r
  <2>5. ASSUME NEW k \in 1 .. c + 1 PROVE After(Stored'[k]) = r[k]
    <3>1. CASE k = c + 1
      BY <1>6, <2>3, <2>4, <3>1
    <3>2. CASE k # c + 1
      <4>1. k \in 1 .. c
        <5> HIDE DEF c
        <5>1. QED
          BY <2>2, <3>2
      <4> DEFINE i == (out_offs + k - 1) % N
      <4>2. i \in Slot /\ Stored'[k] = entry[i] /\ r[k] = Bytes(entry[i])
        BY <1>9, <1>10, <2>3, <2>4, <4>1
      <4>3. i # in_offs
        <5>1. k - 1 \in 0 .. N /\ 0 \in Slot /\ 0 + (k - 1) = k - 1 /\ 0 + k - 1 = k - 1
              /\ k - 1 < N /\ k - 1 < in_offs
          <6> HIDE DEF c
          <6>1. QED
            BY <1>1, <2>1, <2>2, <4>1 DEF Slot
        <5>2. (0 + (k - 1)) % N = IF 0 + (k - 1) < N THEN 0 + (k - 1) ELSE 0 + (k - 1) - N
          BY <5>1, SlotAfter
        <5>3. i = k - 1
          BY <2>1, <5>1, <5>2
        <5> HIDE DEF i
        <5>4. QED
          BY <1>1, <5>1, <5>3 DEF Slot
      <4> HIDE DEF i
      <4>4. QED
        BY <1>7, <4>2, <4>3
    <3>3. QED
      BY <3>1, <3>2
  <2>6. StoredLines' = r
    <3>1. Count' = c + 1
      BY <2>1
    <3>2. StoredLines' = [k \in 1 .. c + 1 |-> r[k]]
      BY <1>8, <2>5, <3>1
    <3>3. r = [k \in 1 .. c + 1 |-> r[k]]
      BY <2>4, SequenceIsItsElements
    <3>4. QED
      BY <3>2, <3>3
  <2>7. Len(StoredLines) # N
    BY <1>1, <1>10, <2>1, <2>2
  <2>8. QED
    BY <2>6, <2>7 DEF r
<1>13. QED
  BY <1>11, <1>12

\* One turn of the loop: the next line of the text is in the ring.
LEMMA StoreLineKeepsText ==
  ASSUME OneWriter \/ InputsAreLines, Inv, Inv', TextInv, NEW t \in Writer,
         pc[t] = "store", LineLength(t) > 0,
         mem' = MemAfter(NewPtr, SubSeq(Working(t), 1, LineLength(t)), {Garbage}),
         AddEntry([buffptr |-> NewPtr, size |-> LineLength(t)]),
         call' = [call EXCEPT ![t].off = @ + LineLength(t)],
         UNCHANGED <<partial, lock, loaded, visible, pc>>
  PROVE  TextInv'
<1> DEFINE p == NewPtr
           n == LineLength(t)
           bytes == SubSeq(Working(t), 1, LineLength(t))
           text == Whole(t)
           Ls == Device!LinesOf(text)
           old == entry[in_offs].buffptr
<1>1. p \in Ptr /\ p \notin Live /\ p \notin Referenced
  BY FreshPtr DEF Inv
<1>2. bytes \in Seq(Nat) /\ Len(bytes) = n /\ n \in Nat
  BY WorkingInBuffer
<1>3. loaded /\ text \in Seq(Nat) /\ visible.lines \in Seq(Seq(Nat))
  BY WholeTyped DEF TextInv
<1>4. StoredLines' = IF Len(StoredLines) = N THEN Append(Tail(StoredLines), bytes)
                                             ELSE Append(StoredLines, bytes)
  <2>1. /\ AddEntry([buffptr |-> p, size |-> Len(bytes)])
        /\ mem' = MemAfter(p, bytes, {Garbage})
    BY <1>2
  <2> HIDE DEF p, bytes
  <2>2. QED
    BY <1>1, <1>2, <1>3, <2>1, StoreLineLines
<1>5. /\ t \in Task /\ DOMAIN call[t] = CallFields /\ call = [u \in Task |-> call[u]]
  BY DEF Inv, TaskTypes, Task
<1>6. /\ call'[t].off = call[t].off + n /\ call'[t].data = call[t].data
      /\ call'[t].buffer = call[t].buffer
      /\ \A u \in Task : u # t => call'[u] = call[u]
  <2>1. call' = [call EXCEPT ![t].off = call[t].off + n]
    BY <1>5
  <2> HIDE DEF n
  <2>2. QED
    BY <1>5, <2>1 DEF CallFields, Task
<1>7. PICK k \in 0 .. Len(Device!Ends(text)) :
        /\ InLoop(t, k)
        /\ k + 1 \in 0 .. Len(Device!Ends(text)) /\ k \in 0 .. Len(Ls) - 1
        /\ EndOf(text, k + 1) = call[t].off + n
        /\ bytes = Ls[k + 1]
  BY LoopText
<1>8. Whole(t)' = text
  BY <1>6 DEF Whole
<1>9. Kept(t, k + 1)'
  <2> DEFINE a == visible.lines \o SubSeq(Ls, 1, k)
  <2>1. Ls \in Seq(Seq(Nat))
    BY <1>3, LinesByEnds
  <2>2. StoredLines = Device!LastLines(a)
    BY <1>7 DEF InLoop, Kept
  <2> HIDE DEF Ls, bytes
  <2>3. a \in Seq(Seq(Nat)) /\ visible.lines \o SubSeq(Ls, 1, k + 1) = Append(a, bytes)
    BY <1>3, <1>7, <2>1, PrefixGrows
  <2> HIDE DEF a
  <2>4. Device!LastLines(Append(a, bytes))
          = IF Len(StoredLines) = N THEN Append(Tail(StoredLines), bytes)
                                    ELSE Append(StoredLines, bytes)
    BY <1>2, <2>2, <2>3, LastLinesAppend
  <2>5. StoredLines' = Device!LastLines(visible.lines \o SubSeq(Ls, 1, k + 1))
    BY <1>4, <2>3, <2>4
  <2>6. QED
    BY <1>8, <2>5 DEF Kept, Ls
<1>10. Garbage = old
  <2>1. BufferTypeOK /\ RingInv /\ [buffptr |-> p, size |-> n] \in BufferEntry
    <3> HIDE DEF p, n
    <3>1. QED
      BY <1>1, <1>2, <1>3 DEF Inv, StoreTypes, CallsKeepLoaded, BufferEntry
  <2>2. AddEntry([buffptr |-> p, size |-> n])
    OBVIOUS
  <2> HIDE DEF p, n
  <2>3. QED
    BY <2>1, <2>2, AddEntryKeepsRing
<1>11. \A q \in Live : q # old => q \in Live' /\ mem'[q] = mem[q]
  <2>1. mem' = [q \in (Live \cup {p}) \ {Garbage} |-> IF q = p THEN bytes ELSE mem[q]]
    BY DEF MemAfter
  <2> HIDE DEF p, bytes
  <2>2. QED
    BY <1>1, <1>10, <2>1 DEF Live
<1> HIDE DEF p, n, bytes, text, Ls, old
<1>12. \A u \in Writer : pc[u] \in WithBuffer =>
         mem'[call[u].buffer] = mem[call[u].buffer]
  <2>1. SUFFICES ASSUME NEW u \in Writer, pc[u] \in WithBuffer
                 PROVE  mem'[call[u].buffer] = mem[call[u].buffer]
    OBVIOUS
  <2>2. call[u].buffer \in Live /\ call[u].buffer # NULL /\ in_offs \in Slot
    BY <2>1, NullAssumption DEF Inv, Buffers, StoreTypes, BufferTypeOK
  <2>3. call[u].buffer # old
    BY <2>2 DEF Inv, Unshared, Task, old
  <2>4. QED
    BY <1>11, <2>2, <2>3
<1>13. lock = t
  BY DEF TextInv, Holder, Locking, Task
<1>14. Alone(t)
  <2>1. \A u \in Writer : u # t => pc[u] \notin Locking
    BY <1>13 DEF TextInv, Holder, Task
  <2>2. QED
    BY <1>6, <1>12, <2>1 DEF Alone, Locking, Task
<1>15. VisibleTypes' /\ Holder'
  BY DEF TextInv, VisibleTypes, Holder
<1>16. RingIsVisible'
  BY <1>13 DEF RingIsVisible
<1>17. RestStands'
  <2>1. pc'[t] \in Late
    BY DEF Late
  <2>2. QED
    BY <2>1 DEF TextInv, RestStands
<1>18. WriterText(t)'
  <2>1. mem'[call'[t].buffer] = Whole(t)'
    <3>1. mem[call[t].buffer] = Whole(t)
      BY DEF TextInv, WriterText, Filled
    <3>2. QED
      BY <1>6, <1>8, <1>12, <3>1 DEF WithBuffer, text
  <2>2. InLoop(t, k + 1)'
    BY <1>6, <1>7, <1>8, <1>9 DEF InLoop
  <2>3. (\E j \in 0 .. Len(Device!Ends(Whole(t))) : InLoop(t, j))'
    BY <1>7, <1>8, <2>2
  <2>4. QED
    BY <2>1, <2>3 DEF WriterText, BeforeLoop
<1>19. QED
  BY <1>3, <1>14, <1>15, <1>16, <1>17, <1>18, WriterKeepsText

\* A step that changes nothing of the device and nothing of the writers.
LEMMA UnchangedKeepsText ==
  ASSUME TextInv, UNCHANGED <<store, loaded, visible>>, Holder',
         lock' \in Writer <=> lock \in Writer,
         \A t \in Writer : pc'[t] = pc[t] /\ call'[t] = call[t]
  PROVE  TextInv'
<1>1. /\ entry' = entry /\ in_offs' = in_offs /\ out_offs' = out_offs /\ full' = full
      /\ partial' = partial /\ mem' = mem
  BY DEF store, ring, bufferVars
<1>2. StoredLines' = StoredLines
  BY <1>1 DEF StoredLines, Stored, Count, Bytes, Live
<1>3. Bytes(partial)' = Bytes(partial)
  BY <1>1 DEF Bytes, Live
<1>4. VisibleTypes'
  BY DEF TextInv, VisibleTypes
<1>5. (RestStands /\ RingIsVisible)'
  BY <1>2, <1>3 DEF TextInv, RestStands, RingIsVisible
<1>6. ASSUME NEW t \in Writer PROVE WriterText(t)'
  <2>1. Whole(t)' = Whole(t)
    BY DEF Whole
  <2>2. ASSUME NEW k PROVE Kept(t, k)' = Kept(t, k)
    BY <1>2, <2>1 DEF Kept
  <2>3. ASSUME NEW k PROVE (InLoop(t, k)' <=> InLoop(t, k)) /\ (AtEnd(t, k)' <=> AtEnd(t, k))
    BY <1>3, <2>1, <2>2 DEF InLoop, AtEnd
  <2>4. WriterText(t)
    BY DEF TextInv
  <2>5. QED
    BY <1>1, <1>3, <2>1, <2>3, <2>4 DEF WriterText
<1>7. QED
  BY <1>4, <1>5, <1>6 DEF TextInv

\* Loading and unloading the module, opening and closing the device.
LEMMA ModuleKeepsText ==
  ASSUME Inv, TextInv, Load \/ Unload \/ \E f \in File : Open(f) \/ Release(f)
  PROVE  TextInv'
<1>1. ASSUME Load \/ Unload PROVE \A t \in Writer : pc'[t] = "idle"
  <2>1. opened = {} /\ pc' = pc
    BY <1>1 DEF Load, Unload, Inv, CallsKeepLoaded
  <2>2. QED
    BY <2>1, IdleOwnsNothing DEF Task
<1>2. ASSUME Load \/ Unload
      PROVE  Holder' /\ \A t \in Writer : WriterText(t)'
  <2>1. \A t \in Writer : WriterText(t)'
    BY <1>1, <1>2 DEF WriterText, BeforeLoop, Filled
  <2>2. lock' = lock /\ pc' = pc
    BY <1>2 DEF Load, Unload
  <2>3. QED
    BY <2>1, <2>2 DEF TextInv, Holder
<1>3. CASE Load
  <2>1. visible' = [lines |-> << >>, rest |-> << >>, ok |-> TRUE]
    BY <1>3 DEF Load
  <2>2. VisibleTypes'
    <3>1. << >> \in Seq(Nat) /\ << >> \in Seq(Seq(Nat)) /\ Len(<< >>) = 0
      OBVIOUS
    <3>2. 0 <= N
      BY NAssumption
    <3>3. QED
      BY <2>1, <3>1, <3>2 DEF VisibleTypes
  <2>3. RestStands'
    <3>1. partial' = EmptyEntry /\ mem' = mem /\ EmptyEntry.buffptr = NULL
      BY <1>3 DEF Load, EmptyEntry
    <3>2. NULL \notin Live'
      BY <3>1, NullAssumption DEF Inv, StoreTypes, Live
    <3>3. Bytes(partial)' = << >>
      BY <3>1, <3>2 DEF Bytes
    <3>4. QED
      BY <2>1, <3>3 DEF RestStands
  <2>4. RingIsVisible'
    <3>1. in_offs' = 0 /\ out_offs' = 0 /\ full' = FALSE
      BY <1>3 DEF Load, BufferReset
    <3>2. Count' = (0 - 0) % N
      BY <3>1 DEF Count
    <3>3. (0 - 0) % N = 0
      BY NAssumption, SMT
    <3>4. StoredLines' = << >>
      BY <3>2, <3>3 DEF StoredLines
    <3>5. QED
      BY <2>1, <3>4 DEF RingIsVisible
  <2>5. QED
    BY <1>2, <1>3, <2>2, <2>3, <2>4 DEF TextInv
<1>4. CASE Unload
  <2>1. ~loaded' /\ visible' = visible
    BY <1>4 DEF Unload
  <2>2. (VisibleTypes /\ RestStands /\ RingIsVisible)'
    BY <2>1 DEF TextInv, VisibleTypes, RestStands, RingIsVisible
  <2>3. QED
    BY <1>2, <1>4, <2>2 DEF TextInv
<1>5. ASSUME NEW f \in File, Open(f) \/ Release(f) PROVE TextInv'
  <2>1. UNCHANGED <<store, lock, loaded, visible, pc, call>>
    BY <1>5 DEF Open, Release
  <2>2. Holder'
    BY <2>1 DEF TextInv, Holder
  <2>3. QED
    BY <2>1, <2>2, UnchangedKeepsText
<1>6. QED
  BY <1>3, <1>4, <1>5

\* What a reader leaves alone: the device and the writers, and the lock unless it is
\* free or its own.
LEMMA ReaderLeaves ==
  ASSUME Inv, TextInv, NEW t \in Reader, ReaderStep(t)
  PROVE  /\ UNCHANGED <<store, loaded, visible>>
         /\ \A u \in Writer : pc'[u] = pc[u] /\ call'[u] = call[u]
         /\ Holder' /\ (lock' \in Writer <=> lock \in Writer)
<1>1. UNCHANGED <<store, loaded, visible>>
  BY ReaderMoves
<1>2. PICK label, c : ReaderGoes(t, label, c)
  BY ReaderMoves
<1>3. /\ t \in Task /\ t \notin Writer /\ pc'[t] = label
      /\ \A u \in Task : u # t => pc'[u] = pc[u] /\ call'[u] = call[u]
      /\ \A u \in Writer : u \in Task /\ u # t
  BY <1>2, DriverAssumption DEF ReaderGoes, Inv, TaskTypes, Task
<1>4. \/ lock' = lock /\ pc[t] \notin Locking /\ pc'[t] \notin Locking
      \/ lock = Nobody /\ lock' = t /\ pc'[t] \in Locking
      \/ lock' = Nobody /\ pc[t] \in Locking /\ pc'[t] \notin Locking
  <2> USE DEF Goto, Locking
  <2>0. ASSUME NEW l, pc' = [pc EXCEPT ![t] = l] PROVE pc'[t] = l
    BY <1>3, <2>0 DEF Inv, TaskTypes
  <2>1. CASE ReadReturn(t) \/ SetFpos(t)
    BY <2>0, <2>1 DEF ReadReturn, SetFpos
  <2>2. CASE ReadInterrupted(t)
    BY <2>0, <2>2 DEF ReadInterrupted, Holding
  <2>3. CASE LockForRead(t)
    <3>1. Holding[pc[t]] \in Locking
      BY <2>3 DEF LockForRead, Holding
    <3>2. pc'[t] = Holding[pc[t]]
      BY <2>0, <2>3 DEF LockForRead
    <3>3. lock = Nobody /\ lock' = t
      BY <2>3 DEF LockForRead, LockIsFree
    <3>4. QED
      BY <3>1, <3>2, <3>3
  <2>4. CASE ReadBody(t)
    BY <2>0, <2>4 DEF ReadBody
  <2>5. CASE \E offset, whence : Llseek(t, offset, whence)
    BY <2>0, <2>5 DEF Llseek
  <2>6. CASE \E seekto : SeekTo(t, seekto)
    BY <2>0, <2>6 DEF SeekTo
  <2>7. ASSUME NEW f \in File, NEW count \in ReadCounts, ReadCall(t, f, count)
        PROVE  lock' = lock /\ pc[t] \notin Locking /\ pc'[t] \notin Locking
    BY <2>0, <2>7 DEF ReadCall, Enter
  <2>8. ASSUME NEW f \in File, NEW l \in {"seek", "ioctl"}, SeekCall(t, f, l)
        PROVE  lock' = lock /\ pc[t] \notin Locking /\ pc'[t] \notin Locking
    BY <2>0, <2>8 DEF SeekCall, Enter
  <2> HIDE DEF Goto, Locking
  <2>9. QED
    BY <2>1, <2>2, <2>3, <2>4, <2>5, <2>6, <2>7, <2>8 DEF ReaderStep, ReadStep
<1>5. Nobody \notin Task /\ Nobody \notin Writer
  BY NobodyAssumption DEF Task
<1>6. Holder'
  BY <1>3, <1>4, <1>5 DEF TextInv, Holder
<1>7. lock' \in Writer <=> lock \in Writer
  BY <1>3, <1>4, <1>5 DEF TextInv, Holder
<1>8. QED
  BY <1>1, <1>3, <1>6, <1>7

\* Every step of a writer.
LEMMA WritingKeepsText ==
  ASSUME OneWriter \/ InputsAreLines, Inv, Inv', TextInv, NEW t \in Writer, WriterStep(t)
  PROVE  TextInv'
<1> USE DEF Goto
<1>1. CASE AllocBuffer(t)
  <2>1. CASE GiveUp(t, ENOMEM) /\ UNCHANGED mem
    BY <1>1, <2>1, GiveUpKeepsText DEF AllocBuffer, store
  <2>2. CASE ~(GiveUp(t, ENOMEM) /\ UNCHANGED mem)
    <3>1. PICK g \in Uninit :
            mem' = MemAfter(NewPtr, [k \in 1 .. partial.size + call[t].count |-> g], {})
      BY <1>1, <2>2 DEF AllocBuffer
    <3>2. /\ pc[t] = "alloc" /\ call' = [call EXCEPT ![t].buffer = NewPtr]
          /\ pc' = [pc EXCEPT ![t] = "copy_partial"]
          /\ UNCHANGED <<ring, partial, lock, loaded, visible>>
      BY <1>1, <2>2 DEF AllocBuffer
    <3> DEFINE bytes == [k \in 1 .. partial.size + call[t].count |-> g]
    <3>3. mem' = MemAfter(NewPtr, bytes, {})
      BY <3>1
    <3> HIDE DEF bytes
    <3>4. QED
      BY <3>2, <3>3, AllocKeepsText
  <2>3. QED
    BY <2>1, <2>2
<1>2. CASE CopyPartial(t) /\ ~UsesFreed(t)
  BY <1>2, CopyPartialKeepsText
<1>3. CASE CopyUser(t)
  <2>1. CASE GiveUp(t, ENOMEM) /\ UNCHANGED mem
    BY <1>3, <2>1, GiveUpKeepsText DEF CopyUser, store
  <2>2. CASE ~(GiveUp(t, ENOMEM) /\ UNCHANGED mem)
    BY <1>3, <2>2, CopyUserKeepsText DEF CopyUser
  <2>3. QED
    BY <2>1, <2>2
<1>4. CASE FreePartial(t)
  BY <1>4, FreePartialKeepsText
<1>5. CASE ClearPartial(t)
  BY <1>5, ClearPartialKeepsText
<1>6. CASE LockForWrite(t)
  BY <1>6, LockKeepsText
<1>7. CASE StoreLine(t)
  <2>1. /\ pc[t] = "store" /\ LineLength(t) > 0
        /\ UNCHANGED <<partial, lock, loaded, visible>>
    BY <1>7 DEF StoreLine
  <2>2. \/ /\ mem' = MemAfter(NewPtr, SubSeq(Working(t), 1, LineLength(t)), {Garbage})
           /\ AddEntry([buffptr |-> NewPtr, size |-> LineLength(t)])
           /\ call' = [call EXCEPT ![t].off = @ + LineLength(t)]
           /\ UNCHANGED pc
        \/ /\ call' = [call EXCEPT ![t].ret = EINVAL] /\ pc' = [pc EXCEPT ![t] = "unlock"]
           /\ UNCHANGED <<ring, mem>> /\ "line" \in Failures
        \/ pc' = [pc EXCEPT ![t] = "oops"] /\ UNCHANGED <<ring, mem, call>>
    BY <1>7 DEF StoreLine
  <2>3. CASE /\ mem' = MemAfter(NewPtr, SubSeq(Working(t), 1, LineLength(t)), {Garbage})
             /\ AddEntry([buffptr |-> NewPtr, size |-> LineLength(t)])
             /\ call' = [call EXCEPT ![t].off = @ + LineLength(t)]
             /\ UNCHANGED pc
    BY <2>1, <2>3, StoreLineKeepsText
  <2>4. CASE /\ call' = [call EXCEPT ![t].ret = EINVAL] /\ pc' = [pc EXCEPT ![t] = "unlock"]
             /\ UNCHANGED <<ring, mem>> /\ "line" \in Failures
    <3>1. /\ t \in Task /\ DOMAIN call[t] = CallFields /\ call = [u \in Task |-> call[u]]
      BY DEF Inv, TaskTypes, Task
    <3>2. /\ ~(call'[t].ret >= 0) /\ call'[t].data = call[t].data
          /\ \A u \in Task : u # t => call'[u] = call[u]
      BY <2>4, <3>1 DEF CallFields, Task, EINVAL
    <3>3. MemoryKept(t)
      BY <2>4 DEF MemoryKept, Live
    <3>4. Bytes(partial)' = << >>
      <4>1. Bytes(partial) = << >>
        BY <2>1, PartialBytes DEF Inv, PartialStands
      <4>2. QED
        BY <2>1, <2>4, <4>1 DEF Bytes, Live
    <3>5. QED
      BY <2>1, <2>4, <3>2, <3>3, <3>4, LeaveLoopKeepsText
  <2>5. CASE pc' = [pc EXCEPT ![t] = "oops"] /\ UNCHANGED <<ring, mem, call>>
    BY <2>1, <2>5, OopsKeepsText DEF store
  <2>6. QED
    BY <2>2, <2>3, <2>4, <2>5
<1>8. CASE KeepTail(t)
  BY <1>8, KeepTailKeepsText
<1>9. CASE Unlock(t)
  BY <1>9, UnlockKeepsText
<1>10. CASE WriteOut(t)
  BY <1>10, WriteOutKeepsText
<1>11. CASE WriteInterrupted(t)
  BY <1>11, GiveUpKeepsText DEF WriteInterrupted
<1>12. ASSUME NEW f \in File, NEW data \in Inputs, WriteCall(t, f, data) PROVE TextInv'
  BY <1>12, WriteCallKeepsText
<1>13. CASE WriteRestart(t)
  BY <1>13, RestartKeepsText
<1>14. QED
  BY <1>1, <1>2, <1>3, <1>4, <1>5, <1>6, <1>7, <1>8, <1>9, <1>10, <1>11, <1>12, <1>13
  DEF WriterStep, WriteStep

\* What a running write has put into its buffer and into the ring, and what the
\* programs see of the device: in every state of the driver, when there is one writer
\* or all write whole lines.
THEOREM DriverText ==
  ASSUME OneWriter \/ InputsAreLines
  PROVE  Spec => []TextInv
<1>1. Init => TextInv
  <2>1. SUFFICES ASSUME Init PROVE TextInv
    OBVIOUS
  <2>2. /\ \A t \in Task : pc[t] = "idle"
        /\ lock = Nobody /\ ~loaded /\ visible = [lines |-> << >>, rest |-> << >>, ok |-> TRUE]
    BY <2>1 DEF Init
  <2>3. VisibleTypes
    <3>1. << >> \in Seq(Nat) /\ << >> \in Seq(Seq(Nat)) /\ Len(<< >>) = 0
      OBVIOUS
    <3>2. 0 <= N
      BY NAssumption
    <3>3. QED
      BY <2>2, <3>1, <3>2 DEF VisibleTypes
  <2>4. Holder
    BY <2>2, NobodyAssumption DEF Holder, Locking
  <2>5. RestStands /\ RingIsVisible
    BY <2>2 DEF RestStands, RingIsVisible
  <2>6. \A t \in Writer : WriterText(t)
    BY <2>2 DEF WriterText, BeforeLoop, Filled, Task
  <2>7. QED
    BY <2>3, <2>4, <2>5, <2>6 DEF TextInv
<1>2. ASSUME Inv, Inv', TextInv, [Next]_vars PROVE TextInv'
  <2>1. CASE Load \/ Unload \/ \E f \in File : Open(f) \/ Release(f)
    BY <1>2, <2>1, ModuleKeepsText
  <2>2. ASSUME NEW t \in Writer, WriterStep(t) PROVE TextInv'
    BY <1>2, <2>2, WritingKeepsText
  <2>3. ASSUME NEW t \in Reader, ReaderStep(t) PROVE TextInv'
    BY <1>2, <2>3, ReaderLeaves, UnchangedKeepsText
  <2>4. CASE UNCHANGED vars
    <3>1. Holder'
      BY <1>2, <2>4 DEF TextInv, Holder, vars
    <3>2. QED
      BY <1>2, <2>4, <3>1, UnchangedKeepsText DEF vars, store, ring, bufferVars
  <2>5. QED
    BY <1>2, <2>1, <2>2, <2>3, <2>4 DEF Next, WriterStep, ReaderStep
<1>3. QED
  BY <1>1, <1>2, DriverInvariant, PTL DEF Spec

\* A write that gives up before the loop is a failed write that stored nothing, and
\* left the unfinished line as it was or has lost it.
LEMMA GiveUpFails ==
  ASSUME OneWriter \/ InputsAreLines, Inv, TextInv, NEW t \in Writer, NEW error,
         GiveUp(t, error), pc[t] # "idle",
         Bytes(partial) \in {visible.rest, << >>}, Failures # {}
  PROVE  \E data \in Inputs : Device!FailedWrite(data)
<1>1. visible' = [visible EXCEPT !.rest = Bytes(partial), !.ok = FALSE]
  BY DEF GiveUp
<1>2. visible \in [lines : Seq(Seq(Nat)), rest : Seq(Nat), ok : BOOLEAN]
  BY DEF TextInv, VisibleTypes
<1>3. visible'.lines = visible.lines /\ visible'.rest = Bytes(partial) /\ visible'.ok = FALSE
  BY <1>1, <1>2
<1>4. call[t].data \in Inputs /\ Whole(t) \in Seq(Nat) /\ visible.lines \in Seq(Seq(Nat))
  BY WholeTyped DEF TextInv
<1>5. CASE Bytes(partial) = visible.rest
  <2>1. Device!FailedWrite(call[t].data)
    BY <1>3, <1>5 DEF Device!FailedWrite
  <2>2. QED
    BY <1>4, <2>1
<1>6. CASE Bytes(partial) = << >>
  <2> DEFINE Ls == Device!LinesOf(Whole(t))
  <2>1. 0 \in 0 .. Len(Ls)
    BY <1>4, LinesByEnds
  <2>2. SubSeq(Ls, 1, 0) = << >>
    BY SubSeqEmpty
  <2>3. visible.lines \o << >> = visible.lines
    BY <1>4, ConcatEmptySeq
  <2>4. Device!LastLines(visible.lines) = visible.lines
    BY <1>4, LastLinesAll DEF TextInv, VisibleTypes
  <2>5. visible'.lines = Device!LastLines(visible.lines \o SubSeq(Ls, 1, 0))
    BY <1>3, <2>2, <2>3, <2>4
  <2>6. Device!FailedWrite(call[t].data)
    BY <1>3, <1>6, <2>1, <2>5 DEF Device!FailedWrite, Whole
  <2>7. QED
    BY <1>4, <2>6
<1>7. QED
  BY <1>5, <1>6

\* Unlocking is the step at which the write happens.
LEMMA UnlockWrites ==
  ASSUME Inv, TextInv, NEW t \in Writer, Unlock(t)
  PROVE  \E data \in Inputs : Device!Write(data) \/ Device!FailedWrite(data)
<1> DEFINE text == Whole(t)
           Ls == Device!LinesOf(text)
           data == call[t].data
<1>1. /\ pc[t] = "unlock"
      /\ visible' = [lines |-> StoredLines, rest |-> Bytes(partial), ok |-> call[t].ret >= 0]
  BY DEF Unlock
<1>2. /\ visible'.lines = StoredLines /\ visible'.rest = Bytes(partial)
      /\ visible'.ok = (call[t].ret >= 0)
  BY <1>1
<1>3. text \in Seq(Nat) /\ data \in Inputs /\ visible.lines \in Seq(Seq(Nat))
  BY <1>1, WholeTyped DEF TextInv
<1>4. Ls \in Seq(Seq(Nat)) /\ Len(Ls) = Len(Device!Ends(text))
  BY <1>3, LinesByEnds
<1>5. PICK k \in 0 .. Len(Device!Ends(text)) : AtEnd(t, k)
  BY <1>1 DEF TextInv, WriterText
<1>6. StoredLines = Device!LastLines(visible.lines \o SubSeq(Ls, 1, k))
  BY <1>5 DEF AtEnd, Kept
<1>7. text = visible.rest \o data
  BY DEF Whole
<1>8. CASE /\ call[t].ret >= 0 /\ k = Len(Device!Ends(text))
           /\ Bytes(partial) = Device!RestOf(text)
  <2>1. SubSeq(Ls, 1, k) = Ls
    BY <1>4, <1>8, SubSeqFull
  <2>2. visible'.lines = Device!LastLines(visible.lines \o Ls)
    BY <1>2, <1>6, <2>1
  <2>3. visible'.ok = TRUE
    BY <1>2, <1>8
  <2>4. Device!Write(data)
    BY <1>2, <1>7, <1>8, <2>2, <2>3 DEF Device!Write
  <2>5. QED
    BY <1>3, <2>4
<1>9. CASE ~(call[t].ret >= 0) /\ Bytes(partial) = << >> /\ Failures # {}
  <2>1. visible'.ok = FALSE
    <3> DEFINE b == call[t].ret >= 0
    <3>1. ~b /\ b \in BOOLEAN /\ visible'.ok = b
      BY <1>2, <1>9
    <3> HIDE DEF b
    <3>2. QED
      BY <3>1
  <2>2. k \in 0 .. Len(Ls)
    BY <1>4, <1>5
  <2>3. visible'.lines = Device!LastLines(visible.lines \o SubSeq(Ls, 1, k))
    BY <1>2, <1>6
  <2>4. Device!FailedWrite(data)
    BY <1>2, <1>7, <1>9, <2>1, <2>2, <2>3 DEF Device!FailedWrite
  <2>5. QED
    BY <1>3, <2>4
<1>10. QED
  BY <1>5, <1>8, <1>9 DEF AtEnd

\* Every step of the driver is a step of the line device, or one that it does not see.
LEMMA StepsAreDevice ==
  ASSUME OneWriter \/ InputsAreLines, Inv, TextInv, [Next]_vars
  PROVE  [Device!DeviceNext]_Device!deviceVars
<1>1. SUFFICES ASSUME visible' # visible PROVE Device!DeviceNext
  BY DEF Device!deviceVars
<1>2. CASE Load
  BY <1>2 DEF Load, Device!DeviceNext, Device!Reload
<1>3. CASE Unload \/ \E f \in File : Open(f) \/ Release(f)
  BY <1>1, <1>3 DEF Unload, Open, Release
<1>4. ASSUME NEW t \in Reader, ReaderStep(t) PROVE Device!DeviceNext
  BY <1>1, <1>4, ReaderLeaves
<1>5. ASSUME NEW t \in Writer, NEW error, GiveUp(t, error), pc[t] # "idle",
             Bytes(partial) \in {visible.rest, << >>}, Failures # {}
      PROVE  Device!DeviceNext
  BY <1>5, GiveUpFails DEF Device!DeviceNext
<1>6. ASSUME NEW t \in Writer, WriterStep(t) PROVE Device!DeviceNext
  <2>1. CASE AllocBuffer(t) \/ CopyUser(t)
    <3>1. /\ GiveUp(t, ENOMEM) /\ Failures # {} /\ pc[t] \in {"alloc", "copy_user"}
      BY <1>1, <2>1 DEF AllocBuffer, CopyUser
    <3>2. pc[t] \notin Late /\ pc[t] # "idle"
      BY <3>1 DEF Late
    <3>3. visible.rest = Bytes(partial)
      <4>1. loaded
        BY <1>6, <3>2, WholeTyped DEF TextInv
      <4>2. QED
        BY <1>6, <3>2, <4>1, RestIsPartial DEF TextInv
    <3>4. QED
      BY <1>5, <1>6, <3>1, <3>2, <3>3
  <2>2. CASE WriteInterrupted(t)
    <3>1. /\ GiveUp(t, ERESTARTSYS) /\ Failures # {} /\ pc[t] = "lock"
      BY <2>2 DEF WriteInterrupted
    <3>2. Bytes(partial) = << >>
      BY <1>6, <3>1, PartialBytes DEF Inv, PartialStands
    <3>3. QED
      BY <1>5, <1>6, <3>1, <3>2
  <2>3. CASE Unlock(t)
    BY <1>6, <2>3, UnlockWrites DEF Device!DeviceNext
  <2>4. ASSUME NEW f \in File, NEW data \in Inputs, WriteCall(t, f, data) PROVE FALSE
    BY <1>1, <2>4 DEF WriteCall, Enter
  <2>5. CASE CopyPartial(t) \/ FreePartial(t) \/ ClearPartial(t) \/ LockForWrite(t)
    BY <1>1, <2>5 DEF CopyPartial, FreePartial, ClearPartial, LockForWrite
  <2>6. CASE StoreLine(t) \/ KeepTail(t) \/ WriteOut(t) \/ WriteRestart(t)
    BY <1>1, <2>6 DEF StoreLine, KeepTail, WriteOut, WriteRestart
  <2>7. QED
    BY <1>6, <2>1, <2>2, <2>3, <2>4, <2>5, <2>6 DEF WriterStep, WriteStep
<1>7. QED
  BY <1>1, <1>2, <1>3, <1>4, <1>6 DEF Next, vars, WriterStep, ReaderStep

\* Seen from the programs a write of aesd_write is one step that keeps the last N
\* lines, at the moment it unlocks or gives up, and only a call that returns an error
\* loses anything: the driver implements the line device.  (The error of a write that
\* was interrupted while it waited for the lock need not reach the program: the kernel
\* may repeat the call.)
THEOREM DriverWritesAreAtomic ==
  ASSUME OneWriter \/ InputsAreLines
  PROVE  Spec => WritesAreAtomic
<1>1. Init => Device!DeviceInit
  BY DEF Init, Device!DeviceInit
<1>2. ASSUME Inv, TextInv, [Next]_vars PROVE [Device!DeviceNext]_Device!deviceVars
  BY <1>2, StepsAreDevice
<1>3. QED
  BY <1>1, <1>2, DriverInvariant, DriverText, PTL
  DEF Spec, WritesAreAtomic, Device!DeviceSpec

(* ---------------------- where the lines lie in it ---------------------- *)

\* FlattenSeq(s) is the last of its partial results.
PartialTexts(s, g) ==
  /\ g \in [1 .. Len(s) -> Seq(Nat)] /\ g[1] = s[1]
  /\ \A i \in 2 .. Len(s) : g[i] = g[i - 1] \o s[i]

\* They exist for every sequence of byte sequences.
LEMMA FlattenPartial ==
  ASSUME NEW s \in Seq(Seq(Nat)), s # << >>
  PROVE  \E g : PartialTexts(s, g) /\ FlattenSeq(s) = g[Len(s)]
<1> DEFINE L == Len(s)
           Step(g, i) == IF i = 1 THEN s[i] ELSE g[i - 1] \o s[i]
           Upto(g, n) == g \in [1 .. n -> Seq(Nat)] /\ \A i \in 1 .. n : g[i] = Step(g, i)
<1>1. L \in Nat \ {0} /\ \A i \in 1 .. L : s[i] \in Seq(Nat)
  OBVIOUS
<1> HIDE DEF L
<1>2. \A n \in 1 .. L : \E g : Upto(g, n)
  <2> DEFINE A == {n \in 1 .. L : ~\E g : Upto(g, n)}
  <2>1. SUFFICES ASSUME A # {} PROVE FALSE
    OBVIOUS
  <2>2. PICK n \in A : \A m \in A : n <= m
    <3>1. A \in SUBSET Nat
      BY <1>1
    <3> HIDE DEF A
    <3>2. QED
      BY <2>1, <3>1, MinOfNaturals
  <2>3. n \in 1 .. L
    OBVIOUS
  <2>4. CASE n = 1
    <3> DEFINE h == [i \in 1 .. 1 |-> s[1]]
    <3>1. Upto(h, 1)
      BY <1>1
    <3>2. QED
      BY <2>4, <3>1
  <2>5. CASE n # 1
    <3>1. n - 1 \in 1 .. L /\ n - 1 \notin A
      <4> HIDE DEF A
      <4>1. QED
        BY <1>1, <2>2, <2>3, <2>5
    <3>2. PICK g : Upto(g, n - 1)
      <4> HIDE DEF Upto
      <4>1. QED
        BY <3>1
    <3> DEFINE h == [i \in 1 .. n |-> IF i = n THEN g[n - 1] \o s[n] ELSE g[i]]
    <3>3. h \in [1 .. n -> Seq(Nat)]
      BY <1>1, <2>3, <2>5, <3>2
    <3>4. \A i \in 1 .. n : h[i] = Step(h, i)
      <4>1. SUFFICES ASSUME NEW i \in 1 .. n PROVE h[i] = Step(h, i)
        OBVIOUS
      <4>0. n - 1 \in 1 .. n /\ n - 1 # n /\ n \in 1 .. n
        BY <1>1, <2>3, <2>5
      <4>2. CASE i = n
        <5>1. h[n - 1] = g[n - 1] /\ h[n] = g[n - 1] \o s[n]
          BY <4>0
        <5>2. QED
          BY <4>2, <5>1, <2>5
      <4>3. CASE i # n
        <5>1. i \in 1 .. n - 1 /\ (i # 1 => i - 1 \in 1 .. n - 1)
          BY <1>1, <2>3, <4>3
        <5>2. g[i] = Step(g, i) /\ h[i] = g[i] /\ (i # 1 => h[i - 1] = g[i - 1])
          <6>1. g[i] = Step(g, i)
            BY <3>2, <5>1
          <6>2. \A x \in 1 .. n - 1 : x \in 1 .. n /\ x # n
            BY <1>1, <2>3
          <6>3. \A x \in 1 .. n - 1 : h[x] = g[x]
            BY <6>2
          <6> HIDE DEF h, Step
          <6>4. QED
            BY <5>1, <6>1, <6>3
        <5>3. QED
          BY <5>2
      <4>4. QED
        BY <4>2, <4>3
    <3>5. Upto(h, n)
      BY <3>3, <3>4
    <3> HIDE DEF h, Upto
    <3>6. QED
      BY <3>5
  <2>6. QED
    BY <2>4, <2>5
<1> DEFINE f == CHOOSE f : f = [i \in 1 .. L |-> Step(f, i)]
<1>3. f = [i \in 1 .. L |-> Step(f, i)]
  <2>1. PICK g : Upto(g, L)
    <3>1. L \in 1 .. L
      BY <1>1
    <3> HIDE DEF Upto
    <3>2. QED
      BY <1>2, <3>1
  <2>2. g = [i \in 1 .. L |-> Step(g, i)]
    BY <2>1
  <2> HIDE DEF Step
  <2>3. QED
    BY <2>2, Zenon
<1>4. FlattenSeq(s) = f[L]
  BY <1>1 DEF FlattenSeq, L
<1> HIDE DEF f
<1>5. \A i \in 1 .. L : f[i] \in Seq(Nat)
  <2> DEFINE A == {i \in 1 .. L : f[i] \notin Seq(Nat)}
  <2>1. SUFFICES ASSUME A # {} PROVE FALSE
    OBVIOUS
  <2>2. PICK n \in A : \A m \in A : n <= m
    <3>1. A \in SUBSET Nat
      BY <1>1
    <3> HIDE DEF A
    <3>2. QED
      BY <2>1, <3>1, MinOfNaturals
  <2>3. n \in 1 .. L /\ f[n] \notin Seq(Nat) /\ f[n] = Step(f, n)
    BY <1>3
  <2>4. n # 1 => n - 1 \in 1 .. L /\ f[n - 1] \in Seq(Nat)
    BY <1>1, <2>2, <2>3
  <2>5. QED
    BY <1>1, <2>3, <2>4
<1>6. PartialTexts(s, f)
  <2>1. f \in [1 .. L -> Seq(Nat)]
    BY <1>3, <1>5
  <2>2. \A i \in 1 .. L : f[i] = Step(f, i)
    BY <1>3
  <2>3. f[1] = s[1] /\ \A i \in 2 .. L : f[i] = f[i - 1] \o s[i]
    <3>1. 1 \in 1 .. L /\ \A i \in 2 .. L : i \in 1 .. L /\ i # 1
      BY <1>1
    <3>2. QED
      BY <2>2, <3>1
  <2>4. QED
    BY <2>1, <2>3 DEF PartialTexts, L
<1>7. QED
  BY <1>4, <1>6 DEF L

\* The text of the first k lines; it grows line by line.
TextUpTo(s, k) == FlattenSeq(SubSeq(s, 1, k))

\* The text grows line by line.
LEMMA TextGrows ==
  ASSUME NEW s \in Seq(Seq(Nat))
  PROVE  /\ TextUpTo(s, 0) = << >> /\ TextUpTo(s, Len(s)) = FlattenSeq(s)
         /\ \A k \in 0 .. Len(s) : TextUpTo(s, k) \in Seq(Nat)
         /\ \A k \in 0 .. Len(s) - 1 : TextUpTo(s, k + 1) = TextUpTo(s, k) \o s[k + 1]
<1> DEFINE L == Len(s)
<1>0. L \in Nat /\ \A i \in 1 .. L : s[i] \in Seq(Nat)
  OBVIOUS
<1>1. TextUpTo(s, 0) = << >>
  <2>1. SubSeq(s, 1, 0) = << >>
    OBVIOUS
  <2>2. QED
    BY <2>1 DEF TextUpTo, FlattenSeq
<1>2. TextUpTo(s, L) = FlattenSeq(s)
  BY SubSeqFull DEF TextUpTo
<1>3. CASE s = << >>
  <2>1. L = 0 /\ << >> \in Seq(Nat)
    BY <1>3
  <2>2. \A k \in 0 .. L : k = 0
    BY <2>1
  <2>3. 0 .. L - 1 = {}
    BY <2>1
  <2> HIDE DEF L
  <2>4. QED
    BY <1>1, <1>2, <2>1, <2>2, <2>3 DEF L
<1>4. CASE s # << >>
  <2>1. PICK g : PartialTexts(s, g)
    BY <1>4, FlattenPartial
  <2>2. /\ \A i \in 1 .. L : g[i] \in Seq(Nat)
        /\ g[1] = s[1] /\ \A i \in 2 .. L : g[i] = g[i - 1] \o s[i]
    BY <2>1 DEF PartialTexts
  <2>3. ASSUME NEW k \in 1 .. L PROVE TextUpTo(s, k) = g[k]
    <3> DEFINE p == SubSeq(s, 1, k)
    <3>1. p \in Seq(Seq(Nat)) /\ Len(p) = k /\ \A i \in 1 .. k : p[i] = s[i]
      BY <1>0
    <3>2. p # << >> /\ k \in Nat \ {0} /\ 1 \in 1 .. k /\ k \in 1 .. k
      <4>1. k \in Nat \ {0} /\ 1 \in 1 .. k /\ k \in 1 .. k
        BY <1>0
      <4> HIDE DEF p
      <4>2. QED
        BY <3>1, <4>1
    <3> HIDE DEF p
    <3>3. PICK h : PartialTexts(p, h) /\ FlattenSeq(p) = h[k]
      BY <3>1, <3>2, FlattenPartial
    <3>4. h[1] = s[1] /\ \A i \in 2 .. k : h[i] = h[i - 1] \o s[i]
      <4>1. h[1] = p[1] /\ \A i \in 2 .. k : h[i] = h[i - 1] \o p[i]
        BY <3>1, <3>3 DEF PartialTexts
      <4>2. \A i \in 2 .. k : i \in 1 .. k
        OBVIOUS
      <4>3. QED
        BY <3>1, <3>2, <4>1, <4>2
    <3> DEFINE A == {i \in 1 .. k : h[i] # g[i]}
    <3>5. ASSUME A # {} PROVE FALSE
      <4>1. A \in SUBSET Nat
        BY <3>2
      <4>2. PICK n \in A : \A m \in A : n <= m
        <5> HIDE DEF A
        <5>1. QED
          BY <3>5, <4>1, MinOfNaturals
      <4>3. n \in 1 .. k /\ h[n] # g[n]
        OBVIOUS
      <4>4. n # 1
        BY <2>2, <3>4, <4>3
      <4>5. n \in 2 .. k /\ n \in 2 .. L /\ n - 1 \in 1 .. k /\ n - 1 < n
        BY <1>0, <3>2, <4>3, <4>4
      <4>6. n - 1 \notin A
        <5> HIDE DEF A
        <5>1. QED
          BY <3>2, <4>2, <4>3, <4>5
      <4>7. h[n - 1] = g[n - 1]
        BY <4>5, <4>6
      <4>8. QED
        BY <2>2, <3>4, <4>3, <4>5, <4>7
    <3>6. h[k] = g[k]
      BY <3>2, <3>5
    <3>7. QED
      BY <3>3, <3>6 DEF TextUpTo, p
  <2>4. ASSUME NEW k \in 0 .. L PROVE TextUpTo(s, k) \in Seq(Nat)
    <3>1. << >> \in Seq(Nat)
      OBVIOUS
    <3>2. k = 0 \/ k \in 1 .. L
      BY <1>0
    <3>3. QED
      BY <1>1, <2>2, <2>3, <3>1, <3>2
  <2>5. ASSUME NEW k \in 0 .. L - 1 PROVE TextUpTo(s, k + 1) = TextUpTo(s, k) \o s[k + 1]
    <3>1. k + 1 \in 1 .. L /\ (k = 0 \/ (k \in 1 .. L /\ k + 1 \in 2 .. L /\ (k + 1) - 1 = k))
      BY <1>0
    <3>2. CASE k = 0
      <4>1. s[1] \in Seq(Nat) /\ << >> \o s[1] = s[1]
        BY <1>0, <3>1, <3>2
      <4>2. TextUpTo(s, 1) = s[1]
        BY <2>2, <2>3, <3>1, <3>2
      <4>3. k + 1 = 1
        BY <3>2
      <4>4. QED
        BY <1>1, <3>2, <4>1, <4>2, <4>3
    <3>3. CASE k # 0
      BY <2>2, <2>3, <3>1, <3>3
    <3>4. QED
      BY <3>2, <3>3
  <2> HIDE DEF L
  <2>6. QED
    BY <1>1, <1>2, <2>4, <2>5 DEF L
<1>5. QED
  BY <1>3, <1>4

\* The text of the first lines is where the text of more lines starts.
LEMMA TextStarts ==
  ASSUME NEW s \in Seq(Seq(Nat)), NEW j \in 0 .. Len(s), NEW k \in 0 .. Len(s), j <= k
  PROVE  /\ Len(TextUpTo(s, j)) \in Nat /\ Len(TextUpTo(s, k)) \in Nat
         /\ Len(TextUpTo(s, j)) <= Len(TextUpTo(s, k))
         /\ \A i \in 1 .. Len(TextUpTo(s, j)) : TextUpTo(s, k)[i] = TextUpTo(s, j)[i]
<1> DEFINE L == Len(s)
           T(n) == TextUpTo(s, n)
           Starts(n) == /\ Len(T(j)) <= Len(T(n))
                        /\ \A i \in 1 .. Len(T(j)) : T(n)[i] = T(j)[i]
           Wrong == {n \in Nat : j <= n /\ n <= L /\ ~Starts(n)}
<1>1. /\ L \in Nat /\ \A n \in 0 .. L : T(n) \in Seq(Nat)
      /\ \A n \in 0 .. L - 1 : T(n + 1) = T(n) \o s[n + 1]
      /\ \A i \in 1 .. L : s[i] \in Seq(Nat)
  <2>1. L \in Nat /\ \A i \in 1 .. L : s[i] \in Seq(Nat)
    OBVIOUS
  <2>2. /\ \A n \in 0 .. L : T(n) \in Seq(Nat)
        /\ \A n \in 0 .. L - 1 : T(n + 1) = T(n) \o s[n + 1]
    BY TextGrows, Zenon
  <2>3. QED
    BY <2>1, <2>2
<1>2. \A n \in 0 .. L : Len(T(n)) \in Nat
  <2>1. \A x \in Seq(Nat) : Len(x) \in Nat
    OBVIOUS
  <2>2. QED
    BY <1>1, <2>1
<1> HIDE DEF L, T
<1>3. Wrong = {}
  <2>1. SUFFICES ASSUME Wrong # {} PROVE FALSE
    OBVIOUS
  <2>2. PICK m \in Wrong : \A n \in Wrong : m <= n
    <3>1. Wrong \in SUBSET Nat
      OBVIOUS
    <3> HIDE DEF Wrong
    <3>2. QED
      BY <2>1, <3>1, MinOfNaturals
  <2> HIDE DEF Starts
  <2>3. m \in Nat /\ j <= m /\ m <= L /\ ~Starts(m)
    OBVIOUS
  <2>4. j \in 0 .. L
    BY DEF L
  <2>5. Starts(j)
    BY <1>2, <2>4 DEF Starts
  <2>6. m # j
    BY <2>3, <2>5
  <2>7. m - 1 \in 0 .. L - 1 /\ (m - 1) + 1 = m /\ m - 1 \in Nat /\ j <= m - 1 /\ m - 1 <= L
        /\ m \in 1 .. L /\ m - 1 \in 0 .. L /\ m - 1 < m
    BY <1>1, <2>3, <2>4, <2>6
  <2>8. Starts(m - 1)
    <3>1. m - 1 \notin Wrong
      <4> HIDE DEF Wrong
      <4>1. QED
        BY <2>2, <2>3, <2>7
    <3>2. QED
      BY <2>7, <3>1
  <2>9. T(m) = T(m - 1) \o s[m] /\ T(m - 1) \in Seq(Nat) /\ s[m] \in Seq(Nat)
    BY <1>1, <2>7
  <2>10. /\ Len(T(m)) = Len(T(m - 1)) + Len(s[m]) /\ Len(s[m]) \in Nat
         /\ \A i \in 1 .. Len(T(m - 1)) : T(m)[i] = T(m - 1)[i]
    BY <2>9, ConcatProperties
  <2>11. Len(T(j)) \in Nat /\ Len(T(m - 1)) \in Nat /\ Len(T(m)) \in Nat
    BY <1>2, <2>4, <2>7
  <2>12. Len(T(j)) <= Len(T(m - 1)) /\ \A i \in 1 .. Len(T(j)) : T(m - 1)[i] = T(j)[i]
    BY <2>8 DEF Starts
  <2>13. Len(T(j)) <= Len(T(m)) /\ \A i \in 1 .. Len(T(j)) : i \in 1 .. Len(T(m - 1))
    <3> DEFINE x == Len(T(j))
               y == Len(T(m - 1))
               z == Len(T(m))
               d == Len(s[m])
    <3>1. x \in Nat /\ y \in Nat /\ d \in Nat /\ x <= y /\ z = y + d
      BY <2>10, <2>11, <2>12
    <3> HIDE DEF x, y, z, d
    <3>2. x <= z /\ \A i \in 1 .. x : i \in 1 .. y
      BY <3>1
    <3>3. QED
      BY <3>2 DEF x, y, z
  <2>14. Starts(m)
    BY <2>10, <2>12, <2>13 DEF Starts
  <2>15. QED
    BY <2>3, <2>14
<1>4. Starts(k)
  <2>1. k \in Nat /\ k <= L
    BY <1>1 DEF L
  <2> HIDE DEF Starts
  <2>2. QED
    BY <1>3, <2>1
<1>5. j \in 0 .. L /\ k \in 0 .. L
  BY DEF L
<1>6. QED
  BY <1>2, <1>4, <1>5 DEF T

\* Where the k-th line (from 0) lies in the whole text.
LEMMA LineInText ==
  ASSUME NEW s \in Seq(Seq(Nat)), NEW k \in 0 .. Len(s) - 1
  PROVE  /\ FlattenSeq(s) \in Seq(Nat) /\ Len(FlattenSeq(s)) \in Nat
         /\ Len(TextUpTo(s, k)) \in Nat /\ Len(s[k + 1]) \in Nat
         /\ Len(TextUpTo(s, k)) + Len(s[k + 1]) <= Len(FlattenSeq(s))
         /\ \A i \in 1 .. Len(s[k + 1]) : FlattenSeq(s)[Len(TextUpTo(s, k)) + i] = s[k + 1][i]
<1> DEFINE L == Len(s)
           a == TextUpTo(s, k)
           b == TextUpTo(s, k + 1)
           x == s[k + 1]
           w == FlattenSeq(s)
<1>1. L \in Nat /\ k \in 0 .. L /\ k + 1 \in 0 .. L /\ k + 1 \in 1 .. L /\ L \in 0 .. L
      /\ k + 1 <= L
  OBVIOUS
<1>2. a \in Seq(Nat) /\ b = a \o x /\ w = TextUpTo(s, L) /\ w \in Seq(Nat)
  BY <1>1, TextGrows
<1>3. x \in Seq(Nat)
  BY <1>1
<1>4. /\ Len(b) \in Nat /\ Len(w) \in Nat /\ Len(b) <= Len(w)
      /\ \A i \in 1 .. Len(b) : w[i] = b[i]
  <2> HIDE DEF w, b
  <2>1. /\ Len(TextUpTo(s, k + 1)) \in Nat /\ Len(TextUpTo(s, L)) \in Nat
        /\ Len(TextUpTo(s, k + 1)) <= Len(TextUpTo(s, L))
        /\ \A i \in 1 .. Len(TextUpTo(s, k + 1)) :
             TextUpTo(s, L)[i] = TextUpTo(s, k + 1)[i]
    BY <1>1, TextStarts
  <2>2. QED
    BY <1>2, <2>1 DEF b
<1> HIDE DEF L, a, b, x, w
<1>5. /\ Len(b) = Len(a) + Len(x) /\ Len(a) \in Nat /\ Len(x) \in Nat
      /\ \A i \in 1 .. Len(x) : b[Len(a) + i] = x[i]
  BY <1>2, <1>3, ConcatProperties
<1>6. \A i \in 1 .. Len(x) : Len(a) + i \in 1 .. Len(b)
  BY <1>5
<1>7. \A i \in 1 .. Len(x) : w[Len(a) + i] = x[i]
  BY <1>4, <1>5, <1>6
<1>8. QED
  BY <1>2, <1>4, <1>5, <1>7 DEF a, x, w

\* The slots met in the first j turns; in N turns each slot is met once.
Met(j) == {x \in Slot : \E i \in 0 .. j - 1 : x = (out_offs + i) % N}
lengths == [i \in Slot |-> entry[i].size]

\* The walk from out_offs meets each slot once.
LEMMA MetNext ==
  ASSUME BufferTypeOK
  PROVE  /\ Met(0) = {} /\ Met(N) = Slot
         /\ \A j \in 0 .. N - 1 : /\ (out_offs + j) % N \in Met(j + 1)
                                  /\ Met(j + 1) \ {(out_offs + j) % N} = Met(j)
<1>1. N \in Nat \ {0} /\ out_offs \in 0 .. N - 1
  BY NAssumption DEF BufferTypeOK, Slot
<1>2. \A i \in 0 .. N : /\ (out_offs + i) % N \in Slot
                        /\ (out_offs + i) % N = IF out_offs + i < N THEN out_offs + i
                                                ELSE out_offs + i - N
  BY SlotAfter DEF BufferTypeOK
<1>3. Met(0) = {}
  <2>1. 0 .. 0 - 1 = {}
    OBVIOUS
  <2>2. QED
    BY <2>1 DEF Met
<1>4. Met(N) = Slot
  <2>1. ASSUME NEW x \in Slot PROVE \E i \in 0 .. N - 1 : x = (out_offs + i) % N
    <3> DEFINE i == IF x >= out_offs THEN x - out_offs ELSE x - out_offs + N
    <3>1. x \in 0 .. N - 1
      BY DEF Slot
    <3>2. i \in 0 .. N - 1 /\ i \in 0 .. N
          /\ x = IF out_offs + i < N THEN out_offs + i ELSE out_offs + i - N
      BY <1>1, <3>1
    <3> HIDE DEF i
    <3>3. QED
      BY <1>2, <3>2
  <2>2. QED
    BY <2>1 DEF Met
<1>5. ASSUME NEW j \in 0 .. N - 1
      PROVE  /\ (out_offs + j) % N \in Met(j + 1)
             /\ Met(j + 1) \ {(out_offs + j) % N} = Met(j)
  <2> DEFINE s == (out_offs + j) % N
  <2>1. /\ (j + 1) - 1 = j /\ j \in 0 .. N /\ j \in 0 .. j
        /\ \A i \in 0 .. j : i \in 0 .. N /\ (i = j \/ i \in 0 .. j - 1)
        /\ \A i \in 0 .. j - 1 : i \in 0 .. N /\ i \in 0 .. j /\ i < j
    BY <1>1
  <2>2. s \in Slot
    BY <1>2, <2>1
  <2>3. \A i \in 0 .. j - 1 : (out_offs + i) % N # s
    <3>1. SUFFICES ASSUME NEW i \in 0 .. j - 1, (out_offs + i) % N = s PROVE FALSE
      OBVIOUS
    <3>2. (out_offs + i) % N = IF out_offs + i < N THEN out_offs + i ELSE out_offs + i - N
      BY <1>2, <2>1
    <3>3. s = IF out_offs + j < N THEN out_offs + j ELSE out_offs + j - N
      BY <1>2, <2>1
    <3> HIDE DEF s
    <3>4. QED
      BY <1>1, <2>1, <3>1, <3>2, <3>3
  <2>4. Met(j + 1) = {x \in Slot : \E i \in 0 .. j : x = (out_offs + i) % N}
    BY <2>1 DEF Met
  <2>5. QED
    BY <2>1, <2>2, <2>3, <2>4 DEF Met
<1>6. QED
  BY <1>3, <1>4, <1>5

\* The sizes of all slots add up to the bytes that N turns of the search pass.
LEMMA TotalIsBefore ==
  ASSUME BufferTypeOK
  PROVE  TotalSize = Before(N)
<1>1. N \in Nat \ {0} /\ \A i \in Slot : lengths[i] \in Nat /\ lengths[i] = entry[i].size
  BY NAssumption DEF BufferTypeOK, BufferEntry, lengths
<1>2. TotalSize = Sum(lengths, Slot)
  <2> DEFINE Rule(it) ==
               it = [s \in SUBSET Slot |->
                       IF s = {} THEN 0
                       ELSE entry[CHOOSE x \in s : TRUE].size
                              + it[s \ {CHOOSE x \in s : TRUE}]]
  <2>1. \A s \in SUBSET Slot : s # {} =>
          lengths[Picked(s)] = entry[CHOOSE x \in s : TRUE].size
    <3>1. SUFFICES ASSUME NEW s \in SUBSET Slot, s # {}
                   PROVE  lengths[Picked(s)] = entry[CHOOSE x \in s : TRUE].size
      OBVIOUS
    <3>2. Picked(s) \in s
      BY <3>1 DEF Picked
    <3>3. QED
      BY <3>2 DEF Picked, lengths
  <2>2. TotalSize = (CHOOSE it : Rule(it))[Slot]
    BY DEF TotalSize, MapThenSumSet, MapThenFoldSet
  <2>3. \A it : Rule(it) <=> SumRule(it, lengths, SUBSET Slot)
    BY <2>1 DEF SumRule, Picked
  <2>4. (CHOOSE it : Rule(it)) = CHOOSE it : SumRule(it, lengths, SUBSET Slot)
    <3> HIDE DEF Rule
    <3>1. QED
      BY <2>3
  <2> HIDE DEF Rule
  <2>5. QED
    BY <2>2, <2>4 DEF Sum
<1> DEFINE Wrong == {j \in Nat : j <= N /\ Sum(lengths, Met(j)) # Before(j)}
<1>3. Wrong = {}
  <2>1. SUFFICES ASSUME Wrong # {} PROVE FALSE
    OBVIOUS
  <2>2. PICK m \in Wrong : \A n \in Wrong : m <= n
    <3>1. Wrong \in SUBSET Nat
      OBVIOUS
    <3> HIDE DEF Wrong
    <3>2. QED
      BY <2>1, <3>1, MinOfNaturals
  <2>3. m \in Nat /\ m <= N /\ Sum(lengths, Met(m)) # Before(m)
    OBVIOUS
  <2>4. m # 0
    BY <2>3, SumEmpty, BeforeNext, MetNext
  <2>5. PICK n \in 0 .. N - 1 : m = n + 1
    <3>1. m - 1 \in 0 .. N - 1 /\ m = (m - 1) + 1
      BY <1>1, <2>3, <2>4
    <3>2. QED
      BY <3>1
  <2>6. n \in Nat /\ n <= N /\ ~(m <= n)
    BY <1>1, <2>5
  <2>7. Sum(lengths, Met(n)) = Before(n)
    <3>1. n \notin Wrong
      <4> HIDE DEF Wrong
      <4>1. QED
        BY <2>2, <2>6
    <3>2. QED
      BY <2>6, <3>1
  <2> DEFINE s == (out_offs + n) % N
             M == Met(n + 1)
  <2>8. s \in M /\ M \ {s} = Met(n)
    BY MetNext
  <2>9. IsFiniteSet(M) /\ \A x \in M : lengths[x] \in Nat
    <3>1. M \in SUBSET Slot
      BY DEF Met
    <3>2. IsFiniteSet(Slot)
      BY <1>1, FS_Interval DEF Slot
    <3> HIDE DEF M
    <3>3. QED
      BY <1>1, <3>1, <3>2, FS_Subset
  <2>10. Before(n + 1) = Before(n) + sizes[n] /\ sizes[n] = entry[s].size /\ s \in Slot
         /\ Before(n) \in Nat /\ sizes[n] \in Nat
    BY <2>6, BeforeNext
  <2> HIDE DEF s, M
  <2>11. Sum(lengths, M) = lengths[s] + Sum(lengths, M \ {s})
    BY <2>8, <2>9, SumSplits
  <2>12. lengths[s] = sizes[n]
    BY <1>1, <2>10
  <2>13. Sum(lengths, M) = sizes[n] + Before(n)
    BY <2>7, <2>8, <2>11, <2>12
  <2>14. Sum(lengths, M) = Before(n + 1)
    BY <2>10, <2>13
  <2>15. QED
    BY <2>3, <2>5, <2>14 DEF M
<1>4. Sum(lengths, Met(N)) = Before(N)
  BY <1>1, <1>3
<1>5. QED
  BY <1>2, <1>4, MetNext

\* What the seek ioctl computes.
LEMMA AdjustIsBefore ==
  ASSUME BufferTypeOK, NEW k \in Nat, NEW i \in Nat
  PROVE  AdjustFileOffset(k, i)
           = IF k >= N \/ i > sizes[k] THEN EINVAL ELSE Before(k) + i
<1> DEFINE D == 0 .. k - 1
           sum == MapThenSumSet(LAMBDA j : entry[(out_offs + j) % N].size, D)
           Rule(it) ==
             it = [s \in SUBSET D |->
                     IF s = {} THEN 0
                     ELSE entry[(out_offs + (CHOOSE x \in s : TRUE)) % N].size
                            + it[s \ {CHOOSE x \in s : TRUE}]]
<1>1. \A s \in SUBSET D : s # {} =>
        sizes[Picked(s)] = entry[(out_offs + (CHOOSE x \in s : TRUE)) % N].size
  <2>1. SUFFICES ASSUME NEW s \in SUBSET D, s # {}
                 PROVE  sizes[Picked(s)] = entry[(out_offs + Picked(s)) % N].size
    BY DEF Picked
  <2>2. Picked(s) \in s
    BY <2>1 DEF Picked
  <2>3. Picked(s) \in Nat
    <3>1. D \in SUBSET Nat
      OBVIOUS
    <3> HIDE DEF D
    <3>2. QED
      BY <2>1, <2>2, <3>1
  <2>4. QED
    BY <2>3, BeforeNext
<1>2. sum = (CHOOSE it : Rule(it))[D]
  BY DEF MapThenSumSet, MapThenFoldSet
<1>3. \A it : Rule(it) <=> SumRule(it, sizes, SUBSET D)
  BY <1>1 DEF SumRule, Picked
<1>4. (CHOOSE it : Rule(it)) = CHOOSE it : SumRule(it, sizes, SUBSET D)
  <2> HIDE DEF Rule
  <2>1. QED
    BY <1>3
<1>5. sum = Before(k)
  <2> HIDE DEF Rule, sum
  <2>1. QED
    BY <1>2, <1>4 DEF Sum, Before
<1>6. AdjustFileOffset(k, i)
        = IF k >= N \/ i > entry[(out_offs + k) % N].size THEN EINVAL ELSE sum + i
  BY DEF AdjustFileOffset
<1> HIDE DEF sum
<1>7. QED
  BY <1>5, <1>6, BeforeNext

(* ------------------------- the ring and the text ----------------------- *)

\* A slot without memory has no size: seeking and reading rely on it.
RingHeld == loaded => \A i \in Slot : entry[i].buffptr = NULL => entry[i].size = 0

\* What the lemmas about the ring ask for.
LEMMA RingTyped ==
  ASSUME Inv
  PROVE  BufferTypeOK /\ (loaded => RingInv) /\ N \in Nat \ {0}
<1>1. BufferTypeOK /\ (loaded => RingInv)
  BY DEF Inv, StoreTypes, CallsKeepLoaded
<1>2. N \in Nat \ {0}
  BY NAssumption
<1>3. QED
  BY <1>1, <1>2

\* While no writer holds the lock, the sizes that the search meets are those of the lines
\* that the programs see, and there is nothing behind them.
LEMMA RingSizes ==
  ASSUME Inv, TextInv, RingHeld, loaded, lock \notin Writer
  PROVE  /\ visible.lines \in Seq(Seq(Nat)) /\ Len(visible.lines) = Count /\ Count \in 0 .. N
         /\ \A k \in 0 .. Count - 1 :
              /\ (out_offs + k) % N \in Slot
              /\ visible.lines[k + 1] = Bytes(entry[(out_offs + k) % N])
              /\ sizes[k] = Len(visible.lines[k + 1])
              /\ sizes[k] # 0 =>
                   visible.lines[k + 1] = mem[entry[(out_offs + k) % N].buffptr]
         /\ \A k \in Count .. N - 1 : sizes[k] = 0
<1>1. visible.lines = StoredLines
  BY DEF TextInv, RingIsVisible
<1>2. BufferTypeOK /\ RingInv /\ N \in Nat \ {0}
  BY RingTyped
<1>3. StoredLines \in Seq(Seq(Nat)) /\ Len(StoredLines) = Count /\ Count \in 0 .. N
  BY StoredLinesTyped
<1>4. ASSUME NEW k \in 0 .. Count - 1
      PROVE  /\ (out_offs + k) % N \in Slot
             /\ visible.lines[k + 1] = Bytes(entry[(out_offs + k) % N])
             /\ sizes[k] = Len(visible.lines[k + 1])
             /\ sizes[k] # 0 =>
                  visible.lines[k + 1] = mem[entry[(out_offs + k) % N].buffptr]
  <2> DEFINE i == (out_offs + k) % N
  <2>1. k + 1 \in 1 .. Count /\ k \in Nat /\ out_offs + (k + 1) - 1 = out_offs + k
    BY <1>2, <1>3 DEF BufferTypeOK, Slot
  <2>2. i \in Slot /\ sizes[k] = entry[i].size
    BY <1>2, <2>1, BeforeNext
  <2>3. Stored[k + 1] = entry[i]
    BY <2>1, StoredSlot
  <2>4. visible.lines[k + 1] = Bytes(entry[i])
    BY <1>1, <2>1, <2>3 DEF StoredLines
  <2> HIDE DEF i
  <2>5. entry[i].buffptr # NULL => entry[i].buffptr \in Live
    BY <2>2 DEF Inv, PointersLive
  <2>6. CASE entry[i].buffptr = NULL
    <3>1. entry[i].size = 0
      BY <2>2, <2>6 DEF RingHeld
    <3>2. entry[i].buffptr \notin Live
      BY <2>6, NullAssumption DEF Inv, StoreTypes
    <3>3. Bytes(entry[i]) = << >> /\ Len(<< >>) = 0
      BY <2>2, <3>2, SlotBytes
    <3>4. QED
      BY <2>2, <2>4, <3>1, <3>3 DEF i
  <2>7. CASE entry[i].buffptr # NULL
    BY <2>2, <2>4, <2>5, <2>7, SlotBytes DEF i
  <2>8. QED
    BY <2>6, <2>7
<1>5. ASSUME NEW k \in Count .. N - 1 PROVE sizes[k] = 0
  <2>1. ~full /\ Count = in_offs /\ out_offs = 0 /\ k \in Nat /\ k \in Slot
    <3>1. k < N /\ k \in Nat
      BY <1>2, <1>3
    <3>2. ~full
      BY <1>2, <3>1 DEF Count
    <3>3. Count = in_offs /\ out_offs = 0
      BY <1>2, <3>2, StoredIsSeq DEF RingInv
    <3>4. QED
      BY <1>2, <3>1, <3>2, <3>3 DEF Slot
  <2>2. (out_offs + k) % N = k
    <3>1. 0 \in Slot /\ k \in 0 .. N /\ k < N
      BY <1>2, <2>1 DEF Slot
    <3>2. (0 + k) % N = IF 0 + k < N THEN 0 + k ELSE 0 + k - N
      BY <3>1, SlotAfter
    <3>3. QED
      BY <2>1, <3>1, <3>2
  <2>3. sizes[k] = entry[k].size
    BY <1>2, <2>1, <2>2, BeforeNext
  <2>4. k >= in_offs
    BY <1>3, <2>1
  <2>5. entry[k] = EmptyEntry
    BY <1>2, <2>1, <2>4 DEF RingInv
  <2>6. QED
    BY <2>3, <2>5 DEF EmptyEntry
<1>6. QED
  BY <1>1, <1>3, <1>4, <1>5

\* So the bytes that the search passes are those of the text.
LEMMA BeforeIsText ==
  ASSUME Inv, TextInv, RingHeld, loaded, lock \notin Writer
  PROVE  /\ \A k \in 0 .. Count : Before(k) = Len(TextUpTo(visible.lines, k))
         /\ \A k \in Count .. N : Before(k) = Len(Text)
         /\ Len(Text) \in Nat
<1> DEFINE s == visible.lines
           Wrong == {k \in Nat : k <= Count /\ Before(k) # Len(TextUpTo(s, k))}
           Behind == {k \in Nat : Count <= k /\ k <= N /\ Before(k) # Len(Text)}
<1>1. BufferTypeOK /\ N \in Nat
  BY RingTyped
<1>2. s \in Seq(Seq(Nat)) /\ Len(s) = Count /\ Count \in 0 .. N
  BY RingSizes
<1>3. /\ \A k \in 0 .. Count - 1 : sizes[k] = Len(s[k + 1]) /\ s[k + 1] \in Seq(Nat)
      /\ \A k \in Count .. N - 1 : sizes[k] = 0
  <2>1. /\ \A k \in 0 .. Count - 1 : sizes[k] = Len(s[k + 1])
        /\ \A k \in Count .. N - 1 : sizes[k] = 0
    BY RingSizes
  <2>2. \A k \in 0 .. Count - 1 : k + 1 \in 1 .. Len(s)
    BY <1>1, <1>2
  <2> HIDE DEF s
  <2>3. QED
    BY <1>2, <2>1, <2>2
<1> HIDE DEF s
<1>4. Count \in Nat /\ Count <= N
  BY <1>1, <1>2
<1>5. /\ TextUpTo(s, 0) = << >> /\ TextUpTo(s, Count) = Text
      /\ \A k \in 0 .. Count : TextUpTo(s, k) \in Seq(Nat)
      /\ \A k \in 0 .. Count - 1 : TextUpTo(s, k + 1) = TextUpTo(s, k) \o s[k + 1]
  BY <1>2, TextGrows DEF Text, s
<1>6. Wrong = {}
  <2>1. SUFFICES ASSUME Wrong # {} PROVE FALSE
    OBVIOUS
  <2>2. PICK m \in Wrong : \A n \in Wrong : m <= n
    <3>1. Wrong \in SUBSET Nat
      OBVIOUS
    <3> HIDE DEF Wrong
    <3>2. QED
      BY <2>1, <3>1, MinOfNaturals
  <2>3. m \in Nat /\ m <= Count /\ Before(m) # Len(TextUpTo(s, m))
    OBVIOUS
  <2>4. m # 0
    <3>1. Len(<< >>) = 0
      OBVIOUS
    <3>2. QED
      BY <1>1, <1>5, <2>3, <3>1, BeforeNext
  <2>5. PICK n \in 0 .. Count - 1 : m = n + 1
    <3>1. m - 1 \in 0 .. Count - 1 /\ m = (m - 1) + 1
      BY <1>4, <2>3, <2>4
    <3>2. QED
      BY <3>1
  <2>6. n \in Nat /\ n <= Count /\ ~(m <= n) /\ n \in 0 .. Count
    BY <1>4, <2>5
  <2>7. Before(n) = Len(TextUpTo(s, n))
    <3>1. n \notin Wrong
      <4> HIDE DEF Wrong
      <4>1. QED
        BY <2>2, <2>6
    <3>2. QED
      BY <2>6, <3>1
  <2>8. Before(n + 1) = Before(n) + sizes[n]
    BY <1>1, <2>6, BeforeNext
  <2>9. /\ TextUpTo(s, n + 1) = TextUpTo(s, n) \o s[n + 1] /\ sizes[n] = Len(s[n + 1])
        /\ TextUpTo(s, n) \in Seq(Nat) /\ s[n + 1] \in Seq(Nat)
    BY <1>3, <1>5, <2>6
  <2>10. Len(TextUpTo(s, n + 1)) = Len(TextUpTo(s, n)) + Len(s[n + 1])
    BY <2>9, ConcatProperties
  <2>11. QED
    BY <2>3, <2>5, <2>7, <2>8, <2>9, <2>10
<1>7. \A k \in 0 .. Count : Before(k) = Len(TextUpTo(s, k))
  <2>1. \A k \in 0 .. Count : k \in Nat /\ k <= Count
    BY <1>4
  <2>2. QED
    BY <1>6, <2>1
<1>8. Len(Text) \in Nat /\ Before(Count) = Len(Text)
  <2>1. Count \in 0 .. Count
    BY <1>4
  <2>2. Before(Count) \in Nat
    BY <1>1, <1>4, BeforeNext
  <2>3. QED
    BY <1>5, <1>7, <2>1, <2>2
<1>9. Behind = {}
  <2>1. SUFFICES ASSUME Behind # {} PROVE FALSE
    OBVIOUS
  <2>2. PICK m \in Behind : \A n \in Behind : m <= n
    <3>1. Behind \in SUBSET Nat
      OBVIOUS
    <3> HIDE DEF Behind
    <3>2. QED
      BY <2>1, <3>1, MinOfNaturals
  <2>3. m \in Nat /\ Count <= m /\ m <= N /\ Before(m) # Len(Text)
    OBVIOUS
  <2>4. m # Count
    BY <1>8, <2>3
  <2>5. PICK n \in Count .. N - 1 : m = n + 1
    <3>1. m - 1 \in Count .. N - 1 /\ m = (m - 1) + 1
      BY <1>1, <1>4, <2>3, <2>4
    <3>2. QED
      BY <3>1
  <2>6. n \in Nat /\ Count <= n /\ n <= N /\ ~(m <= n)
    BY <1>1, <1>4, <2>5
  <2>7. Before(n) = Len(Text)
    <3>1. n \notin Behind
      <4> HIDE DEF Behind
      <4>1. QED
        BY <2>2, <2>6
    <3>2. QED
      BY <2>6, <3>1
  <2>8. Before(n + 1) = Before(n) + sizes[n] /\ sizes[n] = 0 /\ Before(n) \in Nat
    BY <1>1, <1>3, <2>6, BeforeNext
  <2>9. QED
    BY <2>3, <2>5, <2>7, <2>8
<1>10. \A k \in Count .. N : Before(k) = Len(Text)
  <2>1. \A k \in Count .. N : k \in Nat /\ Count <= k /\ k <= N
    BY <1>1, <1>4
  <2>2. QED
    BY <1>9, <2>1
<1>11. QED
  BY <1>7, <1>8, <1>10 DEF s

\* lseek and the ioctl place their positions in the text.
LEMMA SeeksInText ==
  ASSUME Inv, TextInv, RingHeld
  PROVE  SeeksAgreeWithText
<1> DEFINE LineSize(k) == IF k < Len(visible.lines) THEN Len(visible.lines[k + 1]) ELSE 0
           Placed(k, i) == /\ i < LineSize(k) => AdjustFileOffset(k, i) = LineStart(k) + i
                           /\ i > LineSize(k) => AdjustFileOffset(k, i) = EINVAL
                           /\ AdjustFileOffset(k, i) # EINVAL =>
                                AdjustFileOffset(k, i) \in 0 .. Len(Text)
<1>1. SUFFICES ASSUME loaded, lock \notin Writer
               PROVE  /\ TotalSize = Len(Text)
                      /\ \A k \in 0 .. N, i \in Offsets \cap Nat : Placed(k, i)
  BY DEF SeeksAgreeWithText
<1>2. BufferTypeOK /\ N \in Nat \ {0}
  BY RingTyped
<1>3. Count \in 0 .. N /\ Len(visible.lines) = Count /\ Count \in Nat /\ N \in Count .. N
  BY <1>1, <1>2, RingSizes
<1>4. TotalSize = Len(Text)
  BY <1>1, <1>2, <1>3, TotalIsBefore, BeforeIsText
<1>5. ASSUME NEW k \in 0 .. N, NEW i \in Nat, k < Len(visible.lines)
      PROVE  Placed(k, i)
  <2> DEFINE m == Len(visible.lines[k + 1])
  <2>1. k \in Nat /\ k \in 0 .. Count - 1 /\ k \in 0 .. Count /\ ~(k >= N)
    BY <1>2, <1>3, <1>5
  <2>2. AdjustFileOffset(k, i) = IF k >= N \/ i > sizes[k] THEN EINVAL ELSE Before(k) + i
    BY <1>2, <2>1, AdjustIsBefore
  <2>3. sizes[k] = m
    BY <1>1, <2>1, RingSizes
  <2>4. sizes[k] \in Nat /\ Before(k) \in Nat
    BY <1>2, <2>1, BeforeNext
  <2>5. Before(k) = LineStart(k)
    BY <1>1, <2>1, BeforeIsText DEF LineStart, TextUpTo
  <2>6. Before(k) + m <= Len(Text) /\ Len(Text) \in Nat
    <3>1. Before(k) = Len(TextUpTo(visible.lines, k)) /\ Len(Text) \in Nat
      BY <1>1, <2>1, BeforeIsText
    <3>2. visible.lines \in Seq(Seq(Nat)) /\ k \in 0 .. Len(visible.lines) - 1
      BY <1>1, <1>3, <2>1, RingSizes
    <3>3. Len(TextUpTo(visible.lines, k)) + Len(visible.lines[k + 1])
            <= Len(FlattenSeq(visible.lines))
      BY <3>2, LineInText
    <3>4. QED
      BY <3>1, <3>3 DEF Text
  <2>7. LineSize(k) = m
    BY <1>5
  <2> HIDE DEF m, LineSize
  <2>8. i < m => AdjustFileOffset(k, i) = LineStart(k) + i
    BY <2>1, <2>2, <2>3, <2>4, <2>5
  <2>9. i > m => AdjustFileOffset(k, i) = EINVAL
    BY <2>2, <2>3
  <2>10. AdjustFileOffset(k, i) # EINVAL => AdjustFileOffset(k, i) \in 0 .. Len(Text)
    BY <2>1, <2>2, <2>3, <2>4, <2>6
  <2>11. QED
    BY <2>7, <2>8, <2>9, <2>10
<1>6. ASSUME NEW k \in 0 .. N, NEW i \in Nat, ~(k < Len(visible.lines))
      PROVE  Placed(k, i)
  <2>1. k \in Nat /\ k \in Count .. N
    BY <1>2, <1>3, <1>6
  <2>2. AdjustFileOffset(k, i) = IF k >= N \/ i > sizes[k] THEN EINVAL ELSE Before(k) + i
    BY <1>2, <2>1, AdjustIsBefore
  <2>3. ~(k >= N) => sizes[k] = 0
    <3>1. ~(k >= N) => k \in Count .. N - 1
      BY <1>2, <1>3, <2>1
    <3>2. QED
      BY <1>1, <3>1, RingSizes
  <2>4. Before(k) = Len(Text) /\ Len(Text) \in Nat
    BY <1>1, <2>1, BeforeIsText
  <2>5. LineSize(k) = 0
    BY <1>6
  <2> HIDE DEF LineSize
  <2>6. i > 0 => AdjustFileOffset(k, i) = EINVAL
    BY <2>2, <2>3
  <2>7. AdjustFileOffset(k, i) # EINVAL => AdjustFileOffset(k, i) = Len(Text) + i /\ i = 0
    BY <2>2, <2>3, <2>4
  <2>8. AdjustFileOffset(k, i) # EINVAL => AdjustFileOffset(k, i) \in 0 .. Len(Text)
    BY <2>4, <2>7
  <2>9. QED
    BY <2>5, <2>6, <2>8
<1> HIDE DEF Placed
<1>7. QED
  BY <1>4, <1>5, <1>6

\* No newline lies inside a line that the programs see.
LinesEnd ==
  \A k \in 1 .. Len(visible.lines) :
    \A j \in 1 .. Len(visible.lines[k]) - 1 : visible.lines[k][j] # NL

\* What a read may return.
ReadsWell(got, pos, count) ==
  /\ got # << >> => /\ pos + Len(got) <= Len(Text)
                    /\ got = SubSeq(Text, pos + 1, pos + Len(got))
  /\ Len(got) <= count
  /\ got = << >> => pos >= Len(Text) \/ count = 0
  /\ \A i \in 1 .. Len(got) - 1 : got[i] # NL

\* The bytes that aesd_read copies.
LEMMA ReadInText ==
  ASSUME Inv, TextInv, RingHeld, LinesEnd, loaded, lock \notin Writer, NEW t \in Reader,
         call[t].pos \in Nat, call[t].count \in Nat
  PROVE  /\ ReadResult(t) \in Seq(Nat) /\ Len(ReadResult(t)) \in Nat
         /\ ReadsWell(ReadResult(t), call[t].pos, call[t].count)
<1> DEFINE pos == call[t].pos
           count == call[t].count
           got == ReadResult(t)
<1>1. BufferTypeOK /\ RingInv /\ N \in Nat \ {0}
  BY RingTyped
<1>2. /\ visible.lines \in Seq(Seq(Nat)) /\ Len(visible.lines) = Count
      /\ Count \in 0 .. N /\ Count \in Nat
  BY <1>1, RingSizes
<1>3. Before(Count) = Len(Text) /\ Len(Text) \in Nat /\ Before(Count) \in Nat
  <2>1. Count \in Count .. N
    BY <1>1, <1>2
  <2>2. QED
    BY <2>1, BeforeIsText
<1>4. CASE Before(Count) <= pos
  <2>1. FindEntry(pos) = NULL
    BY <1>1, <1>4, FindsNoByte
  <2>2. got = << >>
    BY <2>1 DEF ReadResult
  <2>3. << >> \in Seq(Nat) /\ Len(<< >>) = 0 /\ 1 .. Len(<< >>) - 1 = {}
    OBVIOUS
  <2>4. pos >= Len(Text) /\ 0 <= count
    BY <1>3, <1>4
  <2>5. ReadsWell(<< >>, pos, count)
    BY <2>3, <2>4 DEF ReadsWell
  <2>6. QED
    BY <2>2, <2>3, <2>5
<1>5. CASE ~(Before(Count) <= pos)
  <2>1. pos < Before(Count)
    BY <1>3, <1>5
  <2>2. PICK k \in 0 .. Count - 1 : Before(k) <= pos /\ pos < Before(k + 1)
    BY <1>1, <1>2, <2>1, ByteLiesInCommand
  <2> DEFINE slot == (out_offs + k) % N
             start == Before(k)
             byte == pos - start
             line == visible.lines[k + 1]
             left == Len(line) - byte
             n == Min({left, count})
  <2>3. FindEntry(pos) = [slot |-> slot, byte |-> byte]
    BY <1>1, <2>2, FindsByte
  <2>4. /\ k \in Nat /\ start \in Nat /\ sizes[k] \in Nat /\ Before(k + 1) = start + sizes[k]
        /\ sizes[k] = entry[slot].size /\ slot \in Slot
    <3>1. k \in Nat
      BY <1>2
    <3>2. QED
      BY <1>1, <3>1, BeforeNext
  <2>5. sizes[k] = Len(line) /\ (sizes[k] # 0 => line = mem[entry[slot].buffptr])
    BY RingSizes
  <2>6. line \in Seq(Nat)
    <3>1. k + 1 \in 1 .. Len(visible.lines)
      BY <1>2
    <3>2. QED
      BY <1>2, <3>1
  <2>7. start = Len(TextUpTo(visible.lines, k))
    <3>1. k \in 0 .. Count
      BY <1>2
    <3>2. QED
      BY <3>1, BeforeIsText
  <2>8. /\ Text \in Seq(Nat) /\ start + Len(line) <= Len(Text)
        /\ \A i \in 1 .. Len(line) : Text[start + i] = line[i]
    <3> HIDE DEF start
    <3>1. k \in 0 .. Len(visible.lines) - 1
      BY <1>2
    <3>2. /\ FlattenSeq(visible.lines) \in Seq(Nat)
          /\ Len(TextUpTo(visible.lines, k)) + Len(visible.lines[k + 1])
               <= Len(FlattenSeq(visible.lines))
          /\ \A i \in 1 .. Len(visible.lines[k + 1]) :
               FlattenSeq(visible.lines)[Len(TextUpTo(visible.lines, k)) + i]
                 = visible.lines[k + 1][i]
      BY <1>2, <3>1, LineInText
    <3>3. QED
      BY <2>7, <3>2 DEF Text
  <2>9. Len(line) \in Nat /\ byte \in Nat /\ byte < Len(line) /\ start + byte = pos
    <3> DEFINE m == Len(line)
    <3>1. m \in Nat /\ start + m = Before(k + 1) /\ start <= pos /\ pos < Before(k + 1)
          /\ start \in Nat
      BY <2>2, <2>4, <2>5
    <3> HIDE DEF m, start, pos
    <3>2. m \in Nat /\ byte \in Nat /\ byte < m /\ start + byte = pos
      BY <3>1 DEF pos
    <3>3. QED
      BY <3>2 DEF m
  <2>10. FindEntry(pos) # NULL /\ FindEntry(pos).slot = slot /\ FindEntry(pos).byte = byte
    <3> HIDE DEF slot, byte
    <3>1. [slot |-> slot, byte |-> byte] # NULL
      BY <2>4, <2>9, FoundAssumption
    <3>2. QED
      BY <2>3, <3>1
  <2>11. line = mem[entry[slot].buffptr] /\ entry[slot].size = Len(line)
    <3> HIDE DEF line, byte, slot
    <3>1. Len(line) # 0
      BY <2>9
    <3>2. QED
      BY <2>4, <2>5, <3>1
  <2>12. got = SubSeq(line, byte + 1, byte + n)
    <3> HIDE DEF line, byte, slot
    <3>1. got = SubSeq(mem[entry[slot].buffptr], byte + 1,
                       byte + Min({entry[slot].size - byte, count}))
      BY <2>10 DEF ReadResult
    <3>2. QED
      BY <2>11, <3>1
  <2>13. left \in Nat /\ left > 0 /\ byte + left = Len(line)
    <3> DEFINE m == Len(line)
    <3> HIDE DEF m, byte
    <3>1. m \in Nat /\ byte \in Nat /\ byte < m
      BY <2>9 DEF m
    <3>2. m - byte \in Nat /\ m - byte > 0 /\ byte + (m - byte) = m
      BY <3>1
    <3>3. QED
      BY <3>2 DEF m
  <2> HIDE DEF start, byte, line, slot, left, got, pos, count
  <2>14. n \in Nat /\ n <= left /\ n <= count /\ (n = left \/ n = count)
    <3>1. count \in Nat
      BY DEF count
    <3>2. {left, count} \in SUBSET Nat /\ {left, count} # {}
      BY <2>13, <3>1
    <3>3. n \in {left, count} /\ \A y \in {left, count} : n <= y
      BY <3>2, MinOfNaturals
    <3> HIDE DEF n
    <3>4. QED
      BY <2>13, <3>1, <3>3
  <2> HIDE DEF n
  <2>15. byte + n \in Nat /\ byte <= byte + n /\ byte + n <= Len(line) /\ (byte + n) - byte = n
    BY <2>9, <2>13, <2>14
  <2>16. got \in Seq(Nat) /\ Len(got) = n /\ \A i \in 1 .. n : got[i] = line[byte + i]
    BY <2>6, <2>9, <2>12, <2>15, PartOfSeq, SMTT(40)
  <2>17. pos \in Nat /\ pos + n \in Nat /\ pos <= pos + n /\ pos + n <= Len(Text)
         /\ (pos + n) - pos = n
    <3>1. pos \in Nat
      BY DEF pos
    <3>2. QED
      BY <1>3, <2>4, <2>8, <2>9, <2>14, <2>15, <3>1
  <2> DEFINE part == SubSeq(Text, pos + 1, pos + n)
  <2>18. part \in Seq(Nat) /\ Len(part) = n /\ \A i \in 1 .. n : part[i] = Text[pos + i]
    <3>1. Text \in Seq(Nat)
      BY <2>8
    <3>2. /\ SubSeq(Text, pos + 1, pos + n) \in Seq(Nat)
          /\ Len(SubSeq(Text, pos + 1, pos + n)) = (pos + n) - pos
          /\ \A i \in 1 .. (pos + n) - pos : SubSeq(Text, pos + 1, pos + n)[i] = Text[pos + i]
      BY <2>17, <3>1, PartOfSeq
    <3>3. QED
      BY <2>17, <3>2
  <2> HIDE DEF part
  <2>19. \A i \in 1 .. n : part[i] = got[i]
    <3>1. SUFFICES ASSUME NEW i \in 1 .. n PROVE part[i] = got[i]
      OBVIOUS
    <3>2. byte + i \in 1 .. Len(line) /\ start + (byte + i) = pos + i
      BY <2>4, <2>9, <2>14, <2>15, <2>17
    <3>3. Text[start + (byte + i)] = line[byte + i]
      BY <2>8, <3>2
    <3>4. QED
      BY <2>16, <2>18, <3>2, <3>3
  <2>20. part = got
    BY <2>16, <2>18, <2>19, SeqEqual
  <2>21. \A i \in 1 .. Len(got) - 1 : got[i] # NL
    <3>1. SUFFICES ASSUME NEW i \in 1 .. n - 1 PROVE got[i] # NL
      BY <2>16
    <3>2. i \in 1 .. n /\ byte + i \in 1 .. Len(line) - 1
      BY <2>9, <2>14, <2>15
    <3>3. line[byte + i] # NL
      <4>1. k + 1 \in 1 .. Len(visible.lines)
        BY <1>2
      <4>2. \A j \in 1 .. Len(line) - 1 : line[j] # NL
        BY <4>1 DEF LinesEnd, line
      <4>3. QED
        BY <3>2, <4>2
    <3>4. QED
      BY <2>16, <3>2, <3>3
  <2>22. got = << >> => count = 0
    <3>1. got = << >> => n = 0
      BY <2>16
    <3>2. QED
      BY <2>13, <2>14, <3>1
  <2>23. ReadsWell(got, pos, count)
    BY <2>14, <2>16, <2>17, <2>20, <2>21, <2>22 DEF ReadsWell, part
  <2>24. QED
    BY <2>14, <2>16, <2>23 DEF got, pos, count
<1>6. QED
  BY <1>4, <1>5

(* ------------------------------- numbers ------------------------------- *)

CallsNumbered == \A t \in Task : call[t].pos \in Nat /\ call[t].count \in Nat
FposTyped == fpos \in [File -> Nat \cup {EINVAL}]
CountersTyped == structs \in Nat /\ nwrites \in 0 .. MaxWrites
Numbers == CallsNumbered /\ FposTyped /\ CountersTyped /\ RingHeld

\* A call that gets a new record, and one that changes another field of it.
LEMMA CallNumbered ==
  ASSUME Inv, CallsNumbered, NEW t \in Task, NEW c, call' = [call EXCEPT ![t] = c],
         c.pos \in Nat, c.count \in Nat
  PROVE  CallsNumbered'
<1>1. call = [u \in Task |-> call[u]]
  BY DEF Inv, TaskTypes
<1>2. \A u \in Task : call'[u] = IF u = t THEN c ELSE call[u]
  BY <1>1
<1>3. QED
  BY <1>2 DEF CallsNumbered

\* A step that sets no position and no count.
LEMMA FieldNumbered ==
  ASSUME Inv, CallsNumbered, NEW t \in Task, NEW x,
         \/ call' = [call EXCEPT ![t].ret = x]
         \/ call' = [call EXCEPT ![t].buffer = x]
         \/ call' = [call EXCEPT ![t].off = x]
  PROVE  CallsNumbered'
<1>1. call = [u \in Task |-> call[u]] /\ DOMAIN call[t] = CallFields
  BY DEF Inv, TaskTypes
<1>2. \A u \in Task : call'[u].pos = call[u].pos /\ call'[u].count = call[u].count
  BY <1>1 DEF CallFields
<1>3. QED
  BY <1>2 DEF CallsNumbered

\* The position is stored back at the end of a call.
LEMMA FposStored ==
  ASSUME Inv, Numbers, NEW t \in Task, pc[t] # "idle", fpos' = FposAfter(t)
  PROVE  FposTyped'
<1>1. call[t].file \in File
  BY DEF Inv, CallsKeepLoaded, StoreTypes
<1>2. call[t].pos \in Nat
  BY DEF Numbers, CallsNumbered
<1>3. fpos \in [File -> Nat \cup {EINVAL}]
  BY DEF Numbers, FposTyped
<1>4. fpos' = fpos \/ fpos' = [fpos EXCEPT ![call[t].file] = call[t].pos]
  BY DEF FposAfter
<1>5. QED
  BY <1>1, <1>2, <1>3, <1>4 DEF FposTyped

\* The call of a task that is in none has numbers.
LEMMA NoCallNumbered == NoCall.pos \in Nat /\ NoCall.count \in Nat
BY DEF NoCall

\* A step that leaves the ring alone.
LEMMA RingHeldKept ==
  ASSUME RingHeld, UNCHANGED <<entry, loaded>>
  PROVE  RingHeld'
BY DEF RingHeld

\* Loading and unloading the module, opening and closing the device.
LEMMA ModuleKeepsNumbers ==
  ASSUME Numbers, Load \/ Unload \/ \E f \in File : Open(f) \/ Release(f)
  PROVE  Numbers'
<1> USE DEF counters, files
<1>1. CallsNumbered' /\ CountersTyped'
  BY DEF Load, Unload, Open, Release, Numbers, CallsNumbered, CountersTyped
<1>2. FposTyped'
  BY DEF Load, Unload, Open, Release, Numbers, FposTyped
<1>3. RingHeld'
  <2>1. CASE Load
    <3>1. entry' = [i \in Slot |-> EmptyEntry] /\ EmptyEntry.size = 0
      BY <2>1 DEF Load, BufferReset, EmptyEntry
    <3>2. QED
      BY <3>1 DEF RingHeld
  <2>2. CASE Unload
    BY <2>2 DEF Unload, RingHeld
  <2>3. ASSUME NEW f \in File, Open(f) \/ Release(f) PROVE RingHeld'
    BY <2>3, RingHeldKept DEF Open, Release, Numbers, store, ring, bufferVars
  <2>4. QED
    BY <2>1, <2>2, <2>3
<1>4. QED
  BY <1>1, <1>2, <1>3 DEF Numbers

\* The sizes of the lines that are stored.
LEMMA StoreLineHeld ==
  ASSUME Inv, Numbers, NEW t \in Writer, pc[t] = "store",
         AddEntry([buffptr |-> NewPtr, size |-> LineLength(t)])
  PROVE  loaded' = loaded => RingHeld'
<1> DEFINE e == [buffptr |-> NewPtr, size |-> LineLength(t)]
<1>1. NewPtr # NULL
  BY FreshPtr, NullAssumption DEF Inv
<1>2. e.buffptr # NULL
  BY <1>1
<1>3. entry' = [entry EXCEPT ![in_offs] = e]
  BY DEF AddEntry
<1> HIDE DEF e
<1>4. \A i \in Slot : entry'[i] = IF i = in_offs THEN e ELSE entry[i]
  BY <1>3 DEF Inv, StoreTypes, BufferTypeOK
<1>5. QED
  BY <1>2, <1>4 DEF Numbers, RingHeld

\* Every step of a writer.
LEMMA WritingKeepsNumbers ==
  ASSUME Inv, Numbers, NEW t \in Writer, WriterStep(t)
  PROVE  Numbers'
<1> USE DEF counters, files, Goto
<1>1. t \in Task
  BY DEF Task
<1>2. CallsNumbered /\ FposTyped /\ CountersTyped /\ RingHeld
  BY DEF Numbers
<1>3. ASSUME NEW error, GiveUp(t, error) PROVE CallsNumbered'
  BY <1>1, <1>2, <1>3, FieldNumbered DEF GiveUp
<1>4. ASSUME call' = call PROVE CallsNumbered'
  BY <1>2, <1>4 DEF CallsNumbered
<1>5. ASSUME UNCHANGED <<structs, nwrites>> PROVE CountersTyped'
  BY <1>2, <1>5 DEF CountersTyped
<1>6. ASSUME fpos' = fpos PROVE FposTyped'
  BY <1>2, <1>6 DEF FposTyped
<1>7. ASSUME UNCHANGED <<ring, loaded>> PROVE RingHeld'
  BY <1>2, <1>7, RingHeldKept DEF ring, bufferVars
<1>8. CASE AllocBuffer(t)
  <2>1. UNCHANGED <<structs, nwrites, fpos, ring, loaded>>
    BY <1>8 DEF AllocBuffer
  <2>2. CallsNumbered'
    <3>1. GiveUp(t, ENOMEM) \/ call' = [call EXCEPT ![t].buffer = NewPtr]
      BY <1>8 DEF AllocBuffer
    <3>2. QED
      BY <1>1, <1>2, <1>3, <3>1, FieldNumbered
  <2>3. QED
    BY <1>5, <1>6, <1>7, <2>1, <2>2 DEF Numbers
<1>9. CASE CopyUser(t)
  <2>1. UNCHANGED <<structs, nwrites, fpos, ring, loaded>>
    BY <1>9 DEF CopyUser
  <2>2. GiveUp(t, ENOMEM) \/ call' = call
    BY <1>9 DEF CopyUser
  <2>3. QED
    BY <1>3, <1>4, <1>5, <1>6, <1>7, <2>1, <2>2 DEF Numbers
<1>10. CASE CopyPartial(t) \/ FreePartial(t) \/ ClearPartial(t) \/ LockForWrite(t) \/ Unlock(t)
  <2>1. UNCHANGED <<structs, nwrites, fpos, ring, loaded, call>>
    BY <1>10 DEF CopyPartial, FreePartial, ClearPartial, LockForWrite, Unlock, store
  <2>2. QED
    BY <1>4, <1>5, <1>6, <1>7, <2>1 DEF Numbers
<1>11. CASE WriteInterrupted(t)
  <2>1. UNCHANGED <<structs, nwrites, fpos, ring, loaded>> /\ GiveUp(t, ERESTARTSYS)
    BY <1>11 DEF WriteInterrupted, store
  <2>2. QED
    BY <1>3, <1>5, <1>6, <1>7, <2>1 DEF Numbers
<1>12. CASE StoreLine(t)
  <2> DEFINE off == call[t].off + LineLength(t)
  <2>1. /\ pc[t] = "store" /\ UNCHANGED <<nwrites, fpos, loaded>>
        /\ structs' = structs + 1 \/ structs' = structs
    BY <1>12 DEF StoreLine
  <2>2. CountersTyped'
    BY <1>2, <2>1 DEF CountersTyped
  <2>3. CallsNumbered'
    <3>0. DOMAIN call[t] = CallFields /\ call = [u \in Task |-> call[u]]
      BY <1>1 DEF Inv, TaskTypes
    <3>1. \/ call' = [call EXCEPT ![t].off = off] \/ call' = call
          \/ call' = [call EXCEPT ![t].ret = EINVAL]
      BY <1>1, <1>12, <3>0 DEF StoreLine
    <3> HIDE DEF off
    <3>2. QED
      BY <1>1, <1>2, <1>4, <3>1, FieldNumbered
  <2>4. RingHeld'
    <3>1. AddEntry([buffptr |-> NewPtr, size |-> LineLength(t)]) \/ UNCHANGED ring
      BY <1>12 DEF StoreLine
    <3>2. QED
      BY <1>7, <2>1, <3>1, StoreLineHeld
  <2>5. QED
    BY <1>6, <2>1, <2>2, <2>3, <2>4 DEF Numbers
<1>13. CASE KeepTail(t)
  <2> DEFINE ret == call[t].count
             pos == call[t].pos + call[t].count
             c == [call[t] EXCEPT !.ret = ret, !.pos = pos]
  <2>1. UNCHANGED <<structs, nwrites, fpos, ring, loaded>>
    BY <1>13 DEF KeepTail
  <2>2. DOMAIN call[t] = CallFields /\ call = [u \in Task |-> call[u]]
    BY <1>1 DEF Inv, TaskTypes
  <2>3. \/ call' = [call EXCEPT ![t].ret = ret, ![t].pos = pos]
        \/ call' = [call EXCEPT ![t].ret = ENOMEM]
    BY <1>1, <1>13, <2>2 DEF KeepTail, CallFields
  <2>4. call[t].count \in Nat /\ pos \in Nat
    BY <1>1, <1>2 DEF CallsNumbered
  <2> HIDE DEF ret, pos
  <2>5. c.pos = pos /\ c.count = call[t].count
    BY <2>2 DEF CallFields
  <2>6. \/ call' = [call EXCEPT ![t] = c] \/ call' = [call EXCEPT ![t].ret = ENOMEM]
    BY <1>1, <2>2, <2>3
  <2> HIDE DEF c
  <2>7. CallsNumbered'
    BY <1>1, <1>2, <2>4, <2>5, <2>6, CallNumbered, FieldNumbered
  <2>8. QED
    BY <1>5, <1>6, <1>7, <2>1, <2>7 DEF Numbers
<1>14. CASE WriteOut(t)
  <2>0. PICK label, c : WriteEnds(t, label, c)
    BY <1>14, WriteOutEnds
  <2>1. UNCHANGED <<structs, nwrites, ring, loaded>> /\ fpos' = FposAfter(t) /\ pc[t] # "idle"
    BY <1>14 DEF WriteOut
  <2>2. CallsNumbered'
    <3>1. call[t].count \in Nat
      BY <1>1, <1>2 DEF CallsNumbered
    <3>2. call' = [call EXCEPT ![t] = c] /\ c.pos \in Nat /\ c.count \in Nat
      BY <2>0, <3>1 DEF WriteEnds
    <3>3. QED
      BY <1>1, <1>2, <3>2, CallNumbered
  <2>3. QED
    BY <1>1, <1>5, <1>7, <2>1, <2>2, FposStored DEF Numbers
<1>15. ASSUME NEW f \in File, NEW data \in Inputs, WriteCall(t, f, data) PROVE Numbers'
  <2> DEFINE c == [WithFpos(f) EXCEPT !.data = data, !.count = Len(data)]
  <2>1. /\ nwrites < MaxWrites /\ nwrites' = nwrites + 1 /\ call' = [call EXCEPT ![t] = c]
        /\ fpos[f] >= 0 /\ UNCHANGED <<structs, fpos, ring, loaded>>
    BY <1>15 DEF WriteCall, Enter, store
  <2>2. c.pos = fpos[f] /\ c.count = Len(data)
    BY DEF WithFpos, NoCall
  <2>3. fpos[f] \in Nat /\ Len(data) \in Nat
    <3>1. fpos[f] \in Nat \cup {EINVAL}
      BY <1>2 DEF FposTyped
    <3>2. data \in Seq(Nat)
      BY DriverAssumption
    <3>3. Len(data) \in Nat
      BY <3>2
    <3>4. QED
      BY <2>1, <3>1, <3>3 DEF EINVAL
  <2> HIDE DEF c
  <2>4. CallsNumbered'
    BY <1>1, <1>2, <2>1, <2>2, <2>3, CallNumbered
  <2>5. CountersTyped'
    BY <1>2, <2>1, DriverAssumption DEF CountersTyped
  <2>6. QED
    BY <1>6, <1>7, <2>1, <2>4, <2>5 DEF Numbers
<1>16. CASE WriteRestart(t)
  <2> DEFINE pos == fpos[call[t].file]
             c == [call[t] EXCEPT !.pos = pos]
  <2>1. /\ UNCHANGED <<structs, nwrites, fpos, ring, loaded>> /\ pos >= 0
        /\ pc[t] = "restart" /\ call' = [call EXCEPT ![t].pos = pos]
    BY <1>16 DEF WriteRestart, store
  <2>2. DOMAIN call[t] = CallFields /\ call = [u \in Task |-> call[u]]
    BY <1>1 DEF Inv, TaskTypes
  <2>3. pos \in Nat
    <3>1. call[t].file \in File
      BY <1>1, <2>1 DEF Inv, CallsKeepLoaded, StoreTypes
    <3>2. pos \in Nat \cup {EINVAL}
      BY <1>2, <3>1 DEF FposTyped
    <3> HIDE DEF pos
    <3>3. QED
      BY <2>1, <3>2 DEF EINVAL
  <2> HIDE DEF pos
  <2>4. call' = [call EXCEPT ![t] = c] /\ c.pos = pos /\ c.count = call[t].count
    BY <1>1, <2>1, <2>2 DEF CallFields
  <2> HIDE DEF c
  <2>5. CallsNumbered'
    <3>1. call[t].count \in Nat
      BY <1>1, <1>2 DEF CallsNumbered
    <3>2. QED
      BY <1>1, <1>2, <2>3, <2>4, <3>1, CallNumbered
  <2>6. QED
    BY <1>5, <1>6, <1>7, <2>1, <2>5 DEF Numbers
<1>17. QED
  BY <1>8, <1>9, <1>10, <1>11, <1>12, <1>13, <1>14, <1>15, <1>16 DEF WriterStep, WriteStep

(* ------------------------------- lines --------------------------------- *)

\* No newline lies inside a line of a text ...
EndsOnce(line) == \A j \in 1 .. Len(line) - 1 : line[j] # NL

\* Each line that is split off ends with its only newline.
LEMMA LinesEndOnce ==
  ASSUME NEW text \in Seq(Nat), NEW k \in 1 .. Len(Device!LinesOf(text))
  PROVE  EndsOnce(Device!LinesOf(text)[k])
<1> DEFINE i == k - 1
           a == EndOf(text, i)
           b == EndOf(text, k)
           line == Device!LinesOf(text)[k]
<1>1. /\ Len(Device!LinesOf(text)) = Len(Device!Ends(text)) /\ Len(Device!Ends(text)) \in Nat
      /\ Device!LinesOf(text)[i + 1] = SubSeq(text, EndOf(text, i) + 1, EndOf(text, i + 1))
  <2>1. Device!Ends(text) \in Seq(Nat)
    BY EndsByRank
  <2>2. Len(Device!Ends(text)) \in Nat /\ Len(Device!LinesOf(text)) = Len(Device!Ends(text))
    BY <2>1, LinesByEnds
  <2>3. i \in 0 .. Len(Device!Ends(text)) - 1
    BY <2>2
  <2>4. QED
    BY <2>2, <2>3, LinesByEnds
<1>2. i + 1 = k /\ k \in 0 .. Len(Device!Ends(text)) /\ i \in 0 .. Len(Device!Ends(text))
      /\ k \in 1 .. Len(Device!Ends(text))
  BY <1>1
<1>3. line = SubSeq(text, a + 1, b)
  BY <1>1, <1>2
<1>4. a \in 0 .. Len(text) /\ b \in 0 .. Len(text)
      /\ Rank(Newlines(text), a) = i /\ Rank(Newlines(text), b) = k
  BY <1>2, EndOfRank
<1>5. b \in Newlines(text)
  BY <1>2, EndsByRank DEF EndOf
<1>6. Newlines(text) \in SUBSET Nat /\ IsFiniteSet(Newlines(text))
  BY EndsByRank
<1> HIDE DEF line, i, a, b
<1>7. a < b
  <2>1. SUFFICES ASSUME b <= a PROVE FALSE
    BY <1>4
  <2>2. UpTo(Newlines(text), b) \in SUBSET UpTo(Newlines(text), a)
    BY <1>4, <1>6, <2>1 DEF UpTo
  <2>3. IsFiniteSet(UpTo(Newlines(text), a))
    <3>1. UpTo(Newlines(text), a) \in SUBSET Newlines(text)
      BY DEF UpTo
    <3>2. QED
      BY <1>6, <3>1, FS_Subset
  <2>4. Cardinality(UpTo(Newlines(text), b)) <= Cardinality(UpTo(Newlines(text), a))
    BY <2>2, <2>3, FS_Subset
  <2>5. QED
    BY <1>2, <1>4, <2>4 DEF Rank, i
<1>8. \A n \in Newlines(text) : a < n => b <= n
  <2> DEFINE Later == {n \in Newlines(text) : a < n}
  <2>1. Later \in SUBSET Nat /\ Later # {}
    BY <1>5, <1>6, <1>7
  <2>2. Min(Later) \in Later /\ \A n \in Later : Min(Later) <= n
    BY <2>1, MinOfNaturals
  <2> DEFINE m == Min(Later)
  <2> HIDE DEF m
  <2>3. m \in Newlines(text) /\ a < m /\ \A n \in Newlines(text) : a < n => m <= n
    BY <2>2 DEF m
  <2>4. \A n \in Newlines(text) : n < m => n <= a
    <3>1. SUFFICES ASSUME NEW n \in Newlines(text), n < m PROVE n <= a
      OBVIOUS
    <3>2. n \in Nat /\ m \in Nat /\ a \in Nat
      BY <1>4, <1>6, <2>3
    <3>3. QED
      BY <2>3, <3>1, <3>2
  <2>5. EndOf(text, i + 1) = m
    BY <1>2, <2>3, <2>4, NextEnd DEF a
  <2>6. QED
    BY <1>2, <2>3, <2>5 DEF b
<1>9. a \in Nat /\ b \in Nat /\ a <= b /\ b <= Len(text) /\ Len(text) \in Nat
  BY <1>4, <1>7
<1>10. Len(line) = b - a /\ \A m \in 1 .. b - a : line[m] = text[a + m]
  BY <1>3, <1>9, PartOfSeq
<1>11. SUFFICES ASSUME NEW j \in 1 .. Len(line) - 1, line[j] = NL PROVE FALSE
  BY DEF EndsOnce, line
<1>12. j \in 1 .. b - a /\ a + j \in 1 .. Len(text) /\ a < a + j /\ a + j < b
  BY <1>9, <1>10
<1>13. a + j \in Newlines(text)
  BY <1>10, <1>11, <1>12 DEF Newlines
<1>14. QED
  BY <1>8, <1>9, <1>12, <1>13

\* ... so none in the lines that the device keeps.
LEMMA LastLinesEnd ==
  ASSUME NEW a \in Seq(Seq(Nat)), NEW b \in Seq(Seq(Nat)), NEW k \in 0 .. Len(b),
         \A i \in 1 .. Len(a) : EndsOnce(a[i]), \A i \in 1 .. Len(b) : EndsOnce(b[i])
  PROVE  \A i \in 1 .. Len(Device!LastLines(a \o SubSeq(b, 1, k))) :
           EndsOnce(Device!LastLines(a \o SubSeq(b, 1, k))[i])
<1> DEFINE c == SubSeq(b, 1, k)
           s == a \o c
<1>1. c \in Seq(Seq(Nat)) /\ Len(c) = k /\ \A i \in 1 .. k : c[i] = b[i]
  OBVIOUS
<1> HIDE DEF c
<1>2. s \in Seq(Seq(Nat)) /\ Len(s) = Len(a) + k
  <2>1. a \o c \in Seq(Seq(Nat)) /\ Len(a \o c) = Len(a) + Len(c)
    BY <1>1, ConcatProperties
  <2>2. QED
    BY <1>1, <2>1
<1>3. \A i \in 1 .. Len(s) : s[i] = IF i <= Len(a) THEN a[i] ELSE c[i - Len(a)]
  BY <1>1
<1> HIDE DEF s
<1>4. \A i \in 1 .. Len(s) : EndsOnce(s[i])
  <2>1. SUFFICES ASSUME NEW i \in 1 .. Len(s) PROVE EndsOnce(s[i])
    OBVIOUS
  <2>2. CASE i <= Len(a)
    BY <1>3, <2>2
  <2>3. CASE ~(i <= Len(a))
    <3>1. i - Len(a) \in 1 .. k /\ i - Len(a) \in 1 .. Len(b)
      BY <1>2, <2>3
    <3>2. QED
      BY <1>1, <1>3, <2>3, <3>1
  <2>4. QED
    BY <2>2, <2>3
<1>5. /\ Dropped(s) \in 0 .. Len(s) /\ Len(Device!LastLines(s)) = Len(s) - Dropped(s)
      /\ \A i \in 1 .. Len(s) - Dropped(s) : Device!LastLines(s)[i] = s[Dropped(s) + i]
  BY <1>2, LastLinesIs
<1>6. ASSUME NEW i \in 1 .. Len(Device!LastLines(s)) PROVE EndsOnce(Device!LastLines(s)[i])
  <2>1. i \in 1 .. Len(s) - Dropped(s) /\ Dropped(s) + i \in 1 .. Len(s)
    BY <1>2, <1>5
  <2>2. QED
    BY <1>4, <1>5, <2>1
<1>7. QED
  BY <1>6 DEF s, c

\* The programs never see a line with a newline inside.
LEMMA DeviceKeepsLinesEnd ==
  ASSUME VisibleTypes, LinesEnd, [Device!DeviceNext]_Device!deviceVars
  PROVE  LinesEnd'
<1>1. LinesEnd <=> \A i \in 1 .. Len(visible.lines) : EndsOnce(visible.lines[i])
  BY DEF LinesEnd, EndsOnce
<1>2. LinesEnd' <=> \A i \in 1 .. Len(visible'.lines) : EndsOnce(visible'.lines[i])
  BY DEF LinesEnd, EndsOnce
<1>3. CASE UNCHANGED Device!deviceVars
  BY <1>1, <1>2, <1>3 DEF Device!deviceVars
<1>4. CASE Device!Reload
  <2>1. visible'.lines = << >>
    BY <1>4 DEF Device!Reload
  <2>2. 1 .. Len(<< >>) = {}
    OBVIOUS
  <2>3. QED
    BY <1>2, <2>1, <2>2
<1>5. ASSUME NEW data \in Inputs, Device!Write(data) \/ Device!FailedWrite(data)
      PROVE  LinesEnd'
  <2> DEFINE text == visible.rest \o data
             Ls == Device!LinesOf(text)
  <2>1. visible.lines \in Seq(Seq(Nat)) /\ text \in Seq(Nat)
    <3>1. data \in Seq(Nat) /\ visible.rest \in Seq(Nat) /\ visible.lines \in Seq(Seq(Nat))
      BY DriverAssumption DEF VisibleTypes
    <3>2. QED
      BY <3>1
  <2> HIDE DEF text
  <2>2. Ls \in Seq(Seq(Nat))
    BY <2>1, LinesByEnds
  <2>3. \A i \in 1 .. Len(Ls) : EndsOnce(Ls[i])
    BY <2>1, LinesEndOnce
  <2> HIDE DEF Ls
  <2>4. \/ visible'.lines = visible.lines
        \/ \E k \in 0 .. Len(Ls) :
             visible'.lines = Device!LastLines(visible.lines \o SubSeq(Ls, 1, k))
    <3>1. CASE Device!FailedWrite(data)
      BY <3>1 DEF Device!FailedWrite, Ls, text
    <3>2. CASE Device!Write(data)
      <4>1. Len(Ls) \in 0 .. Len(Ls) /\ SubSeq(Ls, 1, Len(Ls)) = Ls
        BY <2>2, SubSeqFull
      <4>2. visible'.lines = Device!LastLines(visible.lines \o Ls)
        BY <3>2 DEF Device!Write, Ls, text
      <4>3. QED
        BY <4>1, <4>2
    <3>3. QED
      BY <1>5, <3>1, <3>2
  <2>5. CASE visible'.lines = visible.lines
    BY <1>1, <1>2, <2>5
  <2>6. ASSUME NEW k \in 0 .. Len(Ls),
               visible'.lines = Device!LastLines(visible.lines \o SubSeq(Ls, 1, k))
        PROVE  LinesEnd'
    <3>1. \A i \in 1 .. Len(visible.lines) : EndsOnce(visible.lines[i])
      BY <1>1
    <3>2. QED
      BY <1>2, <2>1, <2>2, <2>3, <2>6, <3>1, LastLinesEnd
  <2>7. QED
    BY <2>4, <2>5, <2>6
<1>6. QED
  BY <1>3, <1>4, <1>5 DEF Device!DeviceNext

(* ---------------------------- readers' steps ---------------------------- *)

\* A running call has the device open.
LEMMA RunningIsLoaded ==
  ASSUME Inv, NEW t \in Task, pc[t] # "idle"
  PROVE  loaded
BY DEF Inv, CallsKeepLoaded

\* A reader that copies or adds up what the ring holds has the lock: no writer does.
LEMMA ReaderHolds ==
  ASSUME TextInv, NEW t \in Reader, pc[t] = "reading"
  PROVE  lock \notin Writer
<1>1. lock = t
  BY DEF TextInv, Holder, Locking, Task
<1>2. QED
  BY <1>1, DriverAssumption

\* A position that is stored in an open file.
LEMMA FposSet ==
  ASSUME FposTyped, NEW f, NEW x \in Nat \cup {EINVAL}, fpos' = [fpos EXCEPT ![f] = x]
  PROVE  FposTyped'
BY DEF FposTyped

\* What lseek works with is a number, whatever the state of the ring.
LEMMA TotalNumbered == ASSUME BufferTypeOK PROVE TotalSize \in Nat
<1>1. N \in Nat \ {0}
  BY NAssumption
<1>2. N - 1 \in Nat /\ (N - 1) + 1 = N
  BY <1>1
<1> DEFINE m == N - 1
<1> HIDE DEF m
<1>3. m \in Nat
  BY <1>2 DEF m
<1>4. Before(m) \in Nat /\ sizes[m] \in Nat /\ Before(m + 1) = Before(m) + sizes[m]
  BY <1>3, BeforeNext
<1>5. Before(N) = Before(m) + sizes[m]
  BY <1>2, <1>4 DEF m
<1>6. QED
  BY <1>4, <1>5, TotalIsBefore

\* The helper of aesd_llseek returns a position or the error number.
LEMMA LlseekNumbered ==
  ASSUME NEW pos \in Nat \cup {EINVAL}, NEW offset, NEW whence \in {"SET", "CUR", "END"},
         NEW size \in Nat
  PROVE  FixedSizeLlseek(pos, offset, whence, size) \in Nat \cup {EINVAL}
<1> DEFINE target == CASE whence = "SET" -> offset
                       [] whence = "CUR" -> pos + offset
                       [] whence = "END" -> size + offset
           result == IF target \in 0 .. size THEN target ELSE EINVAL
<1>1. result \in Nat \cup {EINVAL}
  <2> HIDE DEF target
  <2>1. 0 .. size \in SUBSET Nat
    OBVIOUS
  <2>2. QED
    BY <2>1
<1> HIDE DEF result
<1>2. \/ FixedSizeLlseek(pos, offset, whence, size) = pos
      \/ FixedSizeLlseek(pos, offset, whence, size) = result
  BY DEF FixedSizeLlseek, result
<1>3. QED
  BY <1>1, <1>2

\* What the ioctl does not refuse is a position.
LEMMA AdjustNumbered ==
  ASSUME BufferTypeOK, NEW k \in Nat, NEW i \in Nat, AdjustFileOffset(k, i) # EINVAL
  PROVE  AdjustFileOffset(k, i) \in Nat
<1>1. AdjustFileOffset(k, i) = Before(k) + i
  BY AdjustIsBefore
<1>2. Before(k) \in Nat
  BY BeforeNext
<1> HIDE DEF AdjustFileOffset
<1>3. QED
  BY <1>1, <1>2

\* Every step of a reader.
LEMMA ReadingKeepsNumbers ==
  ASSUME Inv, TextInv, LinesEnd, Numbers, NEW t \in Reader, ReaderStep(t)
  PROVE  Numbers'
<1> USE DEF counters, files, Goto
<1>1. t \in Task
  BY DEF Task
<1>2. CallsNumbered /\ FposTyped /\ CountersTyped /\ RingHeld /\ BufferTypeOK
  BY RingTyped DEF Numbers
<1>3. DOMAIN call[t] = CallFields /\ call = [u \in Task |-> call[u]]
  BY <1>1 DEF Inv, TaskTypes
<1>4. call[t].pos \in Nat /\ call[t].count \in Nat
  BY <1>1, <1>2 DEF CallsNumbered
<1>5. ASSUME UNCHANGED <<store, loaded>> PROVE RingHeld'
  BY <1>2, <1>5, RingHeldKept DEF store, ring, bufferVars
<1>6. ASSUME UNCHANGED <<structs, nwrites>> PROVE CountersTyped'
  BY <1>2, <1>6 DEF CountersTyped
<1>7. ASSUME fpos' = fpos PROVE FposTyped'
  BY <1>2, <1>7 DEF FposTyped
<1>8. ASSUME call' = call PROVE CallsNumbered'
  BY <1>2, <1>8 DEF CallsNumbered
<1>9. ASSUME call' = [call EXCEPT ![t] = NoCall] PROVE CallsNumbered'
  <2> HIDE DEF NoCall
  <2>1. QED
    BY <1>1, <1>2, <1>9, NoCallNumbered, CallNumbered
<1>10. CASE ReadBody(t)
  <2> DEFINE got == ReadResult(t)
             n == Len(got)
             pos == call[t].pos + n
             c == [call[t] EXCEPT !.data = got, !.pos = pos, !.ret = n]
  <2>1. pc[t] = "reading" /\ UNCHANGED <<store, loaded, structs, nwrites, fpos>>
    BY <1>10 DEF ReadBody
  <2>2. n \in Nat
    <3>1. loaded
      BY <1>1, <2>1, RunningIsLoaded
    <3>2. lock \notin Writer
      BY <1>1, <2>1, ReaderHolds
    <3>3. QED
      BY <1>2, <1>4, <3>1, <3>2, ReadInText
  <2> HIDE DEF got, n
  <2>3. pos \in Nat
    BY <1>4, <2>2
  <2>4. \/ call' = [call EXCEPT ![t].data = got, ![t].pos = pos, ![t].ret = n]
        \/ call' = [call EXCEPT ![t].ret = EFAULT]
    BY <1>1, <1>3, <1>10 DEF ReadBody, got, n, CallFields
  <2> HIDE DEF pos
  <2>5. \/ call' = [call EXCEPT ![t] = c] \/ call' = [call EXCEPT ![t].ret = EFAULT]
    BY <1>1, <1>3, <2>4
  <2>6. c.pos = pos /\ c.count = call[t].count
    BY <1>3 DEF CallFields
  <2> HIDE DEF c
  <2>7. CallsNumbered'
    BY <1>1, <1>2, <1>4, <2>3, <2>5, <2>6, CallNumbered, FieldNumbered
  <2>8. QED
    BY <1>5, <1>6, <1>7, <2>1, <2>7 DEF Numbers
<1>11. CASE ReadInterrupted(t)
  <2>1. /\ UNCHANGED <<store, loaded, structs, nwrites, fpos>>
        /\ call' = [call EXCEPT ![t] = NoCall]
    BY <1>11 DEF ReadInterrupted
  <2>2. QED
    BY <1>5, <1>6, <1>7, <1>9, <2>1 DEF Numbers
<1>12. CASE ReadReturn(t)
  <2>1. /\ UNCHANGED <<store, loaded, structs, nwrites>> /\ pc[t] # "idle"
        /\ call' = [call EXCEPT ![t] = NoCall] /\ fpos' = FposAfter(t)
    BY <1>12 DEF ReadReturn
  <2>2. FposTyped'
    BY <1>1, <2>1, FposStored
  <2>3. QED
    BY <1>5, <1>6, <1>9, <2>1, <2>2 DEF Numbers
<1>13. CASE SetFpos(t)
  <2>1. /\ UNCHANGED <<store, loaded, structs, nwrites>>
        /\ call' = [call EXCEPT ![t] = NoCall]
        /\ fpos' = [fpos EXCEPT ![call[t].file] = call[t].pos]
    BY <1>13 DEF SetFpos
  <2>2. FposTyped'
    BY <1>2, <1>4, <2>1, FposSet
  <2>3. QED
    BY <1>5, <1>6, <1>9, <2>1, <2>2 DEF Numbers
<1>14. ASSUME NEW f \in File, NEW count \in ReadCounts, ReadCall(t, f, count) PROVE Numbers'
  <2> DEFINE c == [WithFpos(f) EXCEPT !.count = count]
  <2>1. /\ UNCHANGED <<store, loaded, structs, nwrites, fpos>> /\ fpos[f] >= 0
        /\ call' = [call EXCEPT ![t] = c]
    BY <1>14 DEF ReadCall, Enter
  <2>2. c.pos = fpos[f] /\ c.count = count
    BY DEF WithFpos, NoCall
  <2>3. fpos[f] \in Nat /\ count \in Nat
    <3>1. fpos[f] \in Nat \cup {EINVAL}
      BY <1>2 DEF FposTyped
    <3>2. QED
      BY <2>1, <3>1, DriverAssumption DEF EINVAL
  <2> HIDE DEF c
  <2>4. CallsNumbered'
    BY <1>1, <1>2, <2>1, <2>2, <2>3, CallNumbered
  <2>5. QED
    BY <1>5, <1>6, <1>7, <2>1, <2>4 DEF Numbers
<1>15. ASSUME NEW offset \in Offsets, NEW whence \in {"SET", "CUR", "END"},
              Llseek(t, offset, whence)
       PROVE  Numbers'
  <2> DEFINE f == call[t].file
             x == FixedSizeLlseek(fpos[f], offset, whence, TotalSize)
  <2>1. /\ pc[t] = "seeking" /\ UNCHANGED <<store, loaded, structs, nwrites>>
        /\ call' = [call EXCEPT ![t] = NoCall]
    BY <1>15 DEF Llseek
  <2>2. fpos' = [fpos EXCEPT ![f] = FixedSizeLlseek(@, offset, whence, TotalSize)]
    BY <1>15 DEF Llseek
  <2>3. f \in File
    BY <1>1, <2>1 DEF Inv, CallsKeepLoaded, StoreTypes
  <2> HIDE DEF f
  <2>4. fpos[f] \in Nat \cup {EINVAL}
    BY <1>2, <2>3 DEF FposTyped
  <2>5. TotalSize \in Nat
    BY <1>2, TotalNumbered
  <2>6. x \in Nat \cup {EINVAL}
    <3> HIDE DEF x
    <3>1. ASSUME NEW size \in Nat
          PROVE  FixedSizeLlseek(fpos[f], offset, whence, size) \in Nat \cup {EINVAL}
      BY <2>4, LlseekNumbered
    <3>2. QED
      BY <2>5, <3>1 DEF x
  <2>7. fpos' = [fpos EXCEPT ![f] = x]
    BY <1>2, <2>2 DEF FposTyped
  <2> HIDE DEF x
  <2>8. FposTyped'
    BY <1>2, <2>6, <2>7, FposSet
  <2>9. QED
    BY <1>5, <1>6, <1>9, <2>1, <2>8 DEF Numbers
<1>16. ASSUME NEW seekto \in SeekToRequest, SeekTo(t, seekto) PROVE Numbers'
  <2> DEFINE pos == AdjustFileOffset(seekto.write_cmd, seekto.write_cmd_offset)
             c == [call[t] EXCEPT !.pos = pos]
  <2>1. /\ UNCHANGED <<store, loaded, structs, nwrites, fpos>>
        /\ \/ call' = [call EXCEPT ![t] = NoCall]
           \/ pos # EINVAL /\ call' = [call EXCEPT ![t].pos = pos]
    BY <1>16 DEF SeekTo
  <2>2. seekto.write_cmd \in Nat /\ seekto.write_cmd_offset \in Nat
    BY NAssumption DEF SeekToRequest
  <2>3. CASE pos # EINVAL /\ call' = [call EXCEPT ![t].pos = pos]
    <3>1. pos \in Nat
      BY <1>2, <2>2, <2>3, AdjustNumbered
    <3> HIDE DEF pos
    <3>2. call' = [call EXCEPT ![t] = c] /\ c.pos = pos /\ c.count = call[t].count
      BY <1>1, <1>3, <2>3 DEF CallFields
    <3> HIDE DEF c
    <3>3. CallsNumbered'
      BY <1>1, <1>2, <1>4, <3>1, <3>2, CallNumbered
    <3>4. QED
      BY <1>5, <1>6, <1>7, <2>1, <3>3 DEF Numbers
  <2>4. CASE call' = [call EXCEPT ![t] = NoCall]
    BY <1>5, <1>6, <1>7, <1>9, <2>1, <2>4 DEF Numbers
  <2>5. QED
    BY <2>1, <2>3, <2>4
<1>17. CASE LockForRead(t)
  <2>1. UNCHANGED <<store, loaded, structs, nwrites, fpos, call>>
    BY <1>17 DEF LockForRead
  <2>2. QED
    BY <1>5, <1>6, <1>7, <1>8, <2>1 DEF Numbers
<1>18. ASSUME NEW f \in File, NEW label, SeekCall(t, f, label) PROVE Numbers'
  <2> DEFINE c == [NoCall EXCEPT !.file = f]
  <2>1. UNCHANGED <<store, loaded, structs, nwrites, fpos>> /\ call' = [call EXCEPT ![t] = c]
    BY <1>18 DEF SeekCall, Enter
  <2>2. c.pos \in Nat /\ c.count \in Nat
    BY DEF NoCall
  <2> HIDE DEF c
  <2>3. CallsNumbered'
    BY <1>1, <1>2, <2>1, <2>2, CallNumbered
  <2>4. QED
    BY <1>5, <1>6, <1>7, <2>1, <2>3 DEF Numbers
<1>19. QED
  BY <1>10, <1>11, <1>12, <1>13, <1>14, <1>15, <1>16, <1>17, <1>18 DEF ReaderStep, ReadStep

(* ------------------ theorems on reading and seeking -------------------- *)

\* The lines that the programs see end with their only newline, positions and counts
\* are numbers, and a slot without memory has no size: what reading and seeking need.
THEOREM DriverNumbers ==
  ASSUME OneWriter \/ InputsAreLines
  PROVE  Spec => [](LinesEnd /\ Numbers)
<1>1. Init => LinesEnd /\ Numbers
  <2>1. SUFFICES ASSUME Init PROVE LinesEnd /\ Numbers
    OBVIOUS
  <2>2. /\ visible = [lines |-> << >>, rest |-> << >>, ok |-> TRUE] /\ loaded = FALSE
        /\ fpos = [f \in File |-> 0] /\ call = [t \in Task |-> NoCall]
        /\ structs = 0 /\ nwrites = 0
    BY <2>1 DEF Init
  <2>3. LinesEnd
    <3>1. 1 .. Len(<< >>) = {}
      OBVIOUS
    <3>2. QED
      BY <2>2, <3>1 DEF LinesEnd
  <2>4. CallsNumbered
    <3> HIDE DEF NoCall
    <3>1. QED
      BY <2>2, NoCallNumbered DEF CallsNumbered
  <2>5. FposTyped
    BY <2>2 DEF FposTyped
  <2>6. CountersTyped
    BY <2>2, DriverAssumption DEF CountersTyped
  <2>7. RingHeld
    BY <2>2 DEF RingHeld
  <2>8. QED
    BY <2>3, <2>4, <2>5, <2>6, <2>7 DEF Numbers
<1>2. ASSUME Inv, TextInv, LinesEnd, Numbers, [Next]_vars PROVE LinesEnd' /\ Numbers'
  <2>1. LinesEnd'
    BY <1>2, StepsAreDevice, DeviceKeepsLinesEnd DEF TextInv
  <2>2. CASE Load \/ Unload \/ \E f \in File : Open(f) \/ Release(f)
    BY <1>2, <2>1, <2>2, ModuleKeepsNumbers
  <2>3. ASSUME NEW t \in Writer, WriterStep(t) PROVE Numbers'
    BY <1>2, <2>3, WritingKeepsNumbers
  <2>4. ASSUME NEW t \in Reader, ReaderStep(t) PROVE Numbers'
    BY <1>2, <2>4, ReadingKeepsNumbers
  <2>5. CASE UNCHANGED vars
    <3>1. CallsNumbered' /\ FposTyped'
      BY <1>2, <2>5 DEF vars, Numbers, CallsNumbered, FposTyped
    <3>2. CountersTyped' /\ RingHeld'
      BY <1>2, <2>5 DEF vars, Numbers, CountersTyped, RingHeld
    <3>3. QED
      BY <2>1, <3>1, <3>2 DEF Numbers
  <2>6. QED
    BY <1>2, <2>1, <2>2, <2>3, <2>4, <2>5 DEF Next, WriterStep, ReaderStep
<1>3. QED
  BY <1>1, <1>2, DriverInvariant, DriverText, PTL DEF Spec

\* The types of the driver's state: a task or nobody holds dev->lock, and f_pos is a
\* position or the error number that aesd_llseek stored in it.
THEOREM DriverTypes ==
  ASSUME OneWriter \/ InputsAreLines
  PROVE  Spec => []TypeOK
<1>1. ASSUME Inv, TextInv, Numbers PROVE TypeOK
  <2>1. /\ BufferTypeOK /\ partial \in BufferEntry
        /\ Live \subseteq Ptr /\ \A p \in Live : mem[p] \in Seq(Nat)
        /\ loaded \in BOOLEAN /\ opened \subseteq File
    BY <1>1 DEF Inv, StoreTypes
  <2>2. \A t \in Task : call[t].buffer \in Ptr \cup {NULL} /\ call[t].off \in Nat
    BY <1>1 DEF Inv, TaskTypes
  <2>3. lock \in Task \cup {Nobody}
    BY <1>1 DEF TextInv, Holder
  <2>4. fpos \in [File -> Nat \cup {EINVAL}] /\ structs \in Nat /\ nwrites \in 0 .. MaxWrites
    BY <1>1 DEF Numbers, FposTyped, CountersTyped
  <2>5. QED
    BY <2>1, <2>2, <2>3, <2>4 DEF TypeOK
<1>2. QED
  BY <1>1, DriverInvariant, DriverText, DriverNumbers, PTL

\* The size that aesd_llseek works with is the length of the text although it adds up
\* all slots; aesd_adjust_file_offset gives a byte of a line its position in the text
\* wherever the ring starts, refuses the offsets behind the end of the line, and accepts
\* no position behind the text: for every set of offsets.
THEOREM DriverSeeksAgree ==
  ASSUME OneWriter \/ InputsAreLines
  PROVE  Spec => []SeeksAgreeWithText
<1>1. ASSUME Inv, TextInv, Numbers PROVE SeeksAgreeWithText
  BY <1>1, SeeksInText DEF Numbers
<1>2. QED
  BY <1>1, DriverInvariant, DriverText, DriverNumbers, PTL

\* Only the end of aesd_read takes a reader from "reading" to "return".
LEMMA OnlyReadBodyReads ==
  ASSUME Inv, [Next]_vars, NEW t \in Reader, pc[t] = "reading", pc'[t] = "return",
         call'[t].ret >= 0
  PROVE  call'[t].data = ReadResult(t)
<1>1. t \in Task /\ t \notin Writer
  BY DriverAssumption DEF Task
<1>2. pc \in [Task -> WriterLabels \cup ReaderLabels]
  BY DEF Inv, TaskTypes
<1>3. DOMAIN call[t] = CallFields /\ call = [u \in Task |-> call[u]]
  BY <1>1 DEF Inv, TaskTypes
<1>4. ASSUME pc' = pc PROVE FALSE
  BY <1>4
<1>5. ASSUME NEW u, NEW label, u # t, pc' = [pc EXCEPT ![u] = label] PROVE FALSE
  BY <1>1, <1>2, <1>5
<1>6. CASE Load \/ Unload \/ (\E f \in File : Open(f) \/ Release(f)) \/ UNCHANGED vars
  BY <1>4, <1>6 DEF Load, Unload, Open, Release, vars
<1>7. ASSUME NEW u \in Writer, WriterStep(u) PROVE FALSE
  <2>1. pc' = pc \/ \E label : pc' = [pc EXCEPT ![u] = label]
    <3> USE DEF Goto, GiveUp
    <3>1. CASE AllocBuffer(u) \/ CopyPartial(u) \/ CopyUser(u)
      BY <3>1 DEF AllocBuffer, CopyPartial, CopyUser
    <3>2. CASE FreePartial(u) \/ ClearPartial(u) \/ LockForWrite(u)
      BY <3>2 DEF FreePartial, ClearPartial, LockForWrite
    <3>3. CASE StoreLine(u) \/ KeepTail(u)
      BY <3>3 DEF StoreLine, KeepTail
    <3>4. CASE Unlock(u) \/ WriteOut(u) \/ WriteInterrupted(u) \/ WriteRestart(u)
      BY <3>4 DEF Unlock, WriteOut, WriteInterrupted, WriteRestart
    <3>5. ASSUME NEW f \in File, NEW data \in Inputs, WriteCall(u, f, data)
          PROVE  \E label : pc' = [pc EXCEPT ![u] = label]
      BY <3>5 DEF WriteCall, Enter
    <3>6. QED
      BY <1>7, <3>1, <3>2, <3>3, <3>4, <3>5 DEF WriterStep, WriteStep
  <2>2. QED
    BY <1>1, <1>4, <1>5, <1>7, <2>1
<1>8. ASSUME NEW u \in Reader, u # t, ReaderStep(u) PROVE FALSE
  <2>1. \E label : pc' = [pc EXCEPT ![u] = label]
    BY <1>8, ReaderMoves DEF ReaderGoes
  <2>2. QED
    BY <1>4, <1>5, <1>8, <2>1
<1>9. CASE ReaderStep(t)
  <2>1. ReadBody(t)
    <3>3. ~ReadReturn(t) /\ ~SetFpos(t) /\ ~LockForRead(t) /\ ~ReadInterrupted(t)
      BY DEF ReadReturn, SetFpos, LockForRead, ReadInterrupted, Holding
    <3>4. ASSUME NEW f, NEW count, ReadCall(t, f, count) PROVE FALSE
      BY <3>4 DEF ReadCall, Enter
    <3>5. ASSUME NEW f, NEW label, SeekCall(t, f, label) PROVE FALSE
      BY <3>5 DEF SeekCall, Enter
    <3>6. ASSUME NEW offset, NEW whence, Llseek(t, offset, whence) PROVE FALSE
      BY <3>6 DEF Llseek
    <3>7. ASSUME NEW seekto, SeekTo(t, seekto) PROVE FALSE
      BY <3>7 DEF SeekTo
    <3>8. QED
      BY <1>9, <3>3, <3>4, <3>5, <3>6, <3>7 DEF ReaderStep, ReadStep
  <2>2. ASSUME NEW e, call' = [call EXCEPT ![t].ret = e] PROVE call'[t].ret = e
    BY <1>1, <1>3, <2>2 DEF CallFields
  <2>3. ~(EFAULT >= 0)
    BY DEF EFAULT
  <2> DEFINE got == ReadResult(t)
             n == Len(got)
  <2> HIDE DEF n, got
  <2>4. \/ call' = [call EXCEPT ![t].data = got, ![t].pos = @ + n, ![t].ret = n]
        \/ call' = [call EXCEPT ![t].ret = EFAULT]
    BY <2>1 DEF ReadBody, got, n
  <2>5. call' = [call EXCEPT ![t].data = got, ![t].pos = @ + n, ![t].ret = n]
    BY <2>2, <2>3, <2>4
  <2>6. call'[t].data = got
    BY <1>1, <1>3, <2>5 DEF CallFields
  <2>7. QED
    BY <2>6 DEF got
<1>10. QED
  BY <1>6, <1>7, <1>8, <1>9 DEF Next, WriterStep, ReaderStep

\* aesd_read returns the bytes at f_pos of the text, not past the end of a line, and
\* none only at its end: no reader sees half of a write.
THEOREM DriverReadsText ==
  ASSUME OneWriter \/ InputsAreLines
  PROVE  Spec => ReadsText
<1> DEFINE Reads ==
      \A t \in Reader :
        pc[t] = "reading" /\ pc'[t] = "return" /\ call'[t].ret >= 0 =>
          LET pos == call[t].pos
              got == call'[t].data
          IN /\ got # << >> => /\ pos + Len(got) <= Len(Text)
                               /\ got = SubSeq(Text, pos + 1, pos + Len(got))
             /\ Len(got) <= call[t].count
             /\ got = << >> => pos >= Len(Text) \/ call[t].count = 0
             /\ \A i \in 1 .. Len(got) - 1 : got[i] # NL
<1>1. ASSUME Inv, TextInv, LinesEnd, Numbers, [Next]_vars PROVE Reads
  <2>1. SUFFICES ASSUME NEW t \in Reader,
                        pc[t] = "reading", pc'[t] = "return", call'[t].ret >= 0
                 PROVE  ReadsWell(call'[t].data, call[t].pos, call[t].count)
    BY Zenon DEF ReadsWell
  <2>2. t \in Task
    BY DEF Task
  <2>3. lock \notin Writer /\ call'[t].data = ReadResult(t)
    BY <1>1, <2>1, OnlyReadBodyReads, ReaderHolds
  <2>4. loaded
    BY <1>1, <2>1, <2>2, RunningIsLoaded
  <2>5. call[t].pos \in Nat /\ call[t].count \in Nat /\ RingHeld
    BY <1>1, <2>2 DEF Numbers, CallsNumbered
  <2>6. ReadsWell(ReadResult(t), call[t].pos, call[t].count)
    BY <1>1, <2>3, <2>4, <2>5, ReadInText
  <2>7. QED
    BY <2>3, <2>6
<1>2. QED
  BY <1>1, DriverInvariant, DriverText, DriverNumbers, PTL DEF Spec, ReadsText
=============================================================================
