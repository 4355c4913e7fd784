------------------------ MODULE CircularBufferProofs ------------------------
(***************************************************************************)
(* Proofs about the circular buffer for every capacity N and every set of  *)
(* command sizes.  The inductive invariant is BufferInv below: types, the        *)
(* relation between full and the two offsets, and the ownership of memory. *)
(* The refinement to BoundedLog rests on it through two lemmas about what  *)
(* an addition does to the sequence of stored commands.                    *)
(***************************************************************************)
EXTENDS CircularBufferClient, SequenceTheorems, FiniteSetTheorems,
        WellFoundedInduction, TLAPS

BufferInv == ClientTypeOK /\ RingConsistent /\ MemoryIsStored

(* ------------------------- index arithmetic --------------------------- *)

\* Advancing an offset wraps it at the last slot and stays in the array.
LEMMA NextOffsetWraps ==
  \A i \in Slot : /\ NextOffset(i) \in Slot
                  /\ NextOffset(i) = IF i = N - 1 THEN 0 ELSE i + 1
  BY NAssumption, SMT DEF Slot, NextOffset

\* The slot k places after slot i, for k up to a whole turn.
LEMMA SlotAfter ==
  \A i \in Slot, k \in 0 .. N :
    /\ (i + k) % N \in Slot
    /\ (i + k) % N = IF i + k < N THEN i + k ELSE i + k - N
  <1> TAKE i \in Slot, k \in 0 .. N
  <1>1. CASE i + k < N
    BY <1>1, NAssumption, SMT DEF Slot
  <1>2. CASE i + k >= N
    BY <1>2, NAssumption, SMT DEF Slot
  <1> QED BY <1>1, <1>2, NAssumption, SMT DEF Slot

(* ------------------------ inductive invariant ------------------------- *)

\* The fields of the struct keep their ranges, whatever is added.
LEMMA AddTyped ==
  ASSUME ClientTypeOK, NEW p \in Ptr, NEW n \in Size, Add(p, n)
  PROVE  ClientTypeOK'
  <1> DEFINE e == [buffptr |-> p, size |-> n]
  <1>1. e \in BufferEntry
    BY SizeAssumption DEF BufferEntry
  <1>2. entry' \in [Slot -> BufferEntry]
    BY <1>1 DEF Add, AddEntry, ClientTypeOK, BufferTypeOK
  <1>3. in_offs' \in Slot /\ out_offs' \in Slot /\ full' \in BOOLEAN
    BY NextOffsetWraps DEF Add, AddEntry, ClientTypeOK, BufferTypeOK
  <1>4. live' \subseteq Ptr
    BY DEF Add, ClientTypeOK
  <1> QED BY <1>2, <1>3, <1>4 DEF ClientTypeOK, BufferTypeOK

\* full keeps meaning "no free slot", and a free slot stays zeroed.
LEMMA AddRing ==
  ASSUME ClientTypeOK, RingConsistent, NEW p \in Ptr, NEW n \in Size, Add(p, n)
  PROVE  RingConsistent'
  <1>1. CASE full
    BY <1>1, NextOffsetWraps DEF Add, AddEntry, RingConsistent, RingInv, ClientTypeOK, BufferTypeOK
  <1>2. CASE ~full
    <2>1. out_offs = 0 /\ out_offs' = 0
      BY <1>2 DEF Add, AddEntry, RingConsistent, RingInv
    <2>2. full' <=> NextOffset(in_offs) = 0
      BY <1>2, <2>1 DEF Add, AddEntry, ClientTypeOK, BufferTypeOK
    <2>3. CASE in_offs = N - 1
      <3>1. full' /\ in_offs' = 0
        BY <2>2, <2>3, NextOffsetWraps DEF Add, AddEntry, ClientTypeOK, BufferTypeOK
      <3> QED BY <3>1, <2>1 DEF RingConsistent, RingInv
    <2>4. CASE in_offs # N - 1
      <3>1. in_offs' = in_offs + 1 /\ in_offs' # 0
        BY <2>4, NextOffsetWraps, NAssumption DEF Add, AddEntry, ClientTypeOK, BufferTypeOK, Slot
      <3>2. \A i \in Slot : i >= in_offs' => entry'[i] = EmptyEntry
        BY <1>2, <3>1, NAssumption
           DEF Add, AddEntry, RingConsistent, RingInv, ClientTypeOK, BufferTypeOK, Slot
      <3>3. ~full'
        BY <3>1, <2>2 DEF Add, AddEntry
      <3> QED BY <3>2, <3>3, <2>1 DEF RingConsistent, RingInv
    <2> QED BY <2>3, <2>4
  <1> QED BY <1>1, <1>2 DEF ClientTypeOK, BufferTypeOK

\* Freeing the returned address keeps live equal to the stored addresses.
LEMMA AddMemory ==
  ASSUME BufferInv, NEW p \in Ptr, NEW n \in Size, Add(p, n)
  PROVE  MemoryIsStored'
  <1> DEFINE old == entry[in_offs].buffptr
  <1>1. p \notin live /\ p # NULL /\ in_offs \in Slot
    BY NullAssumption DEF Add, BufferInv, ClientTypeOK, BufferTypeOK
  <1>2. /\ entry'[in_offs].buffptr = p
        /\ \A i \in Slot : i # in_offs => entry'[i] = entry[i]
    BY <1>1 DEF Add, AddEntry, BufferInv, ClientTypeOK, BufferTypeOK
  <1>3. live' = (live \cup {p}) \ {old}
    <2>1. CASE full
      BY <2>1 DEF Add, Garbage
    <2>2. CASE ~full
      <3>1. old = NULL
        BY <2>2, <1>1 DEF BufferInv, RingConsistent, RingInv, EmptyEntry, Slot
      <3> QED BY <2>2, <3>1 DEF Add, Garbage
    <2> QED BY <2>1, <2>2 DEF BufferInv, ClientTypeOK, BufferTypeOK
  <1>4. \A i \in Slot : i # in_offs => entry[i].buffptr # p
    BY <1>1 DEF BufferInv, MemoryIsStored
  <1>5. \A i \in Slot : i # in_offs /\ entry[i].buffptr # NULL => entry[i].buffptr # old
    BY <1>1 DEF BufferInv, MemoryIsStored
  <1>6. live' = {entry'[i].buffptr : i \in Slot} \ {NULL}
    BY <1>1, <1>2, <1>3, <1>4, <1>5 DEF BufferInv, MemoryIsStored
  <1>7. \A i, j \in Slot :
          entry'[i].buffptr = entry'[j].buffptr /\ entry'[i].buffptr # NULL => i = j
    BY <1>1, <1>2, <1>4 DEF BufferInv, MemoryIsStored
  <1> QED BY <1>6, <1>7 DEF MemoryIsStored

\* The ring, its indices and the memory of its entries are consistent in
\* every reachable state of a caller that frees what add_entry returns.
THEOREM BufferInvariant == ClientSpec => []BufferInv
  <1>1. ClientInit => BufferInv
    <2> SUFFICES ASSUME ClientInit PROVE BufferInv
      OBVIOUS
    <2>1. ClientTypeOK
      <3>1. EmptyEntry \in BufferEntry
        BY DEF EmptyEntry, BufferEntry
      <3>2. 0 \in Slot
        BY NAssumption DEF Slot
      <3>3. full \in BOOLEAN
        BY DEF ClientInit, BufferInit
      <3>4. entry \in [Slot -> BufferEntry]
        BY <3>1 DEF ClientInit, BufferInit
      <3> QED BY <3>2, <3>3, <3>4 DEF ClientInit, BufferInit, ClientTypeOK, BufferTypeOK
    <2>2. RingConsistent
      BY DEF ClientInit, BufferInit, RingConsistent, RingInv
    <2>3. MemoryIsStored
      BY DEF ClientInit, BufferInit, MemoryIsStored, EmptyEntry
    <2> QED BY <2>1, <2>2, <2>3 DEF BufferInv
  <1>2. BufferInv /\ [ClientNext]_clientVars => BufferInv'
    <2> SUFFICES ASSUME BufferInv, [ClientNext]_clientVars PROVE BufferInv'
      OBVIOUS
    <2>1. ASSUME NEW p \in Ptr, NEW n \in Size, Add(p, n) PROVE BufferInv'
      BY <2>1, AddTyped, AddRing, AddMemory DEF BufferInv
    <2>2. CASE UNCHANGED clientVars
      BY <2>2 DEF clientVars, BufferInv, ClientTypeOK, BufferTypeOK, RingConsistent, RingInv, MemoryIsStored
    <2> QED BY <2>1, <2>2 DEF ClientNext
  <1> QED BY <1>1, <1>2, PTL DEF ClientSpec

\* Each stored command's memory is owned exactly once and nothing else is
\* allocated: the ring neither leaks nor hands out freed memory.
THEOREM BufferOwnsItsMemory == ClientSpec => []MemoryIsStored
  <1>1. BufferInv => MemoryIsStored
    BY DEF BufferInv
  <1> QED BY <1>1, BufferInvariant, PTL

\* Between calls a full ring has equal offsets and a free slot is zeroed.
THEOREM BufferRingConsistent == ClientSpec => []RingConsistent
  <1>1. BufferInv => RingConsistent
    BY DEF BufferInv
  <1> QED BY <1>1, BufferInvariant, PTL

\* Both offsets stay within the ring, for every capacity.
THEOREM BufferTypes == ClientSpec => []ClientTypeOK
  <1>1. BufferInv => ClientTypeOK
    BY DEF BufferInv
  <1> QED BY <1>1, BufferInvariant, PTL

(* ----------------------------- refinement ----------------------------- *)

\* The stored commands form a sequence of at most N entries.
LEMMA StoredIsSeq ==
  ASSUME BufferTypeOK, RingInv
  PROVE  /\ Count \in 0 .. N
         /\ ~full => Count = in_offs /\ Count < N
         /\ Stored \in Seq(BufferEntry)
         /\ Len(Stored) = Count
         /\ \A k \in 1 .. Count : Stored[k] = entry[(out_offs + k - 1) % N]
  <1>1. Count \in 0 .. N /\ (~full => Count = in_offs /\ Count < N)
    <2>1. CASE full
      BY <2>1, NAssumption DEF Count
    <2>2. CASE ~full
      <3>1. out_offs = 0 /\ in_offs \in 0 .. N - 1
        BY <2>2 DEF RingInv, BufferTypeOK, Slot
      <3>2. (in_offs - out_offs) % N = in_offs
        BY <3>1, NAssumption, SMT
      <3> QED BY <2>2, <3>1, <3>2, NAssumption DEF Count
    <2> QED BY <2>1, <2>2 DEF BufferTypeOK
  <1>2. \A k \in 1 .. Count : entry[(out_offs + k - 1) % N] \in BufferEntry
    <2> TAKE k \in 1 .. Count
    <2>1. (out_offs + (k - 1)) % N \in Slot
      BY <1>1, SlotAfter, NAssumption DEF BufferTypeOK
    <2>2. out_offs + k - 1 = out_offs + (k - 1)
      BY <1>1, NAssumption DEF BufferTypeOK, Slot
    <2> QED BY <2>1, <2>2 DEF BufferTypeOK
  <1>3. Stored \in [1 .. Count -> BufferEntry]
    BY <1>2 DEF Stored
  <1>4. Stored \in Seq(BufferEntry) /\ Len(Stored) = Count
    BY <1>1, <1>3, NAssumption
  <1> QED BY <1>1, <1>4 DEF Stored

\* A sequence is the function of its elements.
LEMMA SequenceIsItsElements ==
  ASSUME NEW S, NEW s \in Seq(S), NEW n, n = Len(s)
  PROVE  s = [k \in 1 .. n |-> s[k]]
  <1>1. s \in [1 .. n -> S]
    BY LenProperties
  <1> QED BY <1>1

\* Adding to a ring with a free slot appends to the stored commands.
LEMMA AddAppends ==
  ASSUME BufferTypeOK, RingInv, ~full, NEW e \in BufferEntry, AddEntry(e)
  PROVE  Stored' = Append(Stored, e) /\ Count' = Count + 1
  <1>1. out_offs = 0 /\ out_offs' = 0 /\ in_offs \in 0 .. N - 1
    BY DEF RingInv, AddEntry, BufferTypeOK, Slot
  <1>2. Count = in_offs /\ Stored \in Seq(BufferEntry) /\ Len(Stored) = in_offs
    BY StoredIsSeq
  <1>3. Count' = in_offs + 1
    <2>1. CASE in_offs = N - 1
      <3>1. full'
        BY <2>1, <1>1, NextOffsetWraps DEF AddEntry, Slot
      <3> QED BY <2>1, <3>1, NAssumption DEF Count
    <2>2. CASE in_offs # N - 1
      <3>1. in_offs' = in_offs + 1
        BY <2>2, <1>1, NextOffsetWraps DEF AddEntry, Slot
      <3>2. in_offs' # 0
        BY <1>1, <3>1
      <3>3. full' <=> in_offs' = 0
        BY <1>1 DEF AddEntry
      <3>4. (in_offs' - out_offs') % N = in_offs + 1
        BY <1>1, <2>2, <3>1, NAssumption, SMT
      <3> QED BY <3>2, <3>3, <3>4 DEF Count
    <2> QED BY <2>1, <2>2
  <1>4. \A k \in 1 .. in_offs + 1 : (0 + k - 1) % N = k - 1 /\ k - 1 \in Slot
    BY <1>1, NAssumption, SMT DEF Slot
  <1>5. Stored' = [k \in 1 .. in_offs + 1 |-> entry'[k - 1]]
    BY <1>1, <1>3, <1>4 DEF Stored
  <1>6. Stored = [k \in 1 .. in_offs |-> entry[k - 1]]
    BY <1>1, <1>2, <1>4 DEF Stored
  <1>7. \A k \in 1 .. in_offs + 1 :
          entry'[k - 1] = IF k = in_offs + 1 THEN e ELSE entry[k - 1]
    BY <1>1, <1>4 DEF AddEntry, BufferTypeOK
  <1>8. /\ Append(Stored, e) \in Seq(BufferEntry)
        /\ Len(Append(Stored, e)) = in_offs + 1
        /\ \A k \in 1 .. in_offs : Append(Stored, e)[k] = Stored[k]
        /\ Append(Stored, e)[in_offs + 1] = e
    BY <1>2, AppendProperties
  <1>9. \A k \in 1 .. in_offs + 1 : entry'[k - 1] = Append(Stored, e)[k]
    <2> TAKE k \in 1 .. in_offs + 1
    <2>1. CASE k = in_offs + 1
      BY <2>1, <1>7, <1>8
    <2>2. CASE k \in 1 .. in_offs
      BY <1>1, <2>2, <1>6, <1>7, <1>8
    <2>3. k = in_offs + 1 \/ k \in 1 .. in_offs
      BY <1>1
    <2> QED BY <2>1, <2>2, <2>3
  <1>10. Stored' = [k \in 1 .. in_offs + 1 |-> Append(Stored, e)[k]]
    BY <1>5, <1>9
  <1>11. Stored' = Append(Stored, e)
    BY <1>1, <1>8, <1>10, SequenceIsItsElements
  <1> QED BY <1>2, <1>3, <1>11

\* Adding to a full ring drops the oldest command and appends the new one.
LEMMA AddReplacesOldest ==
  ASSUME BufferTypeOK, RingInv, full, NEW e \in BufferEntry, AddEntry(e)
  PROVE  Stored' = Append(Tail(Stored), e)
  <1>1. /\ in_offs = out_offs /\ out_offs \in Slot
        /\ full' /\ out_offs' = NextOffset(out_offs)
        /\ entry' = [entry EXCEPT ![out_offs] = e]
    BY DEF RingInv, AddEntry, BufferTypeOK
  <1>2. Count = N /\ Count' = N /\ N \in Nat \ {0}
    BY <1>1, NAssumption DEF Count
  <1>3. Stored \in Seq(BufferEntry) /\ Len(Stored) = N
    BY <1>2, StoredIsSeq
  <1>4. \A k \in 1 .. N :
          /\ (out_offs' + k - 1) % N = (out_offs + k) % N
          /\ (out_offs + k) % N \in Slot
          /\ (out_offs + k) % N = out_offs <=> k = N
    <2> TAKE k \in 1 .. N
    <2>1. /\ (out_offs + k) % N \in Slot
          /\ (out_offs + k) % N = IF out_offs + k < N THEN out_offs + k ELSE out_offs + k - N
      BY <1>1, <1>2, SlotAfter
    <2>2. out_offs' \in Slot /\ out_offs' = IF out_offs = N - 1 THEN 0 ELSE out_offs + 1
      BY <1>1, NextOffsetWraps
    <2>3. PICK j \in 0 .. N : j = k - 1
      BY <1>2
    <2>4. (out_offs' + j) % N = IF out_offs' + j < N THEN out_offs' + j
                                ELSE out_offs' + j - N
      BY <2>2, SlotAfter
    <2>5. out_offs' + k - 1 = out_offs' + j
      BY <1>2, <2>2, <2>3 DEF Slot
    <2>6. (out_offs' + k - 1) % N = IF out_offs' + j < N THEN out_offs' + j
                                    ELSE out_offs' + j - N
      BY <2>4, <2>5
    <2> QED BY <1>1, <1>2, <2>1, <2>2, <2>3, <2>6 DEF Slot
  <1>5. Stored' = [k \in 1 .. N |-> entry'[(out_offs + k) % N]]
    BY <1>2, <1>4 DEF Stored
  <1>6. \A k \in 1 .. N :
          entry'[(out_offs + k) % N] = IF k = N THEN e ELSE entry[(out_offs + k) % N]
    BY <1>1, <1>4 DEF BufferTypeOK
  <1>7. /\ Tail(Stored) \in Seq(BufferEntry) /\ Len(Tail(Stored)) = N - 1
        /\ \A k \in 1 .. N - 1 : Tail(Stored)[k] = Stored[k + 1]
    BY <1>2, <1>3, HeadTailProperties
  <1>8. \A k \in 1 .. N - 1 : Stored[k + 1] = entry[(out_offs + k) % N]
    <2> TAKE k \in 1 .. N - 1
    <2>1. k + 1 \in 1 .. Count /\ out_offs + (k + 1) - 1 = out_offs + k
      BY <1>1, <1>2 DEF Slot
    <2> QED BY <2>1 DEF Stored
  <1>9. /\ Append(Tail(Stored), e) \in Seq(BufferEntry)
        /\ Len(Append(Tail(Stored), e)) = N
        /\ \A k \in 1 .. N - 1 : Append(Tail(Stored), e)[k] = Tail(Stored)[k]
        /\ Append(Tail(Stored), e)[N] = e
    <2>1. Len(Tail(Stored)) + 1 = N
      BY <1>2, <1>7
    <2> QED BY <1>7, <2>1, AppendProperties
  <1>10. \A k \in 1 .. N :
           entry'[(out_offs + k) % N] = Append(Tail(Stored), e)[k]
    <2> TAKE k \in 1 .. N
    <2>1. CASE k = N
      BY <2>1, <1>6, <1>9
    <2>2. CASE k \in 1 .. N - 1
      BY <1>2, <2>2, <1>6, <1>7, <1>8, <1>9
    <2>3. k = N \/ k \in 1 .. N - 1
      BY <1>2
    <2> QED BY <2>1, <2>2, <2>3
  <1>11. Stored' = [k \in 1 .. N |-> Append(Tail(Stored), e)[k]]
    BY <1>5, <1>10
  <1> QED BY <1>2, <1>9, <1>11, SequenceIsItsElements

\* The circular buffer and the frees its caller makes implement a log that
\* keeps the last N commands and the memory of just those.
THEOREM BufferRefinesLog == ClientSpec => KeepsLastN
  <1>1. ClientInit => Abstract!LogInit
    <2> SUFFICES ASSUME ClientInit PROVE Abstract!LogInit
      OBVIOUS
    <2>1. Count = 0
      BY NAssumption, SMT DEF ClientInit, BufferInit, Count
    <2>2. Stored = << >>
      BY <2>1 DEF Stored
    <2> QED BY <2>2 DEF ClientInit, Abstract!LogInit
  <1>2. BufferInv /\ [ClientNext]_clientVars => [Abstract!LogNext]_Abstract!logVars
    <2> SUFFICES ASSUME BufferInv, [ClientNext]_clientVars
                 PROVE  [Abstract!LogNext]_Abstract!logVars
      OBVIOUS
    <2>1. ASSUME NEW p \in Ptr, NEW n \in Size, Add(p, n)
          PROVE  Abstract!LogNext
      <3> DEFINE e == [buffptr |-> p, size |-> n]
      <3>0. BufferTypeOK /\ RingInv
        BY DEF BufferInv, ClientTypeOK, RingConsistent
      <3>1. e \in BufferEntry /\ AddEntry(e) /\ p \in Ptr \ live
        BY <2>1, SizeAssumption DEF Add, BufferEntry
      <3>2. CASE full
        <4>1. Len(Stored) = N /\ N \in Nat \ {0} /\ Stored \in Seq(BufferEntry)
          BY <3>0, <3>2, StoredIsSeq, NAssumption DEF Count
        <4>2. Stored' = Abstract!Keep(e)
          BY <3>0, <3>1, <3>2, <4>1, AddReplacesOldest DEF Abstract!Keep
        <4>3. Head(Stored) = entry[in_offs]
          <5>1. Head(Stored) = Stored[1]
            BY <4>1
          <5>2. Stored[1] = entry[(out_offs + 1 - 1) % N]
            BY <3>2, <4>1 DEF Stored, Count
          <5>3. (out_offs + 1 - 1) % N = out_offs /\ out_offs = in_offs
            BY <3>2, NAssumption, SMT
               DEF BufferInv, ClientTypeOK, BufferTypeOK, Slot, RingConsistent, RingInv
          <5> QED BY <5>1, <5>2, <5>3
        <4>4. live' = (live \cup {p}) \ Abstract!Dropped
          BY <2>1, <3>2, <4>1, <4>3 DEF Add, Garbage, Abstract!Dropped
        <4> QED BY <3>1, <4>2, <4>4 DEF Abstract!LogNext
      <3>3. CASE ~full
        <4>1. Len(Stored) # N
          BY <3>0, <3>3, StoredIsSeq, NAssumption DEF BufferTypeOK, Slot
        <4>2. Stored' = Abstract!Keep(e)
          BY <3>0, <3>1, <3>3, <4>1, AddAppends DEF Abstract!Keep
        <4>3. live' = (live \cup {p}) \ Abstract!Dropped
          BY <2>1, <3>1, <3>3, <4>1, NullAssumption
             DEF Add, Garbage, Abstract!Dropped, BufferInv, ClientTypeOK
        <4> QED BY <3>1, <4>2, <4>3 DEF Abstract!LogNext
      <3> QED BY <3>2, <3>3 DEF BufferInv, ClientTypeOK, BufferTypeOK
    <2>2. CASE UNCHANGED clientVars
      BY <2>2 DEF clientVars, Abstract!logVars, Stored, Count
    <2> QED BY <2>1, <2>2 DEF ClientNext
  <1> QED BY <1>1, <1>2, BufferInvariant, PTL DEF ClientSpec, KeepsLastN, Abstract!LogSpec

\* A set of naturals that is not empty has a least element.
LEMMA MinOfNaturals ==
  ASSUME NEW S \in SUBSET Nat, S # {}
  PROVE  Min(S) \in S /\ \A y \in S : Min(S) <= y
  <1>1. PICK x \in S : \A y \in S : ~(<<y, x>> \in OpToRel(<, Nat))
    BY NatLessThanWellFounded, WFMin, Zenon
  <1>2. \A y \in S : ~(y < x)
    BY <1>1, Zenon DEF OpToRel
  <1>3. \A y \in S : x <= y
    BY <1>2
  <1> QED BY <1>3 DEF Min

(* -------------------------------- sums -------------------------------- *)

\* The recursion of MapThenSumSet for the values of a function f, and its
\* result.
Picked(s) == CHOOSE x \in s : TRUE
SumRule(it, f, T) ==
  it = [s \in T |-> IF s = {} THEN 0 ELSE f[Picked(s)] + it[s \ {Picked(s)}]]
Sum(f, S) == (CHOOSE it : SumRule(it, f, SUBSET S))[S]
Small(S, n) == {s \in SUBSET S : Cardinality(s) <= n}

\* The set without its chosen element is smaller.
LEMMA PickedLeaves ==
  ASSUME NEW S, IsFiniteSet(S), NEW s \in SUBSET S, s # {}
  PROVE  /\ Picked(s) \in s /\ s \ {Picked(s)} \in SUBSET S
         /\ IsFiniteSet(s) /\ Cardinality(s) \in Nat \ {0}
         /\ Cardinality(s \ {Picked(s)}) = Cardinality(s) - 1
  <1>1. IsFiniteSet(s) /\ Cardinality(s) \in Nat
    BY FS_Subset, FS_CardinalityType
  <1>2. Picked(s) \in s
    BY DEF Picked
  <1>3. Cardinality(s) # 0
    BY <1>1, FS_EmptySet
  <1> QED BY <1>1, <1>2, <1>3, FS_RemoveElement

\* The recursion has a solution.
LEMMA SumRuleSolved ==
  ASSUME NEW S, IsFiniteSet(S), NEW f
  PROVE  \E it : SumRule(it, f, SUBSET S)
  <1> DEFINE Solved(n) == \E it : SumRule(it, f, Small(S, n))
             Open == {n \in Nat : ~Solved(n)}
  <1>1. Solved(0)
    <2> DEFINE it == [s \in Small(S, 0) |-> 0]
    <2>1. \A s \in Small(S, 0) : s = {}
      <3> TAKE s \in Small(S, 0)
      <3>1. s \in SUBSET S /\ Cardinality(s) <= 0
        BY DEF Small
      <3>2. IsFiniteSet(s) /\ Cardinality(s) \in Nat
        BY <3>1, FS_Subset, FS_CardinalityType
      <3>3. Cardinality(s) = 0
        BY <3>1, <3>2
      <3> QED BY <3>2, <3>3, FS_EmptySet
    <2>2. SumRule(it, f, Small(S, 0))
      BY <2>1 DEF SumRule
    <2> QED BY <2>2
  <1>2. ASSUME NEW n \in Nat, Solved(n) PROVE Solved(n + 1)
    <2>1. PICK it : SumRule(it, f, Small(S, n))
      BY <1>2
    <2> DEFINE next(s) == IF s = {} THEN 0 ELSE f[Picked(s)] + it[s \ {Picked(s)}]
               jt == [s \in Small(S, n + 1) |-> next(s)]
    <2>2. \A s \in Small(S, n) : it[s] = next(s)
      BY <2>1 DEF SumRule
    <2>3. \A s \in Small(S, n + 1) : s # {} => s \ {Picked(s)} \in Small(S, n)
      <3> SUFFICES ASSUME NEW s \in Small(S, n + 1), s # {}
                   PROVE  s \ {Picked(s)} \in Small(S, n)
        OBVIOUS
      <3>1. s \in SUBSET S /\ Cardinality(s) <= n + 1
        BY DEF Small
      <3>2. /\ s \ {Picked(s)} \in SUBSET S /\ Cardinality(s) \in Nat
            /\ Cardinality(s \ {Picked(s)}) = Cardinality(s) - 1
        BY <3>1, PickedLeaves
      <3>3. Cardinality(s \ {Picked(s)}) <= n
        BY <3>1, <3>2
      <3> QED BY <3>2, <3>3 DEF Small
    <2>4. Small(S, n) \subseteq Small(S, n + 1)
      <3> SUFFICES ASSUME NEW s \in Small(S, n) PROVE s \in Small(S, n + 1)
        OBVIOUS
      <3>1. s \in SUBSET S /\ Cardinality(s) <= n
        BY DEF Small
      <3>2. Cardinality(s) \in Nat
        BY <3>1, FS_Subset, FS_CardinalityType
      <3> QED BY <3>1, <3>2 DEF Small
    <2>5. \A s \in Small(S, n) : jt[s] = it[s]
      BY <2>2, <2>4
    <2>6. \A s \in Small(S, n + 1) :
            next(s) = IF s = {} THEN 0 ELSE f[Picked(s)] + jt[s \ {Picked(s)}]
      BY <2>3, <2>5
    <2>7. jt = [s \in Small(S, n + 1) |->
                  IF s = {} THEN 0 ELSE f[Picked(s)] + jt[s \ {Picked(s)}]]
      <3> HIDE DEF next
      <3>1. jt = [s \in Small(S, n + 1) |-> next(s)]
        OBVIOUS
      <3> HIDE DEF jt
      <3> QED BY <3>1, <2>6
    <2> HIDE DEF jt
    <2>8. SumRule(jt, f, Small(S, n + 1))
      BY <2>7 DEF SumRule
    <2> QED BY <2>8
  <1>3. \A n \in Nat : Solved(n)
    <2> SUFFICES ASSUME Open # {} PROVE FALSE
      OBVIOUS
    <2> HIDE DEF Solved
    <2> DEFINE m == Min(Open)
    <2>1. m \in Open /\ \A n \in Open : m <= n
      <3>1. Open \in SUBSET Nat
        OBVIOUS
      <3> HIDE DEF Open
      <3> QED BY <3>1, MinOfNaturals
    <2> HIDE DEF m
    <2>2. m \in Nat \ {0}
      BY <2>1, <1>1
    <2>3. m - 1 \in Nat /\ m - 1 \notin Open
      BY <2>1, <2>2
    <2>4. Solved(m - 1)
      BY <2>3
    <2>5. Solved((m - 1) + 1)
      BY <2>3, <2>4, <1>2
    <2>6. (m - 1) + 1 = m
      BY <2>2
    <2> QED BY <2>1, <2>5, <2>6
  <1>4. Cardinality(S) \in Nat /\ Small(S, Cardinality(S)) = SUBSET S
    BY FS_CardinalityType, FS_Subset DEF Small
  <1> QED BY <1>3, <1>4

\* Any two solutions agree where both are defined, and a sum of naturals is one.
LEMMA SumRuleUnique ==
  ASSUME NEW S, IsFiniteSet(S), NEW T \in SUBSET S,
         NEW f, \A x \in S : f[x] \in Nat, NEW it, NEW jt,
         SumRule(it, f, SUBSET S), SumRule(jt, f, SUBSET T)
  PROVE  \A s \in SUBSET T : it[s] = jt[s] /\ it[s] \in Nat
  <1> DEFINE Wrong == {n \in Nat : \E s \in SUBSET T : Cardinality(s) = n
                                     /\ ~(it[s] = jt[s] /\ it[s] \in Nat)}
             m == Min(Wrong)
  <1> SUFFICES ASSUME NEW s0 \in SUBSET T, ~(it[s0] = jt[s0] /\ it[s0] \in Nat)
               PROVE  FALSE
    OBVIOUS
  <1>0. IsFiniteSet(T)
    BY FS_Subset
  <1>1. Cardinality(s0) \in Wrong
    BY <1>0, FS_Subset, FS_CardinalityType
  <1>2. m \in Wrong /\ \A n \in Wrong : m <= n
    <2>1. Wrong \in SUBSET Nat
      OBVIOUS
    <2> HIDE DEF Wrong
    <2> QED BY <2>1, <1>1, MinOfNaturals
  <1> HIDE DEF m
  <1>3. PICK s \in SUBSET T : Cardinality(s) = m /\ ~(it[s] = jt[s] /\ it[s] \in Nat)
    BY <1>2
  <1>4. /\ it[s] = IF s = {} THEN 0 ELSE f[Picked(s)] + it[s \ {Picked(s)}]
        /\ jt[s] = IF s = {} THEN 0 ELSE f[Picked(s)] + jt[s \ {Picked(s)}]
    BY <1>3 DEF SumRule
  <1>5. s # {}
    BY <1>3, <1>4
  <1>6. /\ Picked(s) \in S /\ s \ {Picked(s)} \in SUBSET T /\ m \in Nat \ {0}
        /\ Cardinality(s \ {Picked(s)}) = m - 1
    BY <1>0, <1>3, <1>5, PickedLeaves
  <1>7. m - 1 \notin Wrong /\ m - 1 \in Nat
    BY <1>2, <1>6
  <1>8. it[s \ {Picked(s)}] = jt[s \ {Picked(s)}] /\ it[s \ {Picked(s)}] \in Nat
    BY <1>6, <1>7
  <1> QED BY <1>3, <1>4, <1>5, <1>6, <1>8

\* A sum is its value at any one element plus the sum over the others.
LEMMA SumSplits ==
  ASSUME NEW S, IsFiniteSet(S), NEW f, \A x \in S : f[x] \in Nat, NEW e \in S
  PROVE  /\ Sum(f, S) = f[e] + Sum(f, S \ {e})
         /\ Sum(f, S) \in Nat /\ Sum(f, S \ {e}) \in Nat
  <1> DEFINE it == CHOOSE it : SumRule(it, f, SUBSET S)
             jt == CHOOSE jt : SumRule(jt, f, SUBSET (S \ {e}))
  <1>1. SumRule(it, f, SUBSET S)
    BY SumRuleSolved
  <1>2. SumRule(jt, f, SUBSET (S \ {e}))
    <2>1. IsFiniteSet(S \ {e})
      BY FS_Subset
    <2> QED BY <2>1, SumRuleSolved
  <1>3. Sum(f, S) = it[S] /\ Sum(f, S \ {e}) = jt[S \ {e}]
    BY DEF Sum
  <1> HIDE DEF it, jt
  <1>4. it[S \ {e}] = jt[S \ {e}] /\ it[S \ {e}] \in Nat
    <2>1. PICK T \in SUBSET S : T = S \ {e}
      OBVIOUS
    <2>2. SumRule(jt, f, SUBSET T)
      BY <1>2, <2>1
    <2>3. \A s \in SUBSET T : it[s] = jt[s] /\ it[s] \in Nat
      BY <1>1, <2>2, SumRuleUnique
    <2> QED BY <2>1, <2>3
  <1>5. \A s \in SUBSET S : it[s] \in Nat
    BY <1>1, SumRuleUnique
  <1> DEFINE Wrong == {n \in Nat : \E s \in SUBSET S, x \in S : x \in s /\ Cardinality(s) = n
                                     /\ it[s] # f[x] + it[s \ {x}]}
             m == Min(Wrong)
  <1>6. \A s \in SUBSET S, x \in S : x \in s => it[s] = f[x] + it[s \ {x}]
    <2> SUFFICES ASSUME NEW s0 \in SUBSET S, NEW x0 \in S, x0 \in s0,
                        it[s0] # f[x0] + it[s0 \ {x0}]
                 PROVE  FALSE
      OBVIOUS
    <2>1. Cardinality(s0) \in Wrong
      BY FS_Subset, FS_CardinalityType
    <2>2. m \in Wrong /\ \A n \in Wrong : m <= n
      <3>1. Wrong \in SUBSET Nat
        OBVIOUS
      <3> HIDE DEF Wrong
      <3> QED BY <2>1, <3>1, MinOfNaturals
    <2> HIDE DEF m
    <2>3. PICK s \in SUBSET S, x \in S : x \in s /\ Cardinality(s) = m
                                     /\ it[s] # f[x] + it[s \ {x}]
      BY <2>2
    <2> DEFINE y == Picked(s)
    <2>4. /\ y \in s /\ s \ {y} \in SUBSET S /\ m \in Nat \ {0} /\ IsFiniteSet(s)
          /\ Cardinality(s \ {y}) = m - 1
      BY <2>3, PickedLeaves
    <2>5. it[s] = f[y] + it[s \ {y}]
      BY <1>1, <2>3 DEF SumRule
    <2> HIDE DEF y
    <2>6. y # x
      BY <2>3, <2>5
    <2>7. Cardinality(s \ {x}) = m - 1 /\ s \ {x} \in SUBSET S
      BY <2>3, <2>4, FS_RemoveElement
    <2>8. m - 1 \notin Wrong /\ m - 1 \in Nat
      <3> HIDE DEF Wrong
      <3> QED BY <2>2, <2>4
    <2>9. it[s \ {y}] = f[x] + it[(s \ {y}) \ {x}]
      BY <2>3, <2>4, <2>6, <2>8
    <2>10. it[s \ {x}] = f[y] + it[(s \ {x}) \ {y}]
      BY <2>3, <2>4, <2>6, <2>7, <2>8
    <2>11. (s \ {x}) \ {y} = (s \ {y}) \ {x} /\ (s \ {y}) \ {x} \in SUBSET S
      BY <2>3
    <2>12. f[x] \in Nat /\ f[y] \in Nat /\ it[(s \ {y}) \ {x}] \in Nat
      BY <1>5, <2>3, <2>4, <2>11
    <2>13. it[s] = f[y] + (f[x] + it[(s \ {y}) \ {x}])
      BY <2>5, <2>9
    <2>14. it[s \ {x}] = f[y] + it[(s \ {y}) \ {x}]
      BY <2>10, <2>11
    <2>15. it[s] = f[x] + it[s \ {x}]
      <3> DEFINE a == it[s]
                 b == it[s \ {x}]
                 c == it[(s \ {y}) \ {x}]
      <3>1. a = f[y] + (f[x] + c) /\ b = f[y] + c /\ c \in Nat
        BY <2>12, <2>13, <2>14
      <3> HIDE DEF a, b, c
      <3>2. a = f[x] + b
        BY <2>12, <3>1
      <3> QED BY <3>2 DEF a, b
    <2> QED BY <2>3, <2>15
  <1>7. it[S] = f[e] + it[S \ {e}]
    BY <1>6
  <1> QED BY <1>3, <1>4, <1>5, <1>7

\* A sum over nothing is 0.
LEMMA SumEmpty == ASSUME NEW f PROVE Sum(f, {}) = 0
  <1> DEFINE it == CHOOSE it : SumRule(it, f, SUBSET {})
  <1>1. SumRule(it, f, SUBSET {})
    BY SumRuleSolved, FS_EmptySet
  <1>2. Sum(f, {}) = it[{}]
    BY DEF Sum
  <1> HIDE DEF it
  <1> QED BY <1>1, <1>2 DEF SumRule

\* A sum over an interval grows by its last value.
LEMMA SumOfInterval ==
  ASSUME NEW a \in Int, NEW k \in Int, a <= k, NEW f, \A i \in a .. k : f[i] \in Nat
  PROVE  /\ Sum(f, a .. k) = Sum(f, a .. k - 1) + f[k]
         /\ Sum(f, a .. k) \in Nat /\ Sum(f, a .. k - 1) \in Nat
  <1>1. IsFiniteSet(a .. k) /\ k \in a .. k
    BY FS_Interval
  <1>2. (a .. k) \ {k} = a .. k - 1
    OBVIOUS
  <1>3. /\ Sum(f, a .. k) = f[k] + Sum(f, (a .. k) \ {k})
        /\ Sum(f, a .. k) \in Nat /\ Sum(f, (a .. k) \ {k}) \in Nat
    BY <1>1, SumSplits
  <1>4. f[k] \in Nat
    BY <1>1
  <1>5. /\ Sum(f, a .. k) = f[k] + Sum(f, a .. k - 1)
        /\ Sum(f, a .. k) \in Nat /\ Sum(f, a .. k - 1) \in Nat
    BY <1>2, <1>3, Zenon
  <1> QED BY <1>4, <1>5

(* ------------------------------- search ------------------------------- *)

\* The sizes met by the search, turn by turn, and the bytes before each turn.
sizes == [k \in Nat |-> entry[(out_offs + k) % N].size]
Before(k) == Sum(sizes, 0 .. k - 1)

\* What lies before the next entry is what lies before this one, and this one.
LEMMA BeforeNext ==
  ASSUME BufferTypeOK
  PROVE  /\ Before(0) = 0
         /\ \A k \in Nat : /\ (out_offs + k) % N \in Slot
                           /\ sizes[k] = entry[(out_offs + k) % N].size /\ sizes[k] \in Nat
                           /\ Before(k) \in Nat /\ Before(k + 1) = Before(k) + sizes[k]
  <1>1. Before(0) = 0
    <2>1. 0 .. 0 - 1 = {}
      OBVIOUS
    <2> QED BY <2>1, SumEmpty DEF Before
  <1>2. \A k \in Nat : (out_offs + k) % N \in Slot
    BY NAssumption, SMT DEF BufferTypeOK, Slot
  <1>3. \A k \in Nat : sizes[k] = entry[(out_offs + k) % N].size /\ sizes[k] \in Nat
    <2> TAKE k \in Nat
    <2>1. entry[(out_offs + k) % N] \in BufferEntry
      BY <1>2 DEF BufferTypeOK
    <2> QED BY <2>1 DEF sizes, BufferEntry
  <1>4. \A k \in Nat : Before(k) \in Nat /\ Before(k + 1) = Before(k) + sizes[k]
    <2> TAKE k \in Nat
    <2>1. \A i \in 0 .. k : sizes[i] \in Nat
      BY <1>3
    <2>2. /\ Sum(sizes, 0 .. k) = Sum(sizes, 0 .. k - 1) + sizes[k]
          /\ Sum(sizes, 0 .. k - 1) \in Nat
      BY <2>1, SumOfInterval
    <2>3. (k + 1) - 1 = k
      OBVIOUS
    <2> QED BY <2>2, <2>3 DEF Before
  <1> QED BY <1>1, <1>2, <1>3, <1>4

\* More turns are never fewer bytes.
LEMMA BeforeGrows ==
  ASSUME BufferTypeOK, NEW i \in Nat, NEW j \in Nat, i <= j
  PROVE  Before(i) <= Before(j)
  <1> DEFINE Wrong == {n \in Nat : i <= n /\ ~(Before(i) <= Before(n))}
             m == Min(Wrong)
  <1> SUFFICES ASSUME j \in Wrong PROVE FALSE
    OBVIOUS
  <1>1. m \in Wrong /\ \A n \in Wrong : m <= n
    <2>1. Wrong \in SUBSET Nat
      OBVIOUS
    <2> HIDE DEF Wrong
    <2> QED BY <2>1, MinOfNaturals
  <1> HIDE DEF m
  <1>2. m \in Nat /\ i <= m /\ ~(Before(i) <= Before(m)) /\ Before(i) \in Nat
    BY <1>1, BeforeNext
  <1>3. i # m
    BY <1>2
  <1>4. PICK n \in Nat : m = n + 1 /\ i <= n
    <2>1. m - 1 \in Nat /\ m = (m - 1) + 1 /\ i <= m - 1
      BY <1>2, <1>3
    <2> QED BY <2>1
  <1>5. n \notin Wrong
    BY <1>1, <1>4
  <1>6. Before(i) <= Before(n)
    BY <1>4, <1>5
  <1>7. Before(m) = Before(n) + sizes[n] /\ Before(n) \in Nat /\ sizes[n] \in Nat
    BY <1>4, BeforeNext
  <1> QED BY <1>2, <1>6, <1>7

\* The condition on which the loop ends, and one turn of it.
Stops(k) == ~((full /\ N - k > 0) \/ (out_offs + k) % N # in_offs)
Searched(s, k, rest) ==
  IF Stops(k) THEN NULL
  ELSE IF rest < entry[(out_offs + k) % N].size
       THEN [slot |-> (out_offs + k) % N, byte |-> rest]
       ELSE s[k + 1][rest - entry[(out_offs + k) % N].size]
SearchRule(s) == s = [k \in Nat |-> [rest \in Nat |-> Searched(s, k, rest)]]

\* What a solution says of one turn.
LEMMA SearchTurn ==
  ASSUME NEW s, SearchRule(s), NEW k \in Nat, NEW r \in Nat
  PROVE  s[k][r] = Searched(s, k, r)
  BY DEF SearchRule

\* The recursion of the search has a solution: what it finds from turn k on.
LEMMA SearchSolved ==
  ASSUME BufferTypeOK
  PROVE  \E s : SearchRule(s)
  <1> DEFINE Hits(k, r) == {j \in Nat : /\ k <= j /\ \A i \in k .. j : ~Stops(i)
                                        /\ r + Before(k) < Before(j + 1)}
             Hit(k, r) == Min(Hits(k, r))
             Result(k, r) == IF Hits(k, r) = {} THEN NULL
                             ELSE [slot |-> (out_offs + Hit(k, r)) % N,
                                   byte |-> (r + Before(k)) - Before(Hit(k, r))]
             s == [k \in Nat |-> [r \in Nat |-> Result(k, r)]]
  <1>1. \A k, r \in Nat : s[k][r] = Result(k, r)
    <2> HIDE DEF Result
    <2> QED OBVIOUS
  <1>2. ASSUME NEW k \in Nat, NEW r \in Nat PROVE Result(k, r) = Searched(s, k, r)
    <2>1. /\ Before(k) \in Nat /\ sizes[k] \in Nat /\ Before(k + 1) = Before(k) + sizes[k]
          /\ sizes[k] = entry[(out_offs + k) % N].size
      BY BeforeNext
    <2>2. CASE Stops(k)
      <3>1. \A j \in Nat : k <= j => k \in k .. j
        OBVIOUS
      <3>2. Hits(k, r) = {}
        BY <2>2, <3>1
      <3> HIDE DEF Hits
      <3> QED BY <2>2, <3>2 DEF Searched
    <2>3. CASE ~Stops(k) /\ r < sizes[k]
      <3>1. k \in Hits(k, r)
        <4>1. r + Before(k) < Before(k + 1)
          BY <2>1, <2>3
        <4>2. \A i \in k .. k : i = k
          OBVIOUS
        <4> QED BY <2>3, <4>1, <4>2
      <3>2. Hit(k, r) \in Hits(k, r) /\ \A j \in Hits(k, r) : Hit(k, r) <= j
        <4>1. Hits(k, r) \in SUBSET Nat
          OBVIOUS
        <4> HIDE DEF Hits
        <4> QED BY <3>1, <4>1, MinOfNaturals
      <3>3. Hit(k, r) \in Nat /\ k <= Hit(k, r)
        <4> HIDE DEF Hit
        <4> QED BY <3>2
      <3>4. Hit(k, r) = k
        <4> HIDE DEF Hit, Hits
        <4> QED BY <3>1, <3>2, <3>3
      <3>5. (r + Before(k)) - Before(k) = r
        BY <2>1
      <3> HIDE DEF Hit, Hits
      <3> QED BY <2>1, <2>3, <3>1, <3>4, <3>5 DEF Searched
    <2>4. CASE ~Stops(k) /\ ~(r < sizes[k])
      <3>1. PICK q \in Nat : q = r - sizes[k]
        BY <2>1, <2>4
      <3>2. q + Before(k + 1) = r + Before(k)
        BY <2>1, <3>1
      <3>3. ~(r + Before(k) < Before(k + 1))
        BY <2>1, <2>4
      <3>4. \A j \in Nat : k <= j /\ j # k => k + 1 <= j
        OBVIOUS
      <3>5. \A j \in Nat : k + 1 <= j =>
              /\ k <= j
              /\ (\A i \in k .. j : ~Stops(i)) <=> \A i \in k + 1 .. j : ~Stops(i)
        <4> TAKE j \in Nat
        <4> HAVE k + 1 <= j
        <4>1. \A i \in k .. j : i = k \/ i \in k + 1 .. j
          OBVIOUS
        <4>2. \A i \in k + 1 .. j : i \in k .. j
          OBVIOUS
        <4> QED BY <2>4, <4>1, <4>2
      <3>6. \A j \in Nat : j \in Hits(k, r) <=> j \in Hits(k + 1, q)
        <4> TAKE j \in Nat
        <4>1. j \in Hits(k, r) => j # k
          BY <3>3
        <4>2. CASE k + 1 <= j
          BY <4>2, <3>2, <3>5
        <4>3. CASE ~(k + 1 <= j)
          BY <4>1, <4>3, <3>4
        <4> QED BY <4>2, <4>3
      <3>7. Hits(k, r) = Hits(k + 1, q)
        <4>1. Hits(k, r) \subseteq Nat /\ Hits(k + 1, q) \subseteq Nat
          OBVIOUS
        <4> HIDE DEF Hits
        <4> QED BY <3>6, <4>1
      <3>8. Result(k, r) = Result(k + 1, q)
        <4> HIDE DEF Hits
        <4>1. Hit(k, r) = Hit(k + 1, q)
          BY <3>7
        <4> HIDE DEF Hit
        <4>2. (r + Before(k)) - Before(Hit(k, r)) 
                = (q + Before(k + 1)) - Before(Hit(k + 1, q))
          BY <3>2, <4>1, Zenon
        <4>3. CASE Hits(k, r) = {}
          BY <3>7, <4>3
        <4>4. CASE Hits(k, r) # {}
          BY <3>7, <4>1, <4>2, <4>4
        <4> QED BY <4>3, <4>4
      <3>9. s[k + 1][q] = Result(k + 1, q)
        <4> HIDE DEF Result, s
        <4> QED BY <1>1
      <3> HIDE DEF Result, s
      <3> QED BY <2>1, <2>4, <3>1, <3>8, <3>9 DEF Searched
    <2> QED BY <2>2, <2>3, <2>4
  <1>3. s = [k \in Nat |-> [r \in Nat |-> Result(k, r)]]
    OBVIOUS
  <1> HIDE DEF s, Result
  <1>4. SearchRule(s)
    BY <1>2, <1>3 DEF SearchRule
  <1> QED BY <1>4

\* The search is some solution of its recursion, started at the first turn.
LEMMA FindEntrySearches ==
  ASSUME BufferTypeOK, NEW c
  PROVE  \E s : SearchRule(s) /\ FindEntry(c) = s[0][c]
  <1>1. FindEntry(c) = (CHOOSE s : SearchRule(s))[0][c]
    BY DEF SearchRule, FindEntry, Searched, Stops
  <1> QED BY <1>1, SearchSolved

\* While the loop goes on and the byte lies further on, the search moves on.
LEMMA SearchWalks ==
  ASSUME BufferTypeOK, NEW s, SearchRule(s), NEW c \in Nat, NEW k \in Nat,
         \A i \in 0 .. k - 1 : ~Stops(i), Before(k) <= c
  PROVE  s[0][c] = s[k][c - Before(k)]
  <1> DEFINE Wrong == {n \in Nat : n <= k /\ s[0][c] # s[n][c - Before(n)]}
             m == Min(Wrong)
  <1> SUFFICES ASSUME k \in Wrong PROVE FALSE
    OBVIOUS
  <1>1. m \in Wrong /\ \A n \in Wrong : m <= n
    <2>1. Wrong \in SUBSET Nat
      OBVIOUS
    <2> HIDE DEF Wrong
    <2> QED BY <2>1, MinOfNaturals
  <1> HIDE DEF m
  <1>2. m \in Nat /\ m <= k /\ s[0][c] # s[m][c - Before(m)]
    BY <1>1
  <1>3. m # 0
    <2>1. c - Before(0) = c
      BY BeforeNext
    <2> QED BY <1>2, <2>1
  <1>4. PICK n \in Nat : m = n + 1 /\ n \in 0 .. k - 1
    <2>1. m - 1 \in Nat /\ m = (m - 1) + 1 /\ m - 1 \in 0 .. k - 1
      BY <1>2, <1>3
    <2> QED BY <2>1
  <1>5. n \notin Wrong
    BY <1>1, <1>4
  <1>6. s[0][c] = s[n][c - Before(n)]
    BY <1>4, <1>5
  <1>7. /\ Before(m) = Before(n) + sizes[n] /\ Before(n) \in Nat /\ sizes[n] \in Nat
        /\ sizes[n] = entry[(out_offs + n) % N].size
    BY <1>4, BeforeNext
  <1>8. Before(m) <= c
    <2>1. Before(m) <= Before(k) /\ Before(k) \in Nat
      BY <1>2, BeforeGrows, BeforeNext
    <2> QED BY <1>7, <2>1
  <1>9. PICK r \in Nat : r = c - Before(n)
    BY <1>7, <1>8
  <1>10. ~(r < sizes[n]) /\ r - sizes[n] = c - Before(m)
    BY <1>7, <1>8, <1>9
  <1>11. s[n][r] = Searched(s, n, r)
    BY SearchTurn
  <1>12. ~Stops(n)
    BY <1>4
  <1>13. s[n][r] = s[n + 1][r - sizes[n]]
    BY <1>7, <1>10, <1>11, <1>12 DEF Searched
  <1> QED BY <1>2, <1>4, <1>6, <1>9, <1>10, <1>13

\* The loop goes on over the stored commands and stops after the last one.
LEMMA StopsAfterStored ==
  ASSUME BufferTypeOK, RingInv
  PROVE  Count \in Nat /\ Stops(Count) /\ \A i \in 0 .. Count - 1 : ~Stops(i)
  <1>1. Count \in 0 .. N /\ (~full => Count = in_offs /\ Count < N) /\ N \in Nat \ {0}
    BY StoredIsSeq, NAssumption
  <1>2. CASE full
    <2>1. Count = N /\ in_offs = out_offs /\ out_offs \in Slot
      BY <1>2 DEF Count, RingInv, BufferTypeOK
    <2>2. (out_offs + N) % N = out_offs
      <3>1. (out_offs + N) % N = IF out_offs + N < N THEN out_offs + N ELSE out_offs + N - N
        <4>1. N \in 0 .. N
          BY <1>1
        <4> QED BY <2>1, <4>1, SlotAfter
      <3> QED BY <1>1, <2>1, <3>1 DEF Slot
    <2>3. ~(N - N > 0) /\ \A i \in 0 .. N - 1 : N - i > 0
      BY <1>1
    <2> QED BY <1>1, <1>2, <2>1, <2>2, <2>3 DEF Stops
  <1>3. CASE ~full
    <2>1. out_offs = 0 /\ Count = in_offs /\ in_offs < N /\ in_offs \in Nat
      BY <1>1, <1>3 DEF RingInv, BufferTypeOK, Slot
    <2>2. \A i \in 0 .. in_offs : (out_offs + i) % N = i
      <3> TAKE i \in 0 .. in_offs
      <3>1. 0 \in Slot /\ i \in 0 .. N /\ i < N
        BY <1>1, <2>1 DEF Slot
      <3>2. (0 + i) % N = IF 0 + i < N THEN 0 + i ELSE 0 + i - N
        BY <3>1, SlotAfter
      <3> QED BY <2>1, <3>1, <3>2
    <2>3. (out_offs + in_offs) % N = in_offs
      BY <2>1, <2>2
    <2>4. \A i \in 0 .. in_offs - 1 : (out_offs + i) % N # in_offs
      BY <2>1, <2>2
    <2> QED BY <1>3, <2>1, <2>3, <2>4 DEF Stops
  <1> QED BY <1>2, <1>3 DEF BufferTypeOK

\* The search finds a byte of the k-th stored command (from 0) where it lies.
LEMMA FindsByte ==
  ASSUME BufferTypeOK, RingInv, NEW c \in Nat, NEW k \in 0 .. Count - 1,
         Before(k) <= c, c < Before(k + 1)
  PROVE  FindEntry(c) = [slot |-> (out_offs + k) % N, byte |-> c - Before(k)]
  <1>1. PICK s : SearchRule(s) /\ FindEntry(c) = s[0][c]
    BY FindEntrySearches
  <1>2. k \in Nat /\ \A i \in 0 .. k : ~Stops(i)
    <2>1. Count \in Nat /\ \A i \in 0 .. Count - 1 : ~Stops(i)
      BY StopsAfterStored
    <2>2. \A i \in 0 .. k : i \in 0 .. Count - 1
      BY <2>1
    <2> QED BY <2>1, <2>2
  <1>3. \A i \in 0 .. k - 1 : ~Stops(i)
    BY <1>2
  <1>4. s[0][c] = s[k][c - Before(k)]
    BY <1>1, <1>2, <1>3, SearchWalks
  <1>5. /\ Before(k) \in Nat /\ Before(k + 1) = Before(k) + sizes[k] /\ sizes[k] \in Nat
        /\ sizes[k] = entry[(out_offs + k) % N].size
    BY <1>2, BeforeNext
  <1>6. PICK r \in Nat : r = c - Before(k)
    BY <1>5
  <1>7. r < sizes[k]
    BY <1>5, <1>6
  <1>8. s[k][r] = Searched(s, k, r)
    BY <1>1, <1>2, SearchTurn
  <1>9. ~Stops(k)
    BY <1>2
  <1> QED BY <1>1, <1>4, <1>5, <1>6, <1>7, <1>8, <1>9 DEF Searched

\* Past the last byte of the stored commands the search finds nothing.
LEMMA FindsNoByte ==
  ASSUME BufferTypeOK, RingInv, NEW c \in Nat, Before(Count) <= c
  PROVE  FindEntry(c) = NULL
  <1>1. PICK s : SearchRule(s) /\ FindEntry(c) = s[0][c]
    BY FindEntrySearches
  <1>2. Count \in Nat /\ Stops(Count) /\ \A i \in 0 .. Count - 1 : ~Stops(i)
    BY StopsAfterStored
  <1>3. s[0][c] = s[Count][c - Before(Count)]
    BY <1>1, <1>2, SearchWalks
  <1>4. PICK r \in Nat : r = c - Before(Count)
    <2>1. Before(Count) \in Nat
      BY <1>2, BeforeNext
    <2> QED BY <2>1
  <1>5. s[Count][r] = Searched(s, Count, r)
    BY <1>1, <1>2, SearchTurn
  <1> QED BY <1>1, <1>2, <1>3, <1>4, <1>5 DEF Searched

\* Every byte before the last lies in one of the stored commands.
LEMMA ByteLiesInCommand ==
  ASSUME BufferTypeOK, NEW n \in Nat, NEW c \in Nat, c < Before(n)
  PROVE  \E k \in 0 .. n - 1 : Before(k) <= c /\ c < Before(k + 1)
  <1> DEFINE Past == {k \in Nat : c < Before(k)}
             m == Min(Past)
  <1>1. m \in Past /\ \A k \in Past : m <= k
    <2>1. Past \in SUBSET Nat /\ n \in Past
      OBVIOUS
    <2> HIDE DEF Past
    <2> QED BY <2>1, MinOfNaturals
  <1> HIDE DEF m
  <1>2. m \in Nat /\ c < Before(m) /\ m <= n
    BY <1>1
  <1>3. m # 0
    BY <1>2, BeforeNext
  <1>4. PICK k \in Nat : m = k + 1 /\ k \in 0 .. n - 1
    <2>1. m - 1 \in Nat /\ m = (m - 1) + 1 /\ m - 1 \in 0 .. n - 1
      BY <1>2, <1>3
    <2> QED BY <2>1
  <1>5. k \notin Past
    BY <1>1, <1>4
  <1>6. Before(k) <= c
    BY <1>5, BeforeNext
  <1> QED BY <1>2, <1>4, <1>6

\* The sum over the first commands that the property uses is the bytes that
\* the search has passed.
LEMMA StartIsBefore ==
  ASSUME BufferTypeOK, RingInv, NEW k \in 0 .. Count
  PROVE  Start(k + 1) = Before(k)
  <1> DEFINE lengths == [j \in 1 .. Count |-> Stored[j].size]
             Wrong == {n \in Nat : n <= Count /\ Sum(lengths, 1 .. n) # Before(n)}
             m == Min(Wrong)
  <1>0. Count \in Nat
    BY StopsAfterStored
  <1>1. \A n \in 0 .. Count : Start(n + 1) = Sum(lengths, 1 .. n)
    <2> TAKE n \in 0 .. Count
    <2>1. 1 .. (n + 1) - 1 = 1 .. n /\ 1 .. n \in SUBSET (1 .. Count)
      BY <1>0
    <2>2. \A s \in SUBSET (1 .. n) : s # {} =>
            lengths[Picked(s)] = Stored[CHOOSE x \in s : TRUE].size
      <3> SUFFICES ASSUME NEW s \in SUBSET (1 .. n), s # {}
                   PROVE  lengths[Picked(s)] = Stored[CHOOSE x \in s : TRUE].size
        OBVIOUS
      <3>1. Picked(s) \in s
        BY DEF Picked
      <3>2. Picked(s) \in 1 .. Count
        BY <2>1, <3>1
      <3> QED BY <3>2 DEF Picked
    <2> DEFINE Rule(it) ==
                 it = [s \in SUBSET (1 .. n) |->
                         IF s = {} THEN 0
                         ELSE Stored[CHOOSE x \in s : TRUE].size
                                + it[s \ {CHOOSE x \in s : TRUE}]]
    <2>3. Start(n + 1) = (CHOOSE it : Rule(it))[1 .. n]
      BY <2>1 DEF Start, MapThenSumSet, MapThenFoldSet
    <2>4. \A it : Rule(it) <=> SumRule(it, lengths, SUBSET (1 .. n))
      <3> HIDE DEF lengths
      <3> QED BY <2>2 DEF SumRule, Picked
    <2>5. (CHOOSE it : Rule(it)) = CHOOSE it : SumRule(it, lengths, SUBSET (1 .. n))
      <3> HIDE DEF Rule, lengths
      <3> QED BY <2>4
    <2> HIDE DEF Rule, lengths
    <2> QED BY <2>3, <2>5 DEF Sum
  <1>2. \A j \in 1 .. Count : lengths[j] = sizes[j - 1] /\ lengths[j] \in Nat
    <2> TAKE j \in 1 .. Count
    <2>1. Stored[j] = entry[(out_offs + j - 1) % N]
      BY StoredIsSeq
    <2>2. PICK i \in Nat : i = j - 1 /\ out_offs + j - 1 = out_offs + i
      <3>1. j - 1 \in Nat /\ out_offs + j - 1 = out_offs + (j - 1)
        BY <1>0
      <3> QED BY <3>1
    <2>3. sizes[i] = entry[(out_offs + i) % N].size /\ sizes[i] \in Nat
      BY BeforeNext
    <2> QED BY <2>1, <2>2, <2>3
  <1> HIDE DEF lengths
  <1>3. Sum(lengths, 1 .. k) = Before(k)
    <2> SUFFICES ASSUME k \in Wrong PROVE FALSE
      BY <1>0
    <2>1. m \in Wrong /\ \A n \in Wrong : m <= n
      <3>1. Wrong \in SUBSET Nat
        OBVIOUS
      <3> HIDE DEF Wrong
      <3> QED BY <3>1, MinOfNaturals
    <2> HIDE DEF m
    <2>2. m \in Nat /\ m <= Count /\ Sum(lengths, 1 .. m) # Before(m)
      BY <2>1
    <2>3. m # 0
      <3>1. 1 .. 0 = {}
        OBVIOUS
      <3> QED BY <2>2, <3>1, SumEmpty, BeforeNext
    <2>4. PICK n \in Nat : m = n + 1 /\ n = m - 1 /\ n <= Count
      <3>1. m - 1 \in Nat /\ m = (m - 1) + 1 /\ m - 1 <= Count
        BY <1>0, <2>2, <2>3
      <3> QED BY <3>1
    <2>5. n \notin Wrong
      BY <2>1, <2>4
    <2>6. Sum(lengths, 1 .. n) = Before(n)
      BY <2>4, <2>5
    <2>7. \A i \in 1 .. m : lengths[i] \in Nat
      BY <1>0, <1>2, <2>2
    <2>8. Sum(lengths, 1 .. m) = Sum(lengths, 1 .. m - 1) + lengths[m]
      <3>1. 1 <= m /\ m \in Int
        BY <2>2, <2>3
      <3> QED BY <2>7, <3>1, SumOfInterval
    <2>9. lengths[m] = sizes[n]
      <3>1. m \in 1 .. Count
        BY <1>0, <2>2, <2>3
      <3> QED BY <1>2, <2>4, <3>1
    <2>10. Before(m) = Before(n) + sizes[n]
      BY <2>4, BeforeNext
    <2> QED BY <2>2, <2>4, <2>6, <2>8, <2>9, <2>10
  <1> QED BY <1>1, <1>3

\* aesd_circular_buffer_find_entry_offset_for_fpos finds exactly the bytes of
\* the stored commands laid end to end, in every state the ring can be in.
THEOREM BufferFindsEveryByte == ClientSpec => []FindIsConcatenation
  <1>1. BufferInv => FindIsConcatenation
    <2> SUFFICES ASSUME BufferInv,
                        NEW c \in 0 .. Start(Count + 1) + 1
                 PROVE  IF c < Start(Count + 1)
                        THEN \E k \in 1 .. Count :
                               /\ Start(k) <= c /\ c < Start(k + 1)
                               /\ FindEntry(c) = [slot |-> (out_offs + k - 1) % N,
                                                  byte |-> c - Start(k)]
                        ELSE FindEntry(c) = NULL
      BY DEF FindIsConcatenation
    <2>1. BufferTypeOK /\ RingInv
      BY DEF BufferInv, ClientTypeOK, RingConsistent
    <2>2. /\ Count \in Nat /\ Start(Count + 1) = Before(Count) /\ Before(Count) \in Nat
          /\ c \in Nat
      <3>1. Count \in Nat
        BY <2>1, StopsAfterStored
      <3>2. Start(Count + 1) = Before(Count) /\ Before(Count) \in Nat
        BY <2>1, <3>1, StartIsBefore, BeforeNext
      <3> QED BY <3>1, <3>2
    <2>3. CASE c < Start(Count + 1)
      <3>1. PICK i \in 0 .. Count - 1 : Before(i) <= c /\ c < Before(i + 1)
        BY <2>1, <2>2, <2>3, ByteLiesInCommand
      <3>2. FindEntry(c) = [slot |-> (out_offs + i) % N, byte |-> c - Before(i)]
        BY <2>1, <2>2, <3>1, FindsByte
      <3>3. PICK k \in 1 .. Count : k = i + 1
        BY <2>2
      <3>4. Start(k) = Before(i) /\ Start(k + 1) = Before(i + 1)
        <4>1. i \in 0 .. Count /\ i + 1 \in 0 .. Count
          BY <2>2
        <4>2. Start(i + 1) = Before(i) /\ Start((i + 1) + 1) = Before(i + 1)
          BY <2>1, <4>1, StartIsBefore
        <4> QED BY <3>3, <4>2
      <3>5. out_offs + k - 1 = out_offs + i
        BY <2>1, <2>2, <3>3 DEF BufferTypeOK, Slot
      <3> QED BY <2>3, <3>1, <3>2, <3>4, <3>5
    <2>4. CASE ~(c < Start(Count + 1))
      <3>1. Before(Count) <= c
        BY <2>2, <2>4
      <3>2. FindEntry(c) = NULL
        BY <2>1, <2>2, <3>1, FindsNoByte
      <3> QED BY <2>4, <3>2
    <2> QED BY <2>3, <2>4
  <1> QED BY <1>1, BufferInvariant, PTL
=============================================================================
