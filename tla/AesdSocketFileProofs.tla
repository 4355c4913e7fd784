----------------------- MODULE AesdSocketFileProofs -------------------------
(***************************************************************************)
(* What the server built for a regular file guarantees for any clients,    *)
(* any number of time stamps and any number of restarts.                   *)
(***************************************************************************)
EXTENDS AesdSocketFile, SequenceTheorems, TLAPS

FileLine == Thread \X Nat
Labels == {"read", "lock", "scan", "lseek", "reply", "failed", "done", "tick", "write", "unlock"}
Locked == {"scan", "lseek", "reply", "failed", "write", "unlock"}

Types ==
  /\ file \in Seq(FileLine)
  /\ fpos \in 0 .. Len(file)
  /\ file_lock \in Thread \cup {Nobody}
  /\ pc \in [Thread -> Labels]
  /\ \A c \in Conn : pc[c] \notin {"tick", "write", "unlock"}
  /\ pc["timer"] \in {"tick", "write", "unlock"}
  /\ received \in [Conn -> Nat]
  /\ in_buffer \in [Conn -> Seq(Nat)]
  /\ answer \in [Conn -> Seq(FileLine)]
  /\ pc["timer"] = "write" => ticks < MaxTicks
  /\ ticks \in 0 .. MaxTicks /\ starts \in Nat /\ atEnd \in BOOLEAN

\* file_lock belongs to the thread between its lock and its unlock.
Exclusive == \A t \in Thread : file_lock = t <=> pc[t] \in Locked

\* Once the file has been read to its end the position is there, unless a thread
\* is reading the answer or has given up in the middle of it, with the lock:
\* nothing else moves it away from the end.
PositionAtEnd ==
  atEnd /\ (\A c \in Conn : pc[c] \notin {"reply", "failed"}) => fpos = Len(file)

\* The exchange under way: the line it stored is in the file, at its end once the
\* position has come there, and the answer is the file up to the position.
Exchange ==
  \A c \in Conn :
    /\ pc[c] \in {"lseek", "reply"} => in_buffer[c] # << >>
    /\ pc[c] = "lseek" => Request(c) = "text"
    /\ pc[c] \in {"lseek", "reply"} /\ Request(c) = "text" =>
         IF atEnd THEN file # << >> /\ Last(file) = <<c, Head(in_buffer[c])>>
         ELSE Contains(file, <<c, Head(in_buffer[c])>>)
    /\ pc[c] = "reply" =>
         IF Request(c) = "text" THEN answer[c] = SubSeq(file, 1, fpos)
         ELSE atEnd => answer[c] = << >> /\ fpos = Len(file)

Inv == Types /\ Exclusive /\ PositionAtEnd /\ Exchange

-----------------------------------------------------------------------------
\* A write replaces the line at the position, or adds one, and no other.
LEMMA WrittenFile ==
  ASSUME NEW line \in FileLine, Types
  PROVE  /\ Written(line) \in Seq(FileLine)
         /\ Len(Written(line)) = IF fpos < Len(file) THEN Len(file) ELSE Len(file) + 1
         /\ \A i \in 1 .. Len(Written(line)) :
              Written(line)[i] = IF i = fpos + 1 THEN line ELSE file[i]
<1> DEFINE before == SubSeq(file, 1, fpos)
           after == SubSeq(file, fpos + 2, Len(file))
<1>1. /\ before \in Seq(FileLine) /\ Len(before) = fpos
      /\ \A i \in 1 .. fpos : before[i] = file[i]
  BY DEF Types
<1>2. /\ after \in Seq(FileLine)
      /\ Len(after) = IF fpos < Len(file) THEN Len(file) - fpos - 1 ELSE 0
      /\ \A i \in 1 .. Len(after) : after[i] = file[i + fpos + 1]
  BY DEF Types
<1>3. /\ before \o <<line>> \in Seq(FileLine) /\ Len(before \o <<line>>) = fpos + 1
      /\ \A i \in 1 .. fpos + 1 :
           (before \o <<line>>)[i] = IF i = fpos + 1 THEN line ELSE file[i]
  BY <1>1 DEF Types
<1> DEFINE head == before \o <<line>>
<1> HIDE DEF before, after, head
<1>4. /\ head \in Seq(FileLine) /\ Len(head) = fpos + 1
      /\ \A i \in 1 .. fpos + 1 : head[i] = IF i = fpos + 1 THEN line ELSE file[i]
  BY <1>3 DEF head
<1> DEFINE whole == head \o after
<1>5. /\ whole \in Seq(FileLine)
      /\ Len(whole) = Len(head) + Len(after)
      /\ \A i \in 1 .. Len(head) + Len(after) :
           whole[i] = IF i <= Len(head) THEN head[i] ELSE after[i - Len(head)]
  BY <1>2, <1>4, ConcatProperties
<1> DEFINE n == Len(after)
           size == Len(file)
<1>6. n \in Nat /\ fpos \in Nat /\ size \in Nat /\ fpos <= size
  BY <1>2 DEF Types
<1>7. Len(whole) = fpos + 1 + n /\ n = IF fpos < size THEN size - fpos - 1 ELSE 0
  BY <1>2, <1>4, <1>5
<1> HIDE DEF whole, n, size
<1>8. Len(whole) = IF fpos < size THEN size ELSE size + 1
  BY <1>6, <1>7
<1>9. ASSUME NEW i \in 1 .. Len(whole)
      PROVE  whole[i] = IF i = fpos + 1 THEN line ELSE file[i]
  <2>1. i \in Nat /\ 1 <= i /\ i <= fpos + 1 + n
    BY <1>6, <1>7
  <2>2. CASE i <= fpos + 1
    BY <2>1, <2>2, <1>4, <1>5, <1>6 DEF n
  <2>3. CASE i > fpos + 1
    <3>1. whole[i] = after[i - (fpos + 1)]
      BY <2>1, <2>3, <1>4, <1>5, <1>6 DEF n
    <3>2. i - (fpos + 1) \in 1 .. n /\ i - (fpos + 1) + fpos + 1 = i
      BY <2>1, <2>3, <1>6
    <3>3. after[i - (fpos + 1)] = file[i - (fpos + 1) + fpos + 1]
      BY <3>2, <1>2 DEF n
    <3>4. QED
      BY <3>1, <3>2, <3>3, <2>1, <2>3, <1>6
  <2>4. QED
    BY <2>1, <2>2, <2>3, <1>6
<1>10. Written(line) = whole
  BY DEF Written, whole, head, before, after
<1>11. QED
  BY <1>5, <1>8, <1>9, <1>10 DEF size

\* A write where the position is at the end of the file only adds the line.
LEMMA WrittenAtEnd ==
  ASSUME NEW line \in FileLine, Types, fpos = Len(file)
  PROVE  /\ Len(Written(line)) = Len(file) + 1
         /\ Written(line)[Len(file) + 1] = line
         /\ IsPrefix(file, Written(line))
<1>1. /\ Written(line) \in Seq(FileLine)
      /\ Len(Written(line)) = Len(file) + 1
      /\ \A i \in 1 .. Len(file) + 1 :
           Written(line)[i] = IF i = Len(file) + 1 THEN line ELSE file[i]
  <2>1. Len(file) \in Nat
    BY DEF Types
  <2>2. QED
    BY <2>1, WrittenFile
<1> DEFINE w == Written(line)
<1> HIDE DEF w
<1>2. file \in Seq(FileLine) /\ w \in Seq(FileLine) /\ Len(w) = Len(file) + 1
  BY <1>1 DEF Types, w
<1>3. \A i \in 1 .. Len(file) : file[i] = w[i]
  BY <1>1, <1>2 DEF w
<1>4. SubSeq(file, 1, Len(file)) = SubSeq(w, 1, Len(file))
  BY <1>2, <1>3
<1>5. IsPrefix(file, w)
  BY <1>2, <1>4 DEF IsPrefix
<1>6. QED
  BY <1>1, <1>2, <1>5 DEF w

-----------------------------------------------------------------------------
\* A step of a client's thread preserves the invariant.
LEMMA ThreadKeepsInv == ASSUME Inv, NEW c \in Conn, ThreadStep(c) PROVE Inv'
<1> USE FileAssumption DEF Inv, Thread, Nobody, Goto, process
<1>0. c \in Thread /\ c # "timer" /\ c # "nobody"
  OBVIOUS
<1>1. CASE ReadSocket(c)
  <2>1. received' \in [Conn -> Nat] /\ in_buffer' \in [Conn -> Seq(Nat)]
    <3>1. CASE UNCHANGED <<received, in_buffer>>
      BY <3>1 DEF Types
    <3>2. CASE ~UNCHANGED <<received, in_buffer>>
      <4>1. PICK n \in received[c] + 1 .. Len(Requests[c]) :
              /\ in_buffer' = [in_buffer EXCEPT ![c] = [k \in 1 .. n - received[c] |->
                                                          received[c] + k]]
              /\ received' = [received EXCEPT ![c] = n]
        BY <1>1, <3>2 DEF ReadSocket
      <4>2. received[c] \in Nat /\ n \in Nat /\ n - received[c] \in Nat
        BY <4>1 DEF Types
      <4>3. [k \in 1 .. n - received[c] |-> received[c] + k] \in Seq(Nat)
        BY <4>2, SMTT(30)
      <4>4. QED
        BY <4>1, <4>2, <4>3 DEF Types
    <3>3. QED
      BY <3>1, <3>2
  <2>2. Types'
    BY <1>0, <1>1, <2>1 DEF ReadSocket, Types, Labels
  <2>3. Exclusive' /\ PositionAtEnd'
    BY <1>0, <1>1 DEF ReadSocket, Types, Exclusive, PositionAtEnd, Locked
  <2>4. Exchange'
    BY <1>0, <1>1, ZenonT(30) DEF ReadSocket, Types, Exchange, Request
  <2>5. QED
    BY <2>2, <2>3, <2>4
<1>2. CASE LockFile(c)
  <2>1. Types'
    BY <1>0, <1>2 DEF LockFile, Types, Labels
  <2>2. Exclusive' /\ PositionAtEnd'
    BY <1>0, <1>2 DEF LockFile, Types, Exclusive, PositionAtEnd, Locked
  <2>3. Exchange'
    BY <1>0, <1>2 DEF LockFile, Types, Exchange, Request
  <2>4. QED
    BY <2>1, <2>2, <2>3
<1>3. CASE UnlockFile(c)
  <2>1. Types'
    BY <1>0, <1>3 DEF UnlockFile, Types, Labels
  <2>2. Exclusive' /\ PositionAtEnd'
    BY <1>0, <1>3 DEF UnlockFile, Types, Exclusive, PositionAtEnd, Locked
  <2>3. Exchange'
    BY <1>0, <1>3 DEF UnlockFile, Types, Exchange, Request
  <2>4. QED
    BY <2>1, <2>2, <2>3
<1>4. CASE StoreLine(c)
  <2> DEFINE line == <<c, Head(in_buffer[c])>>
  <2>1. line \in FileLine
    BY <1>4 DEF StoreLine, Types, FileLine
  <2>2. /\ file' \in Seq(FileLine)
        /\ Len(file') = IF fpos < Len(file) THEN Len(file) ELSE Len(file) + 1
        /\ file'[fpos + 1] = line /\ fpos + 1 \in 1 .. Len(file')
    <3>1. fpos \in Nat /\ Len(file) \in Nat /\ fpos <= Len(file)
      BY DEF Types
    <3>2. file' = Written(line)
      BY <1>4 DEF StoreLine
    <3>3. /\ file' \in Seq(FileLine)
          /\ Len(file') = IF fpos < Len(file) THEN Len(file) ELSE Len(file) + 1
          /\ \A i \in 1 .. Len(file') :
               file'[i] = IF i = fpos + 1 THEN line ELSE file[i]
      BY <2>1, <3>2, WrittenFile
    <3>4. fpos + 1 \in 1 .. Len(file')
      BY <3>1, <3>3
    <3>5. QED
      BY <3>3, <3>4
  <2>3. \A d \in Conn : d # c => pc[d] \notin Locked
    BY <1>4 DEF StoreLine, Exclusive, Types, Locked
  <2>4. fpos' = fpos + 1 /\ pc' = [pc EXCEPT ![c] = "lseek"]
    BY <1>4 DEF StoreLine
  <2>5. Types'
    BY <1>0, <1>4, <2>2, SMTT(30) DEF StoreLine, Types, Labels
  <2>6. Exclusive'
    BY <1>0, <1>4 DEF StoreLine, Types, Exclusive, Locked
  <2>7. atEnd => fpos = Len(file)
    BY <2>3, <1>4 DEF StoreLine, PositionAtEnd, Locked
  <2>8. PositionAtEnd'
    BY <2>2, <2>4, <2>7, <1>4 DEF StoreLine, PositionAtEnd, Types
  <2>9. Contains(file', line) /\ file' # << >>
    BY <2>2 DEF Contains
  <2>10. atEnd => Last(file') = line
    BY <2>2, <2>7 DEF Last, Types
  <2>11. Exchange'
    BY <1>0, <1>4, <2>3, <2>9, <2>10 DEF StoreLine, Types, Exchange, Request, Locked
  <2>12. QED
    BY <2>5, <2>6, <2>8, <2>11
<1>5. CASE Lseek(c)
  <2>1. \A d \in Conn : d # c => pc[d] \notin Locked
    BY <1>5 DEF Lseek, Exclusive, Types, Locked
  <2>2. Types'
    BY <1>0, <1>5 DEF Lseek, AnswerStart, Types, Labels
  <2>3. Exclusive' /\ PositionAtEnd'
    BY <1>0, <1>5 DEF Lseek, Types, Exclusive, PositionAtEnd, Locked
  <2>4. SubSeq(file, 1, 0) = << >>
    BY DEF Types
  <2>5. Exchange'
    BY <1>0, <1>5, <2>1, <2>4 DEF Lseek, AnswerStart, Types, Exchange, Request, Locked
  <2>6. QED
    BY <2>2, <2>3, <2>5
<1>6. CASE SeekLine(c)
  <2>1. \A d \in Conn : d # c => pc[d] \notin Locked
    BY <1>6 DEF SeekLine, Exclusive, Types, Locked
  <2>2. Types'
    <3>1. CASE Request(c) = "seek"
      BY <1>0, <1>6, <3>1 DEF SeekLine, LockAfterRefusal, Types, Labels
    <3>2. CASE Request(c) = "malformed_seek"
      <4>1. << >> \in Seq(FileLine)
        OBVIOUS
      <4>2. answer' = [answer EXCEPT ![c] = << >>] /\ file_lock' = file_lock
            /\ pc' = [pc EXCEPT ![c] = "reply"]
        BY <1>6, <3>2 DEF SeekLine
      <4>3. QED
        BY <1>0, <1>6, <4>1, <4>2 DEF SeekLine, Types, Labels
    <3>3. QED
      BY <1>6, <3>1, <3>2 DEF SeekLine
  <2>3. Exclusive' /\ PositionAtEnd'
    BY <1>0, <1>6 DEF SeekLine, LockAfterRefusal, Types, Exclusive, PositionAtEnd, Locked
  <2>4. atEnd => fpos = Len(file)
    BY <2>1, <1>6 DEF SeekLine, PositionAtEnd, Locked
  <2>5. Exchange'
    BY <1>0, <1>6, <2>1, <2>4 DEF SeekLine, Types, Exchange, Request, Locked
  <2>6. QED
    BY <2>2, <2>3, <2>5
<1>7. CASE Reply(c)
  <2> DEFINE end == ReadEnd
  <2>1. \A d \in Conn : d # c => pc[d] \notin Locked
    BY <1>7 DEF Reply, Exclusive, Types, Locked
  <2>2. /\ fpos \in Nat /\ end \in fpos + 1 .. Len(file) /\ fpos' = end
        /\ file' = file /\ pc' = pc /\ pc[c] = "reply" /\ atEnd' = atEnd
    BY <1>7 DEF Reply, MoreToRead, ReadEnd, Types
  <2>3. SubSeq(file, fpos + 1, end) \in Seq(FileLine)
    BY <2>2 DEF Types
  <2>4. answer' = [answer EXCEPT ![c] = answer[c] \o SubSeq(file, fpos + 1, end)]
    BY <1>7 DEF Reply
  <2> HIDE DEF end
  <2>5. Types'
    BY <1>0, <1>7, <2>2, <2>3, <2>4 DEF Reply, Types
  <2>6. Exclusive' /\ PositionAtEnd'
    BY <1>7, <2>2 DEF Reply, Types, Exclusive, PositionAtEnd
  <2>7. answer[c] = SubSeq(file, 1, fpos) =>
          answer[c] \o SubSeq(file, fpos + 1, end) = SubSeq(file, 1, end)
    <3>1. file \in Seq(FileLine) /\ 1 \in 1 .. Len(file) + 1 /\ fpos \in 0 .. Len(file)
      BY DEF Types
    <3>2. end \in fpos .. Len(file) /\ 1 - 1 = 0
      BY <2>2, <3>1
    <3>3. SubSeq(file, 1, fpos) \o SubSeq(file, fpos + 1, end) = SubSeq(file, 1, end)
      BY <3>1, <3>2, ConcatAdjacentSubSeq
    <3>4. QED
      BY <3>3
  <2>8. Request(c) # "text" => ~atEnd
    <3>1. fpos < Len(file) /\ pc[c] = "reply" /\ fpos \in Nat /\ Len(file) \in Nat
      BY <1>7 DEF Reply, MoreToRead, Types
    <3>2. fpos # Len(file)
      BY <3>1
    <3>3. QED
      BY <3>1, <3>2 DEF Exchange
  <2>9. Exchange'
    <3>1. in_buffer' = in_buffer /\ \A d \in Conn : Request(d)' = Request(d)
      BY <1>7 DEF Reply, Request
    <3>2. answer'[c] = answer[c] \o SubSeq(file, fpos + 1, end)
      BY <2>4 DEF Types
    <3>3. Request(c) = "text" => answer'[c] = SubSeq(file', 1, fpos')
      BY <2>2, <2>7, <3>2 DEF Exchange
    <3>4. QED
      BY <2>1, <2>2, <2>8, <3>1, <3>3 DEF Exchange, Locked
  <2>10. QED
    BY <2>5, <2>6, <2>9
<1>8. CASE ReplyDone(c)
  <2>1. \A d \in Conn : d # c => pc[d] \notin Locked
    BY <1>8 DEF ReplyDone, Exclusive, Types, Locked
  <2>2. Types'
    <3>1. in_buffer[c] \in Seq(Nat) /\ in_buffer[c] # << >>
      BY <1>8 DEF ReplyDone, Types, Exchange
    <3>2. Tail(in_buffer[c]) \in Seq(Nat)
      BY <3>1
    <3>3. QED
      BY <1>0, <1>8, <3>2 DEF ReplyDone, Types, Labels
  <2>3. Exclusive'
    BY <1>0, <1>8 DEF ReplyDone, Types, Exclusive, Locked
  <2>4. PositionAtEnd'
    BY <1>8 DEF ReplyDone, MoreToRead, Types, PositionAtEnd
  <2>5. Exchange'
    BY <1>0, <1>8, <2>1 DEF ReplyDone, Types, Exchange, Request, Locked
  <2>6. QED
    BY <2>2, <2>3, <2>4, <2>5
<1>9. CASE SendFails(c)
  <2>1. \A d \in Conn : d # c => pc[d] \notin Locked
    BY <1>9 DEF SendFails, Exclusive, Types, Locked
  <2>2. fpos' \in 0 .. Len(file)
    BY <1>9 DEF SendFails, MoreToRead, ReadEnd, Types
  <2>3. Types'
    BY <1>0, <1>9, <2>2 DEF SendFails, Types, Labels
  <2>4. Exclusive'
    BY <1>0, <1>9 DEF SendFails, Types, Exclusive, Locked
  <2>5. PositionAtEnd'
    BY <1>9 DEF SendFails, Types, PositionAtEnd
  <2>6. Exchange'
    BY <1>0, <1>9, <2>1 DEF SendFails, Types, Exchange, Request, Locked
  <2>7. QED
    BY <2>3, <2>4, <2>5, <2>6
<1>10. QED
  BY <1>1, <1>2, <1>3, <1>4, <1>5, <1>6, <1>7, <1>8, <1>9 DEF ThreadStep

\* A step of the timer preserves the invariant.
LEMMA TimerKeepsInv == ASSUME Inv, TimerStep PROVE Inv'
<1> USE FileAssumption DEF Inv, Thread, Nobody, Goto, process
<1>0. "timer" \in Thread /\ "timer" \notin Conn /\ "timer" # "nobody"
  OBVIOUS
<1>1. CASE TimerLock
  <2>1. Types'
    BY <1>0, <1>1 DEF TimerLock, Types, Labels
  <2>2. Exclusive' /\ PositionAtEnd'
    BY <1>0, <1>1 DEF TimerLock, Types, Exclusive, PositionAtEnd, Locked
  <2>3. Exchange'
    BY <1>0, <1>1 DEF TimerLock, Types, Exchange, Request
  <2>4. QED
    BY <2>1, <2>2, <2>3
<1>2. CASE TimerWrite
  <2> DEFINE line == <<"timer", ticks + 1>>
  <2>1. \A d \in Conn : pc[d] \notin Locked /\ pc'[d] = pc[d]
    BY <1>0, <1>2 DEF TimerWrite, Exclusive, Types, Locked
  <2>2. line \in FileLine /\ ticks \in Nat
    BY DEF Types, FileLine
  <2>3. ticks + 1 \in 0 .. MaxTicks
    BY <1>2 DEF TimerWrite, Types
  <2>4. /\ file' \in Seq(FileLine)
        /\ Len(file') = IF fpos < Len(file) THEN Len(file) ELSE Len(file) + 1
    BY <2>2, <1>2, WrittenFile DEF TimerWrite
  <2>5. fpos \in Nat /\ Len(file) \in Nat /\ fpos <= Len(file)
    BY DEF Types
  <2>6. fpos' \in 0 .. Len(file') /\ (fpos = Len(file) => fpos' = Len(file'))
    BY <2>4, <2>5, <1>2 DEF TimerWrite
  <2>7. Types'
    BY <1>0, <1>2, <2>3, <2>4, <2>6 DEF TimerWrite, Types, Labels
  <2>8. Exclusive'
    BY <1>0, <1>2 DEF TimerWrite, Types, Exclusive, Locked
  <2>9. PositionAtEnd'
    BY <1>2, <2>1, <2>6 DEF TimerWrite, PositionAtEnd, Locked
  <2>10. Exchange'
    BY <1>2, <2>1 DEF TimerWrite, Exchange, Locked
  <2>11. QED
    BY <2>7, <2>8, <2>9, <2>10
<1>3. CASE TimerUnlock
  <2>1. Types'
    BY <1>0, <1>3 DEF TimerUnlock, Types, Labels
  <2>2. Exclusive' /\ PositionAtEnd'
    BY <1>0, <1>3 DEF TimerUnlock, Types, Exclusive, PositionAtEnd, Locked
  <2>3. Exchange'
    BY <1>0, <1>3 DEF TimerUnlock, Types, Exchange, Request
  <2>4. QED
    BY <2>1, <2>2, <2>3
<1>4. QED
  BY <1>1, <1>2, <1>3 DEF TimerStep

\* A process that is started finds the invariant true, whatever file it finds.
LEMMA RestartKeepsInv == ASSUME Inv, Restart PROVE Inv'
<1> USE FileAssumption DEF Inv, Thread, Nobody, Restart, StartPc, NoLines
<1>1. file' \in Seq(FileLine) /\ (atEnd' => Len(file') = 0)
  <2>1. file \in Seq(FileLine) /\ << >> \in Seq(FileLine) /\ Len(<< >>) = 0
    BY DEF Types
  <2>2. file' \in Seq(FileLine)
    BY <2>1
  <2>3. atEnd' => file' = << >>
    OBVIOUS
  <2>4. QED
    BY <2>1, <2>2, <2>3
<1>2. \A t \in Thread : pc'[t] \in {"tick", "read"}
  OBVIOUS
<1>3. Types'
  BY <1>1 DEF Types, Labels
<1>4. Exclusive'
  BY <1>2 DEF Exclusive, Locked
<1>5. PositionAtEnd'
  BY <1>1 DEF PositionAtEnd
<1>6. Exchange'
  BY <1>2 DEF Exchange
<1>7. QED
  BY <1>3, <1>4, <1>5, <1>6

\* The invariant holds in every behaviour.
THEOREM FileInvariant == Spec => []Inv
<1>1. Init => Inv
  <2> SUFFICES ASSUME Init PROVE Inv
    OBVIOUS
  <2> USE FileAssumption DEF Init, Thread, Nobody, StartPc, NoLines
  <2>1. \A t \in Thread : pc[t] \in {"tick", "read"}
    OBVIOUS
  <2>2. Types
    BY DEF Types, Labels
  <2>3. Exclusive /\ PositionAtEnd /\ Exchange
    BY <2>1 DEF Exclusive, Locked, PositionAtEnd, Exchange
  <2>4. QED
    BY <2>2, <2>3 DEF Inv
<1>2. ASSUME Inv, [Next]_vars PROVE Inv'
  <2>1. CASE UNCHANGED vars
    BY <1>2, <2>1 DEF Inv, Types, Exclusive, PositionAtEnd, Exchange, Request, vars
  <2>2. QED
    BY <1>2, <2>1, ThreadKeepsInv, TimerKeepsInv, RestartKeepsInv DEF Next
<1>3. QED
  BY <1>1, <1>2, PTL DEF Spec

\* The position never leaves the file, and file_lock is held by exactly the thread
\* that is between a lock and its unlock, or that returned there after a failed
\* send, the timer included, for any clients.
THEOREM FileTypes == Spec => []TypeOK
<1>1. Inv => TypeOK
  BY DEF Inv, Types, Exclusive, Locked, TypeOK
<1>2. QED
  BY <1>1, FileInvariant, PTL

-----------------------------------------------------------------------------
\* A write while no answer is read keeps what AppendOnly says.
LEMMA WriteAppends ==
  ASSUME Inv, NEW line \in FileLine, \A c \in Conn : pc[c] \notin {"reply", "failed"},
         file' = Written(line), fpos' = fpos + 1
  PROVE  IF atEnd THEN IsPrefix(file, file')
         ELSE /\ Len(file) <= Len(file')
              /\ \A i \in DOMAIN file : i > fpos' => file[i] = file'[i]
<1>1. Types /\ (atEnd => fpos = Len(file))
  BY DEF Inv, PositionAtEnd
<1>2. CASE atEnd
  BY <1>1, <1>2, WrittenAtEnd
<1>3. CASE ~atEnd
  <2>1. /\ file \in Seq(FileLine) /\ DOMAIN file = 1 .. Len(file)
        /\ fpos \in Nat /\ Len(file) \in Nat /\ fpos <= Len(file)
    BY <1>1 DEF Types
  <2>2. /\ Len(file') = IF fpos < Len(file) THEN Len(file) ELSE Len(file) + 1
        /\ \A i \in 1 .. Len(file') :
             file'[i] = IF i = fpos + 1 THEN line ELSE file[i]
    BY <1>1, WrittenFile
  <2>3. QED
    BY <1>3, <2>1, <2>2
<1>4. QED
  BY <1>2, <1>3

\* The file only grows at its end, for any clients and any number of time stamps
\* and restarts; on a file that an earlier process left, from the first answer on.
THEOREM FileAppendOnly == Spec => AppendOnly
<1> DEFINE Keeps == IF atEnd THEN IsPrefix(file, file')
                    ELSE /\ Len(file) <= Len(file')
                         /\ \A i \in DOMAIN file : i > fpos' => file[i] = file'[i]
<1>1. ASSUME Inv, [Next]_vars PROVE [starts' = starts => Keeps]_vars
  <2> USE FileAssumption DEF Thread, Nobody, process
  <2>1. CASE file' = file
    <3>1. file \in Seq(FileLine) /\ Len(file) \in Nat
      BY <1>1 DEF Inv, Types
    <3>2. IsPrefix(file, file)
      BY <3>1 DEF IsPrefix
    <3>3. QED
      BY <2>1, <3>1, <3>2
  <2>2. ASSUME NEW c \in Conn, StoreLine(c) PROVE Keeps
    <3>1. <<c, Head(in_buffer[c])>> \in FileLine
      BY <1>1, <2>2 DEF Inv, StoreLine, Types, FileLine
    <3>2. \A d \in Conn : pc[d] \notin {"reply", "failed"}
      BY <1>1, <2>2 DEF Inv, StoreLine, Exclusive, Types, Locked
    <3>3. QED
      BY <1>1, <2>2, <3>1, <3>2, WriteAppends DEF StoreLine
  <2>3. CASE TimerWrite
    <3>1. <<"timer", ticks + 1>> \in FileLine
      BY <1>1 DEF Inv, Types, FileLine
    <3>2. \A d \in Conn : pc[d] \notin {"reply", "failed"}
      BY <1>1, <2>3 DEF Inv, TimerWrite, Exclusive, Types, Locked
    <3>3. QED
      BY <1>1, <2>3, <3>1, <3>2, WriteAppends DEF TimerWrite
  <2>4. CASE Restart
    <3>1. starts' # starts
      BY <1>1, <2>4 DEF Inv, Types, Restart
    <3>2. QED
      BY <3>1
  <2>5. QED
    BY <1>1, <2>1, <2>2, <2>3, <2>4 DEF Next, ThreadStep, TimerStep, ReadSocket,
      LockFile, Lseek, SeekLine, Reply, SendFails, ReplyDone, UnlockFile, TimerLock,
      TimerUnlock, vars
<1>2. QED
  BY <1>1, FileInvariant, PTL DEF Spec, AppendOnly

\* The answer to a line is the whole file with that line at its end: no other
\* client and no time stamp gets in between, for any clients.
THEOREM FileAnswers == Spec => AnswerIsFile
<1> DEFINE line(c) == <<c, Head(in_buffer[c])>>
           Answered(c) == IF Request(c) = "text"
                          THEN /\ answer[c] = file
                               /\ IF atEnd THEN Last(file) = line(c)
                                  ELSE Contains(file, line(c))
                          ELSE atEnd => answer[c] = << >>
           Ends(c) == starts' = starts /\ pc[c] = "reply" /\ pc'[c] = "scan"
<1>1. ASSUME Inv, [Next]_vars, NEW c \in Conn, Ends(c) PROVE Answered(c)
  <2> USE FileAssumption DEF Thread, Nobody, process
  <2>1. ReplyDone(c)
    <3>1. Types /\ ~UNCHANGED pc /\ ~Restart
      BY <1>1 DEF Inv, Types, Restart
    <3>2. PICK t \in Thread : /\ pc[t] = "reply" /\ pc'[t] = "scan"
                              /\ \/ t \in Conn /\ ThreadStep(t)
                                 \/ TimerStep
      BY <1>1, <3>1 DEF Next, vars, ThreadStep, TimerStep, ReadSocket, LockFile,
        StoreLine, Lseek, SeekLine, Reply, SendFails, ReplyDone, UnlockFile, TimerLock,
        TimerWrite, TimerUnlock, Goto, Types
    <3>3. \A d \in Conn : pc[d] = "reply" => d = c
      BY <1>1 DEF Inv, Exclusive, Locked
    <3>4. t = c
      BY <3>1, <3>2, <3>3 DEF Types
    <3>5. QED
      BY <1>1, <3>1, <3>2, <3>4 DEF ThreadStep, TimerStep, ReadSocket, LockFile,
        StoreLine, Lseek, SeekLine, Reply, SendFails, UnlockFile, TimerLock, TimerWrite,
        TimerUnlock, Goto, Types
  <2>2. /\ file \in Seq(FileLine) /\ fpos \in Nat /\ Len(file) \in Nat
        /\ fpos <= Len(file) /\ ~(fpos < Len(file))
    BY <1>1, <2>1 DEF Inv, Types, ReplyDone, MoreToRead
  <2>3. fpos = Len(file)
    BY <2>2
  <2>4. SubSeq(file, 1, Len(file)) = file
    BY <2>2
  <2>5. QED
    BY <1>1, <2>3, <2>4 DEF Inv, Exchange
<1>2. ASSUME Inv, [Next]_vars PROVE [\A c \in Conn : Ends(c) => Answered(c)]_vars
  BY <1>1, <1>2
<1>3. QED
  BY <1>2, FileInvariant, PTL DEF Spec, AnswerIsFile
=============================================================================
