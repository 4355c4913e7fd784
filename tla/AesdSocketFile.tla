--------------------------- MODULE AesdSocketFile ---------------------------
(***************************************************************************)
(* aesdsocket built with USE_AESD_CHAR_DEVICE=0 (server/aesdsocket.c): the *)
(* log is the regular file /tmp/aesdsocket, and a timer thread adds a time *)
(* stamp every ten seconds.  The file is not opened with O_APPEND: a write *)
(* goes where the shared position is.                                      *)
(*                                                                         *)
(* A line is a value, <<thread, number>>, and the file a sequence of them; *)
(* lines arrive whole (AesdSocket has the other cases).                    *)
(***************************************************************************)
EXTENDS Naturals, SequencesExt

CONSTANTS
  Conn,         \* the connections
  Requests,     \* Requests[c]: the kinds of the lines the client of c sends
  Chunk,        \* how many lines fit into out_buffer
  MaxTicks,     \* bound: time stamps per behaviour
  MaxRestarts   \* bound: how often the process is started again

Kind == {"text", "seek", "malformed_seek"}

ASSUME FileAssumption ==
  /\ {"timer", "nobody"} \cap Conn = {}
  /\ Requests \in [Conn -> Seq(Kind)]
  /\ Chunk \in Nat \ {0} /\ MaxTicks \in Nat /\ MaxRestarts \in Nat

VARIABLES
  file,       \* contents of the file
  fpos,       \* position of file_fd
  file_lock,  \* the thread that holds it, or Nobody
  pc,         \* where each thread is, the timer included
  received,   \* the last line of Requests[c] that was read from the socket
  in_buffer,  \* numbers of the lines that were read and are not dealt with
  answer,     \* history: what was sent in answer to the current line
  ticks,      \* time stamps written
  starts,     \* how often the process was started
  atEnd       \* history: since the start the file was empty or read to its end

vars == <<file, fpos, file_lock, pc, received, in_buffer, answer, ticks, starts,
          atEnd>>
process == <<ticks, starts, atEnd>>

Nobody == "nobody"
Thread == Conn \cup {"timer"}

\* The threads of a process that has just been started.
StartPc == [t \in Thread |-> IF t = "timer" THEN "tick" ELSE "read"]
NoLines == [c \in Conn |-> << >>]

Init ==
  /\ file = << >>
  /\ fpos = 0
  /\ file_lock = Nobody
  /\ pc = StartPc
  /\ received = [c \in Conn |-> 0]
  /\ in_buffer = NoLines
  /\ answer = NoLines
  /\ ticks = 0 /\ starts = 1 /\ atEnd = TRUE

Goto(t, label) == pc' = [pc EXCEPT ![t] = label]

\* What a write at the position makes of the file.
Written(line) ==
  SubSeq(file, 1, fpos) \o <<line>> \o SubSeq(file, fpos + 2, Len(file))

(* ------------------------- handle_client_connection ------------------- *)

\* A read of the socket returns some of the lines that are left, and nothing
\* at the end.
ReadSocket(c) ==
  /\ pc[c] = "read"
  /\ \/ \E n \in received[c] + 1 .. Len(Requests[c]) :
          /\ in_buffer' = [in_buffer EXCEPT ![c] = [k \in 1 .. n - received[c] |->
                                                      received[c] + k]]
          /\ received' = [received EXCEPT ![c] = n]
          /\ Goto(c, "lock")
     \/ /\ received[c] = Len(Requests[c])
        /\ Goto(c, "done")
        /\ UNCHANGED <<received, in_buffer>>
  /\ UNCHANGED <<file, fpos, file_lock, answer, process>>

LockFile(c) ==
  /\ pc[c] = "lock" /\ file_lock = Nobody
  /\ file_lock' = c
  /\ Goto(c, "scan")
  /\ UNCHANGED <<file, fpos, received, in_buffer, answer, process>>

Request(c) == Requests[c][Head(in_buffer[c])]

\* write_buffer and fdatasync.
StoreLine(c) ==
  /\ pc[c] = "scan" /\ in_buffer[c] # << >> /\ Request(c) = "text"
  /\ file' = Written(<<c, Head(in_buffer[c])>>)
  /\ fpos' = fpos + 1
  /\ Goto(c, "lseek")
  /\ UNCHANGED <<file_lock, received, in_buffer, answer, process>>

\* Mutant: the position is left where the write has put it.
AnswerStartAfterWrite == fpos

AnswerStart == 0

Lseek(c) ==
  /\ pc[c] = "lseek"
  /\ fpos' = AnswerStart
  /\ answer' = [answer EXCEPT ![c] = << >>]
  /\ Goto(c, "reply")
  /\ UNCHANGED <<file, file_lock, received, in_buffer, process>>

\* Mutant: the thread ends without the unlock.
LockAfterRefusalKept == file_lock

LockAfterRefusal == Nobody

\* A regular file refuses the ioctl and the thread ends; a request that does
\* not parse is answered from where the position is.
SeekLine(c) ==
  /\ pc[c] = "scan" /\ in_buffer[c] # << >> /\ Request(c) # "text"
  /\ \/ /\ Request(c) = "seek"
        /\ file_lock' = LockAfterRefusal
        /\ Goto(c, "done")
        /\ UNCHANGED answer
     \/ /\ Request(c) = "malformed_seek"
        /\ answer' = [answer EXCEPT ![c] = << >>]
        /\ Goto(c, "reply")
        /\ UNCHANGED file_lock
  /\ UNCHANGED <<file, fpos, received, in_buffer, process>>

\* Mutant: one read is taken for the whole answer.
MoreToReadOnce(c) == fpos < Len(file) /\ answer[c] = << >>

MoreToRead(c) == fpos < Len(file)

\* Where a read of the file into out_buffer leaves the position.
ReadEnd == IF fpos + Chunk < Len(file) THEN fpos + Chunk ELSE Len(file)

\* One turn of the loop: read of the file and write_buffer to the socket.
Reply(c) ==
  /\ pc[c] = "reply" /\ MoreToRead(c)
  /\ answer' = [answer EXCEPT ![c] = @ \o SubSeq(file, fpos + 1, ReadEnd)]
  /\ fpos' = ReadEnd
  /\ UNCHANGED <<file, file_lock, pc, received, in_buffer, process>>

\* The send fails, because the client is slow (EAGAIN) or gone: the thread returns
\* without the unlock, the position where the read has left it.
SendFails(c) ==
  /\ pc[c] = "reply" /\ MoreToRead(c)
  /\ fpos' = ReadEnd
  /\ Goto(c, "failed")
  /\ UNCHANGED <<file, file_lock, received, in_buffer, answer, process>>

ReplyDone(c) ==
  /\ pc[c] = "reply" /\ ~MoreToRead(c)
  /\ in_buffer' = [in_buffer EXCEPT ![c] = Tail(@)]
  /\ atEnd' = TRUE
  /\ Goto(c, "scan")
  /\ UNCHANGED <<file, fpos, file_lock, received, answer, ticks, starts>>

UnlockFile(c) ==
  /\ pc[c] = "scan" /\ in_buffer[c] = << >>
  /\ file_lock' = Nobody
  /\ Goto(c, "read")
  /\ UNCHANGED <<file, fpos, received, in_buffer, answer, process>>

(* -------------------------------- timer ------------------------------- *)

TimerLock ==
  /\ pc["timer"] = "tick" /\ file_lock = Nobody /\ ticks < MaxTicks
  /\ file_lock' = "timer"
  /\ Goto("timer", "write")
  /\ UNCHANGED <<file, fpos, received, in_buffer, answer, process>>

TimerWrite ==
  /\ pc["timer"] = "write"
  /\ file' = Written(<<"timer", ticks + 1>>)
  /\ fpos' = fpos + 1
  /\ ticks' = ticks + 1
  /\ Goto("timer", "unlock")
  /\ UNCHANGED <<file_lock, received, in_buffer, answer, starts, atEnd>>

\* The unlock; the sleep of ten seconds is the time until the next tick.
TimerUnlock ==
  /\ pc["timer"] = "unlock"
  /\ file_lock' = Nobody
  /\ Goto("timer", "tick")
  /\ UNCHANGED <<file, fpos, received, in_buffer, answer, process>>

(* --------------------------- end and restart -------------------------- *)

\* The process ends at any point, by cleanUpAndExit, which removes the file,
\* or because it is killed, and is started again: the file is opened without
\* O_TRUNC, at position 0.
Restart ==
  /\ starts <= MaxRestarts
  /\ file' \in {<< >>, file}
  /\ fpos' = 0
  /\ file_lock' = Nobody
  /\ pc' = StartPc
  /\ received' = [c \in Conn |-> 0]
  /\ in_buffer' = NoLines
  /\ answer' = NoLines
  /\ starts' = starts + 1
  /\ atEnd' = (file' = << >>)
  /\ UNCHANGED ticks

(* ---------------------------- specification --------------------------- *)

ThreadStep(c) ==
  \/ ReadSocket(c) \/ LockFile(c) \/ StoreLine(c) \/ Lseek(c) \/ SeekLine(c)
  \/ Reply(c) \/ SendFails(c) \/ ReplyDone(c) \/ UnlockFile(c)

TimerStep == TimerLock \/ TimerWrite \/ TimerUnlock

Next == TimerStep \/ Restart \/ \E c \in Conn : ThreadStep(c)

\* Every thread is scheduled; the clients send finitely much, so that no
\* fairness of the mutex is needed.
Spec ==
  /\ Init /\ [][Next]_vars
  /\ WF_vars(TimerStep) /\ \A c \in Conn : WF_vars(ThreadStep(c))

-----------------------------------------------------------------------------
\* Types; file_lock is held by exactly the thread that is between a lock and
\* the unlock of it, or that has returned in between because a send failed.
TypeOK ==
  /\ fpos \in 0 .. Len(file)
  /\ file_lock \in Thread \cup {Nobody}
  /\ \A t \in Thread :
       file_lock = t <=>
         pc[t] \in {"scan", "lseek", "reply", "failed", "write", "unlock"}
  /\ ticks \in 0 .. MaxTicks

\* The file only grows at its end, although nothing but the habit of reading to
\* the end of the file leaves the position there: no line or time stamp is
\* overwritten.  A process that finds an old file writes over it, but only until
\* its first client has been answered, and never past what it writes itself.
AppendOnly ==
  [][starts' = starts =>
       IF atEnd THEN IsPrefix(file, file')
       ELSE /\ Len(file) <= Len(file')
            /\ \A i \in DOMAIN file : i > fpos' => file[i] = file'[i]]_vars

\* The answer to a line of text is the whole file, also on a file that an earlier
\* process left; and the line is the last of it, no time stamp and no other
\* client gets in between, once the position has come to the end of the file.
\* From then on a malformed seek request is answered with nothing.
AnswerIsFile ==
  [][\A c \in Conn :
       starts' = starts /\ pc[c] = "reply" /\ pc'[c] = "scan" =>
         LET line == <<c, Head(in_buffer[c])>> IN
         IF Request(c) = "text"
         THEN /\ answer[c] = file
              /\ IF atEnd THEN Last(file) = line ELSE Contains(file, line)
         ELSE atEnd => answer[c] = << >>]_vars

SendFailed == \E c \in Conn : pc[c] = "failed"

\* Whatever the clients send, the time stamps keep coming and every line that is
\* read is dealt with: a refused seek, a malformed one, the end of a stream and a
\* restart leave no one locked out.  The one thing that does is a send that
\* failed, whose thread has taken file_lock with it (aesdsocket.c:197-202): from
\* then on, until the process is started again, nothing is promised.
EveryoneServed ==
  /\ []<>(ticks = MaxTicks \/ SendFailed)
  /\ \A c \in Conn : pc[c] = "lock" ~> pc[c] \in {"read", "done"} \/ SendFailed
=============================================================================
