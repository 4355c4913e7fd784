----------------------------- MODULE AesdSocket -----------------------------
(***************************************************************************)
(* The threads of aesdsocket that serve the connections (server/           *)
(* aesdsocket.c), built to use the character device.  They share file_fd,  *)
(* hence one file position, and file_lock; the device is the one of        *)
(* LineDevice, which AesdChar implements.  Each client sends its byte      *)
(* stream in segments; a read of the socket returns what has arrived.      *)
(***************************************************************************)
EXTENDS LineDevice

CONSTANTS
  Conn,      \* the connections
  Segments,  \* Segments[c]: what the client of c sends, segment by segment
  BufLen,    \* in_buffer_len (1023 in the build)
  Resets,    \* whether a client may break its connection
  SendStalls \* whether a send may find the socket's buffer full (EAGAIN)

ASSUME SocketAssumption ==
  /\ "nobody" \notin Conn
  /\ BufLen \in Nat \ {0}
  /\ \A c \in Conn : Segments[c] \in Seq(Seq(Nat))

VARIABLES
  fpos,       \* position of file_fd
  file_lock,  \* the thread that holds file_lock, or Nobody
  sent,       \* how many segments each client has sent
  sock,       \* bytes that arrived and were not read
  peer,       \* state of each client's side of the connection
  pc,         \* where each thread is
  in_buffer,  \* the bytes of the latest read
  prev,       \* prev_newline_char, as an index into in_buffer
  answer,     \* history: bytes sent in answer to the current line
  stored,     \* history: lines each thread has written to the device
  cuts,       \* history: where in each client's stream a read has ended
  alive       \* the process has not been killed

serverVars == <<fpos, file_lock, sent, sock, peer, pc, in_buffer, prev, answer,
                stored, cuts, alive>>
client == <<sent, sock, peer>>
buffer == <<in_buffer, prev>>
history == <<answer, stored, cuts>>
vars == <<deviceVars, serverVars>>

Nobody == "nobody"
EINVAL == -22
NUL == 0
SEEKTO == 65    \* stands for the text AESDCHAR_IOCSEEKTO: at the start of a line
Digit == 48 .. 57  \* a number, the first of two with the comma behind it

Init ==
  /\ DeviceInit
  /\ fpos = 0
  /\ file_lock = Nobody
  /\ sent = [c \in Conn |-> 0]
  /\ sock = [c \in Conn |-> << >>]
  /\ peer = [c \in Conn |-> "open"]
  /\ pc = [c \in Conn |-> "none"]
  /\ in_buffer = [c \in Conn |-> << >>]
  /\ prev = [c \in Conn |-> 0]
  /\ answer = [c \in Conn |-> << >>]
  /\ stored = [c \in Conn |-> << >>]
  /\ cuts = [c \in Conn |-> {}]
  /\ alive = TRUE

Goto(c, label) == pc' = [pc EXCEPT ![c] = label]

(* ----------------------------- the clients ---------------------------- *)

Send(c) ==
  /\ peer[c] = "open" /\ sent[c] < Len(Segments[c])
  /\ sent' = [sent EXCEPT ![c] = @ + 1]
  /\ sock' = [sock EXCEPT ![c] = @ \o Segments[c][sent[c] + 1]]
  /\ UNCHANGED <<deviceVars, fpos, file_lock, peer, pc, buffer, history,
                 alive>>

\* The client shuts its side down, or resets the connection.
Disconnect(c) ==
  /\ \/ /\ peer[c] = "open" /\ sent[c] = Len(Segments[c])
        /\ peer' = [peer EXCEPT ![c] = "eof"]
     \/ Resets /\ peer[c] \in {"open", "eof"} /\ peer' = [peer EXCEPT ![c] = "reset"]
  /\ UNCHANGED <<deviceVars, fpos, file_lock, sent, sock, pc, buffer,
                 history, alive>>

(* ------------------------------ the device ---------------------------- *)

\* The device's text, and where each of its lines starts (from 0).
Text == FlattenSeq(lines)
LineStart(k) == Len(FlattenSeq(SubSeq(lines, 1, k)))

\* Up to the first newline; nothing when there is none.
FirstLine(bytes) == SubSeq(bytes, 1, SelectInSeq(bytes, LAMBDA b : b = NL))

\* read of file_fd: up to the end of the line at fpos, nothing at the end.
DeviceRead == FirstLine(SubSeq(Text, fpos + 1, Len(Text)))

\* AESDCHAR_IOCSEEKTO: the new position, or an error.
SeekPosition(cmd, offset) ==
  LET size == IF cmd < Len(lines) THEN Len(lines[cmd + 1]) ELSE 0 IN
  IF cmd >= N \/ offset > size THEN EINVAL
  ELSE LineStart(Min({cmd, Len(lines)})) + offset

(* ------------------------- handle_client_connection ------------------- *)

\* main accepts the connection and starts its thread.
Accept(c) ==
  /\ pc[c] = "none"
  /\ Goto(c, "read")
  /\ UNCHANGED <<deviceVars, fpos, file_lock, client, buffer, history, alive>>

\* What the string functions see of a buffer.
UpToNul(bytes) ==
  LET nul == SelectInSeq(bytes, LAMBDA b : b = NUL) IN
  IF nul = 0 THEN bytes ELSE SubSeq(bytes, 1, nul - 1)

\* Mutant: in_buffer is not terminated after the bytes that were read.
ReceivedUnterminated(c, n) ==
  UpToNul(SubSeq(sock[c], 1, n) \o SubSeq(in_buffer[c], n + 1, Len(in_buffer[c])))

\* in_buffer after a read of n bytes and the terminating NUL.
Received(c, n) == UpToNul(SubSeq(sock[c], 1, n))

\* All that the client of c has sent.
Stream(c) == FlattenSeq(SubSeq(Segments[c], 1, sent[c]))

\* read of the socket.  At the end of the stream the loop is left and the
\* thread ends.  A read error other than EAGAIN is not handled: the bytes of
\* the read before are still in in_buffer and are processed once more.
ReadSocket(c) ==
  LET n == Min({Len(sock[c]), BufLen}) IN
  /\ pc[c] = "read"
  /\ \/ /\ n > 0
        /\ in_buffer' = [in_buffer EXCEPT ![c] = Received(c, n)]
        /\ sock' = [sock EXCEPT ![c] = SubSeq(@, n + 1, Len(@))]
        /\ cuts' = [cuts EXCEPT ![c] = @ \cup {Len(Stream(c)) - Len(sock'[c])}]
        /\ Goto(c, "lock")
        /\ UNCHANGED peer
     \/ /\ n = 0 /\ peer[c] = "reset"
        /\ peer' = [peer EXCEPT ![c] = "dead"]
        /\ Goto(c, "lock")
        /\ UNCHANGED <<in_buffer, sock, cuts>>
     \/ /\ n = 0 /\ peer[c] \in {"eof", "dead"}
        /\ Goto(c, "done")
        /\ UNCHANGED <<in_buffer, sock, peer, cuts>>
  /\ prev' = [prev EXCEPT ![c] = 0]
  /\ UNCHANGED <<deviceVars, fpos, file_lock, sent, answer, stored, alive>>

FileLockFree == file_lock = Nobody

LockFile(c) ==
  /\ pc[c] = "lock" /\ FileLockFree
  /\ file_lock' = c
  /\ Goto(c, "scan")
  /\ UNCHANGED <<deviceVars, fpos, client, buffer, history, alive>>

\* strchr: what is left of in_buffer, and the first line of it.
Unscanned(c) == SubSeq(in_buffer[c], prev[c] + 1, Len(in_buffer[c]))
Line(c) == FirstLine(Unscanned(c))

IsSeek(line) == line[1] = SEEKTO

\* sscanf: the command and the offset, or nothing when they are not both there.
\* It reads on behind the line, because %d skips newlines.
ScanSeek(bytes) ==
  LET words == SelectSeq(Tail(bytes), LAMBDA b : b # NL) IN
  IF Len(words) >= 2 /\ {words[1], words[2]} \subseteq Digit
  THEN <<words[1] - 48, words[2] - 48>> ELSE << >>
SeekArgs(c) == ScanSeek(Unscanned(c))

\* Mutant: the answer starts where the write left the position.
AnswerStartAfterWrite == fpos

\* lseek(file_fd, 0, SEEK_SET) after the write.
AnswerStart == 0

\* A line that is no seek request goes to the device (the result of the write
\* is not looked at) and the position goes back to the start.
StoreLine(c) ==
  /\ pc[c] = "scan" /\ Line(c) # << >> /\ ~IsSeek(Line(c))
  /\ Write(Line(c)) \/ FailedWrite(Line(c))
  /\ fpos' = AnswerStart
  /\ stored' = [stored EXCEPT ![c] = Append(@, Line(c))]
  /\ answer' = [answer EXCEPT ![c] = << >>]
  /\ Goto(c, "reply")
  /\ UNCHANGED <<file_lock, client, buffer, cuts, alive>>

\* Mutant: the result of the ioctl is not looked at.
AcceptedAlways(pos) == TRUE

Accepted(pos) == pos # EINVAL

\* Mutant: the thread ends without the unlock.
LockAfterRefusalKept == file_lock

LockAfterRefusal == Nobody

\* A seek request moves the position; one that the device refuses ends the
\* thread, one that is malformed is ignored.
SeekLine(c) ==
  LET args == SeekArgs(c)
      pos == IF args = << >> THEN fpos ELSE SeekPosition(args[1], args[2])
  IN
  /\ pc[c] = "scan" /\ Line(c) # << >> /\ IsSeek(Line(c))
  /\ answer' = [answer EXCEPT ![c] = << >>]
  /\ \/ /\ Accepted(pos)
        /\ fpos' = pos
        /\ Goto(c, "reply")
        /\ UNCHANGED file_lock
     \/ /\ ~Accepted(pos)
        /\ file_lock' = LockAfterRefusal
        /\ Goto(c, "done")
        /\ UNCHANGED fpos
  /\ UNCHANGED <<deviceVars, client, buffer, stored, cuts, alive>>

\* write_buffer to the socket, which does not block: a short send is followed
\* by another, and an error (the connection was reset, or the client is slow
\* to read) ends it.  A send to a connection whose reset has been reported
\* raises SIGPIPE, which kills the process.
WriteBuffer(c) ==
  CASE peer[c] = "reset" -> {"failed"}
    [] peer[c] = "dead" -> {"killed"}
    [] OTHER -> {"sent"} \cup (IF SendStalls THEN {"failed"} ELSE {})

\* One turn of the answer loop: what the device returns is sent.  A send that
\* fails ends the thread, with file_lock held.
Reply(c) ==
  /\ pc[c] = "reply" /\ DeviceRead # << >>
  /\ fpos' = fpos + Len(DeviceRead)
  /\ \/ /\ "sent" \in WriteBuffer(c)
        /\ answer' = [answer EXCEPT ![c] = @ \o DeviceRead]
        /\ UNCHANGED <<pc, alive>>
     \/ /\ "failed" \in WriteBuffer(c)
        /\ Goto(c, "failed")
        /\ UNCHANGED <<answer, alive>>
     \/ /\ "killed" \in WriteBuffer(c)
        /\ alive' = FALSE
        /\ UNCHANGED <<pc, answer>>
  /\ peer' = [peer EXCEPT ![c] = IF @ = "reset" THEN "dead" ELSE @]
  /\ UNCHANGED <<deviceVars, file_lock, sent, sock, buffer, stored, cuts>>

\* Mutant: the byte after the newline is skipped.
NextPrevSkips(c) == prev[c] + Len(Line(c)) + 1

NextPrev(c) == prev[c] + Len(Line(c))

\* The device has no more: on to the next line.
ReplyDone(c) ==
  /\ pc[c] = "reply" /\ DeviceRead = << >>
  /\ prev' = [prev EXCEPT ![c] = NextPrev(c)]
  /\ Goto(c, "scan")
  /\ UNCHANGED <<deviceVars, fpos, file_lock, client, in_buffer, history,
                 alive>>

\* No newline is left: what remains of in_buffer is dropped.
UnlockFile(c) ==
  /\ pc[c] = "scan" /\ Line(c) = << >>
  /\ file_lock' = Nobody
  /\ Goto(c, "read")
  /\ UNCHANGED <<deviceVars, fpos, client, buffer, history, alive>>

(* ---------------------------- specification --------------------------- *)

ThreadStep(c) ==
  /\ alive
  /\ \/ Accept(c) \/ ReadSocket(c) \/ LockFile(c) \/ StoreLine(c)
     \/ SeekLine(c) \/ Reply(c) \/ ReplyDone(c) \/ UnlockFile(c)

Next == \E c \in Conn : Send(c) \/ Disconnect(c) \/ ThreadStep(c)

\* Every thread is scheduled.  The clients send finitely much, so no fairness
\* of the mutex is needed: it is free for good once the others are served.
Spec == Init /\ [][Next]_vars
FairSpec == Spec /\ \A c \in Conn : WF_vars(ThreadStep(c))

-----------------------------------------------------------------------------
\* Types; the position is never past the end, nor an error number.
TypeOK ==
  /\ fpos \in 0 .. Len(Text)
  /\ file_lock \in Conn \cup {Nobody}
  /\ pc \in [Conn -> {"none", "read", "lock", "scan", "reply", "done", "failed"}]
  /\ peer \in [Conn -> {"open", "eof", "reset", "dead"}]
  /\ \A c \in Conn : prev[c] \in 0 .. Len(in_buffer[c])
  /\ alive \in BOOLEAN

\* Where the answer to the line of c has to start.
AnswerFrom(c) ==
  LET args == SeekArgs(c) IN
  CASE ~IsSeek(Line(c)) -> 0
    [] IsSeek(Line(c)) /\ args # << >> -> SeekPosition(args[1], args[2])
    [] OTHER -> Len(Text)

\* An exchange is atomic: the answer to a line is the whole device, and that
\* line, if the write succeeded, is the last of it, whatever the other threads do
\* meanwhile; the answer to a seek request is the device from that position on.
AnswerIsDevice ==
  [][\A c \in Conn :
       pc[c] = "reply" /\ pc'[c] = "scan" =>
         /\ answer[c] = SubSeq(Text, AnswerFrom(c) + 1, Len(Text))
         /\ ~IsSeek(Line(c)) /\ ok => Last(lines) = Line(c)]_vars

\* What should be stored of a text that was read in pieces, with the given cuts: of
\* every line that is no seek request, what follows the last cut before its end,
\* unless a NUL lies between that cut and the end.
LastBefore(S, i) == Max({x \in S : x < i} \cup {0})
NewlinesOf(text) == {i \in DOMAIN text : text[i] = NL}
Piece(text, C, i) ==
  SubSeq(text, Max({LastBefore(C, i), LastBefore(NewlinesOf(text), i)}) + 1, i)
KeptEnds(text, C) ==
  {i \in NewlinesOf(text) : /\ ~IsSeek(Piece(text, C, i))
                            /\ \A j \in LastBefore(C, i) + 1 .. i : text[j] # NUL}

\* The pieces that end at the positions S, in order.
PiecesAt(text, C, S) ==
  LET rank(i) == Cardinality({j \in S : j <= i}) IN
  [k \in 1 .. Cardinality(S) |-> Piece(text, C, CHOOSE i \in S : rank(i) = k)]

ReadSoFar(c) == SubSeq(Stream(c), 1, Len(Stream(c)) - Len(sock[c]))
Kept(c) == PiecesAt(ReadSoFar(c), cuts[c], KeptEnds(ReadSoFar(c), cuts[c]))

\* Each line is stored once and in order, whole when it arrives whole, and when a
\* read cuts it, by what came after the cut; nothing else is stored.  (Not after
\* a read error, when the thread goes over the bytes of the last read again.)
StoredOnceInOrder ==
  \A c \in Conn : peer[c] # "dead" =>
    /\ IsPrefix(stored[c], Kept(c))
    /\ pc[c] = "read" => stored[c] = Kept(c)

\* However the streams are cut, and whether or not a connection breaks or a
\* write fails: a line on the device is a line that some client sent, or the
\* end of one, never a mixture of two lines or of two clients.
LinesNeverMix ==
  \A i \in DOMAIN lines : \E c \in Conn : \E k \in DOMAIN LinesOf(Stream(c)) :
    IsSuffix(lines[i], LinesOf(Stream(c))[k])

\* A thread that has ended does not hold file_lock: the block that the
\* comments "start file_lock" and "end file_lock" delimit is left unlocked
\* (violated by a send that fails).
FileLockReleased == \A c \in Conn : pc[c] \in {"done", "failed"} => file_lock # c

\* Whatever a client sends is read and dealt with, whoever else is refused a
\* seek or breaks its connection, unless a send that failed has left file_lock
\* locked or killed the server.
Served ==
  \A c \in Conn :
    sock[c] # << >> ~>
      \/ pc[c] = "done" \/ (sock[c] = << >> /\ pc[c] = "read")
      \/ ~alive \/ \E d \in Conn : pc[d] = "failed"
=============================================================================
