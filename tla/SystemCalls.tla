---------------------------- MODULE SystemCalls -----------------------------
(***************************************************************************)
(* do_system, do_exec and do_exec_redirect (examples/systemcalls/          *)
(* systemcalls.c), called one after the other by a program that also       *)
(* prints to stdout.  A child runs concurrently with the program and can   *)
(* outlive the call that forked it; what stdio holds in its buffer is      *)
(* copied by fork and written by whoever flushes or exits.                 *)
(***************************************************************************)
EXTENDS Naturals

CONSTANTS
  Functions,  \* those of the three that the program calls
  MayFail,    \* which steps may fail, and whether a command may be killed
  MaxCalls,   \* bound: calls per behaviour
  MaxPrints,  \* bound: lines the program prints
  MaxFds      \* descriptors the process may have open for output files

FailurePoint == {"open", "fork", "dup2", "exec", "waitpid", "killed"}

ASSUME CallsAssumption ==
  /\ Functions \subseteq {"do_system", "do_exec", "do_exec_redirect"}
  /\ MayFail \subseteq FailurePoint
  /\ MaxCalls \in Nat /\ MaxPrints \in Nat /\ MaxFds \in Nat

VARIABLES
  calls,     \* how many calls were made; the latest one is call number calls
  function,  \* the function each call calls
  pc,        \* where the program is
  returned,  \* what each call has returned
  child,     \* the life of the child each call forked
  command,   \* history: how the command of each call ended
  fds,       \* open descriptors of output files, which nothing closes
  printed,   \* lines the program has printed
  buffered,  \* of these, how many are still in stdio's buffer
  inherited, \* lines in the copy of the buffer that each child has
  written    \* lines that have been written, by anybody

output == <<printed, buffered, inherited, written>>
vars == <<calls, function, pc, returned, child, command, fds, output>>

Call == 1 .. MaxCalls

Init ==
  /\ calls = 0
  /\ function = [i \in Call |-> "none"]
  /\ pc = "program"
  /\ returned = [i \in Call |-> "nothing"]
  /\ child = [i \in Call |-> "none"]
  /\ command = [i \in Call |-> "not_run"]
  /\ fds = 0
  /\ printed = 0 /\ buffered = 0 /\ written = 0
  /\ inherited = [i \in Call |-> 0]

(* ----------------------------- the program ---------------------------- *)

\* The program prints a line, which stays in the buffer.
PrintLine ==
  /\ pc = "program" /\ printed < MaxPrints
  /\ printed' = printed + 1
  /\ buffered' = buffered + 1
  /\ UNCHANGED <<calls, function, pc, returned, child, command, fds, inherited,
                 written>>

\* The call under way returns.
Return(value) ==
  /\ returned' = [returned EXCEPT ![calls] = value]
  /\ pc' = "program"

SystemSucceeded(status) == status = "exited_0"

\* The three ways a command that was started can end.
Ending ==
  {"exited_0", "exited_1"} \cup (IF "killed" \in MayFail THEN {"killed"} ELSE {})

\* do_system: the C library forks and waits.
DoSystem ==
  /\ pc = "program" /\ calls < MaxCalls /\ "do_system" \in Functions
  /\ calls' = calls + 1
  /\ function' = [function EXCEPT ![calls'] = "do_system"]
  /\ \E status \in Ending \cup (IF "fork" \in MayFail THEN {"not_run"} ELSE {}) :
       /\ command' = [command EXCEPT ![calls'] = status]
       /\ returned' = [returned EXCEPT ![calls'] = IF SystemSucceeded(status)
                                                   THEN "true" ELSE "false"]
  /\ UNCHANGED <<pc, child, fds, output>>

\* Mutant: fflush is not called.
BufferAfterFlushKept == buffered

\* fflush(stdout).
BufferAfterFlush == 0

\* The arguments are collected and stdout is flushed.
Enter(f) ==
  /\ pc = "program" /\ calls < MaxCalls /\ f \in Functions \ {"do_system"}
  /\ calls' = calls + 1
  /\ function' = [function EXCEPT ![calls'] = f]
  /\ written' = written + (buffered - BufferAfterFlush)
  /\ buffered' = BufferAfterFlush
  /\ pc' = IF f = "do_exec" THEN "fork" ELSE "open"
  /\ UNCHANGED <<returned, child, command, fds, printed, inherited>>

\* do_exec_redirect opens the output file.
Open ==
  /\ pc = "open"
  /\ \/ /\ fds < MaxFds
        /\ fds' = fds + 1
        /\ pc' = "fork"
        /\ UNCHANGED returned
     \/ /\ "open" \in MayFail \/ fds = MaxFds
        /\ Return("false")
        /\ UNCHANGED fds
  /\ UNCHANGED <<calls, function, child, command, output>>

\* fork copies the process, the stdio buffer included.
Fork ==
  /\ pc = "fork"
  /\ \/ /\ child' = [child EXCEPT ![calls] =
                       IF function[calls] = "do_exec" THEN "exec" ELSE "dup2"]
        /\ inherited' = [inherited EXCEPT ![calls] = buffered]
        /\ pc' = "waitpid"
        /\ UNCHANGED returned
     \/ /\ "fork" \in MayFail
        /\ Return("false")
        /\ UNCHANGED <<child, inherited>>
  /\ UNCHANGED <<calls, function, command, fds, printed, buffered, written>>

\* WIFEXITED and WEXITSTATUS; a command that was killed falls through to the
\* last return.
ResultOfStatus(status) == IF status = "exited_1" THEN "false" ELSE "true"

\* Mutant: a child that was killed is not waited for.
IsReapableExited(i) == child[i] \in {"exited_0", "exited_1"}

IsReapable(i) == child[i] \in {"exited_0", "exited_1", "killed"}

\* waitpid: the child is gone and its status known.
Waitpid ==
  /\ pc = "waitpid" /\ IsReapable(calls)
  /\ Return(ResultOfStatus(child[calls]))
  /\ child' = [child EXCEPT ![calls] = "reaped"]
  /\ UNCHANGED <<calls, function, command, fds, output>>

\* waitpid fails (a signal interrupts it): the child is left to itself.
WaitpidFails ==
  /\ pc = "waitpid" /\ "waitpid" \in MayFail
  /\ Return("false")
  /\ UNCHANGED <<calls, function, child, command, fds, output>>

(* ----------------------------- the children --------------------------- *)

\* dup2: when it fails the child returns false, into the program's code.
Dup2(i) ==
  /\ child[i] = "dup2"
  /\ \/ child' = [child EXCEPT ![i] = "exec"]
     \/ "dup2" \in MayFail /\ child' = [child EXCEPT ![i] = "in_program"]
  /\ UNCHANGED <<calls, function, pc, returned, command, fds, output>>

\* Mutant: the child that cannot run the command exits successfully.
ExitAfterExecSuccess == "exited_0"

\* exit(EXIT_FAILURE).
ExitAfterExec == "exited_1"

\* execv replaces the child, its buffer included; if it fails the child exits
\* and exit writes what its copy of the buffer holds.
Exec(i) ==
  /\ child[i] = "exec"
  /\ \/ /\ child' = [child EXCEPT ![i] = "command"]
        /\ UNCHANGED <<command, written>>
     \/ /\ "exec" \in MayFail
        /\ child' = [child EXCEPT ![i] = ExitAfterExec]
        /\ command' = [command EXCEPT ![i] = "no_such_command"]
        /\ written' = written + inherited[i]
  /\ inherited' = [inherited EXCEPT ![i] = 0]
  /\ UNCHANGED <<calls, function, pc, returned, fds, printed, buffered>>

CommandEnds(i) ==
  /\ child[i] = "command"
  /\ \E status \in Ending :
       /\ child' = [child EXCEPT ![i] = status]
       /\ command' = [command EXCEPT ![i] = status]
  /\ UNCHANGED <<calls, function, pc, returned, fds, output>>

\* The second copy of the program runs to some end, and writes its buffer.
ProgramCopyEnds(i) ==
  /\ child[i] = "in_program"
  /\ \E status \in {"exited_0", "exited_1"} :
       child' = [child EXCEPT ![i] = status]
  /\ written' = written + inherited[i]
  /\ inherited' = [inherited EXCEPT ![i] = 0]
  /\ UNCHANGED <<calls, function, pc, returned, command, fds, printed, buffered>>

(* ---------------------------- specification --------------------------- *)

CallStep == Open \/ Fork \/ Waitpid
ChildStep(i) == Dup2(i) \/ Exec(i) \/ CommandEnds(i) \/ ProgramCopyEnds(i)

Next ==
  \/ PrintLine \/ DoSystem \/ (\E f \in Functions : Enter(f)) \/ CallStep
  \/ WaitpidFails
  \/ \E i \in Call : ChildStep(i)

\* The program and its children are scheduled, and commands end; that waitpid
\* fails is never relied on.
Spec ==
  /\ Init /\ [][Next]_vars
  /\ WF_vars(CallStep) /\ \A i \in Call : WF_vars(ChildStep(i))

-----------------------------------------------------------------------------
\* The errors that the comment on do_exec lists are reported: a call returns false
\* when the file cannot be opened, fork or waitpid fails, the command cannot be run
\* or returns a value other than zero, although exec fails in another process and
\* only its exit status tells; and a command that was waited for and returned zero
\* is never reported as an error.  do_system returns true for such a command only.
\* (What this leaves open, a command that is killed and a failing dup2, is the
\* subject of TrueMeansExecuted.)
Waited(i) == function[i] = "do_system" \/ child[i] = "reaped"
ErrorsReported ==
  \A i \in Call :
    returned[i] # "nothing" =>
      /\ ~Waited(i) \/ command[i] \in {"exited_1", "no_such_command"} =>
           returned[i] = "false"
      /\ Waited(i) /\ command[i] = "exited_0" => returned[i] = "true"
      /\ function[i] = "do_system" /\ command[i] # "exited_0" => returned[i] = "false"

\* "true if the command ... with arguments ... were executed successfully using the
\* execv() call" (violated: a command that was killed has no exit status, and the
\* call falls through to its last return).
TrueMeansExecuted == \A i \in Call : returned[i] = "true" => command[i] = "exited_0"

\* What the program prints is written once: no child writes again, neither to
\* stdout nor to the output file, what was buffered when it was forked.
PrintedOnce == written + buffered = printed

\* Every call returns if its command ends.
CallsReturn == pc # "program" ~> pc = "program"
=============================================================================
