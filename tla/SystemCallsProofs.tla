------------------------- MODULE SystemCallsProofs --------------------------
(***************************************************************************)
(* What the system call examples guarantee for any number of calls and of  *)
(* printed lines, whatever fails.                                          *)
(***************************************************************************)
EXTENDS SystemCalls, TLAPS

Status == {"exited_0", "exited_1", "killed"}

Types ==
  /\ calls \in 0 .. MaxCalls
  /\ function \in [Call -> {"none", "do_system", "do_exec", "do_exec_redirect"}]
  /\ pc \in {"program", "open", "fork", "waitpid"}
  /\ returned \in [Call -> {"nothing", "true", "false"}]
  /\ child \in [Call -> {"none", "dup2", "exec", "command", "in_program", "reaped"}
                          \cup Status]
  /\ command \in [Call -> {"not_run", "no_such_command"} \cup Status]
  /\ printed \in Nat /\ buffered \in Nat /\ written \in Nat
  /\ inherited \in [Call -> Nat]

\* The buffer is empty between the flush and the fork, so that no child has
\* anything to write a second time.
NothingInherited ==
  /\ pc \in {"open", "fork"} => buffered = 0
  /\ \A i \in Call : inherited[i] = 0

\* How far each call has come: the one under way has no result yet, and it has
\* a child that nobody has waited for just when it is in waitpid.
CallOrder ==
  /\ pc # "program" => /\ calls \in Call
                       /\ function[calls] \in {"do_exec", "do_exec_redirect"}
                       /\ returned[calls] = "nothing"
  /\ pc = "open" => function[calls] = "do_exec_redirect"
  /\ pc \in {"open", "fork"} => child[calls] = "none" /\ command[calls] = "not_run"
  /\ pc = "waitpid" => child[calls] \notin {"none", "reaped"}
  /\ \A i \in Call : i > calls =>
       returned[i] = "nothing" /\ child[i] = "none" /\ command[i] = "not_run"

\* What the state of a child tells about its command.
ChildTells ==
  \A i \in Call :
    /\ child[i] # "none" => function[i] \in {"do_exec", "do_exec_redirect"}
    /\ child[i] \in {"dup2", "in_program"} => function[i] = "do_exec_redirect"
    /\ child[i] \in {"dup2", "exec", "command", "in_program"} => command[i] = "not_run"
    /\ child[i] \in Status =>
         \/ command[i] = child[i]
         \/ child[i] = "exited_1" /\ command[i] = "no_such_command"
         \/ child[i] # "killed" /\ command[i] = "not_run"
              /\ function[i] = "do_exec_redirect"
    /\ returned[i] = "true" => child[i] \in {"none", "reaped"}

Inv == Types /\ NothingInherited /\ CallOrder /\ ChildTells /\ ErrorsReported /\ PrintedOnce

\* Every step of the program preserves the invariant.
LEMMA ProgramKeepsInv ==
  ASSUME Inv, PrintLine \/ DoSystem \/ (\E f \in Functions : Enter(f)) \/ CallStep
                \/ WaitpidFails
  PROVE  Inv'
<1> USE CallsAssumption DEF Inv, Types, NothingInherited, CallOrder, ChildTells,
      PrintedOnce, Call, Status, output
<1>1. CASE PrintLine
  BY <1>1 DEF PrintLine, ErrorsReported, Waited
<1>2. CASE DoSystem
  BY <1>2 DEF DoSystem, Ending, SystemSucceeded, ErrorsReported, Waited
<1>3. ASSUME NEW f \in Functions, Enter(f) PROVE Inv'
  BY <1>3 DEF Enter, BufferAfterFlush, ErrorsReported, Waited
<1>4. CASE Open
  <2>1. Types'
    BY <1>4 DEF Open, Return
  <2>2. (NothingInherited /\ PrintedOnce)'
    BY <1>4 DEF Open, Return
  <2>3. CallOrder'
    BY <1>4 DEF Open, Return
  <2>4. ChildTells'
    BY <1>4 DEF Open, Return
  <2>5. ErrorsReported'
    <3>1. UNCHANGED <<function, child, command>>
      BY <1>4 DEF Open
    <3>2. \A j \in Call : \/ returned'[j] = returned[j]
                          \/ j = calls /\ returned'[j] = "false"
      BY <1>4 DEF Open, Return
    <3>3. ~Waited(calls) /\ function[calls] # "do_system"
      BY <1>4 DEF Open, Waited
    <3> QED BY <3>1, <3>2, <3>3 DEF ErrorsReported, Waited
  <2> QED BY <2>1, <2>2, <2>3, <2>4, <2>5
<1>5. CASE Fork
  <2>1. Types'
    <3>1. child' \in [Call -> {"none", "dup2", "exec", "command", "in_program", "reaped"}
                               \cup Status]
      BY <1>5 DEF Fork
    <3>2. returned' \in [Call -> {"nothing", "true", "false"}]
      BY <1>5 DEF Fork, Return
    <3> QED BY <1>5, <3>1, <3>2 DEF Fork, Return
  <2>2. (NothingInherited /\ PrintedOnce)'
    BY <1>5 DEF Fork, Return
  <2>3. CallOrder'
    BY <1>5 DEF Fork, Return
  <2>4. ChildTells'
    BY <1>5 DEF Fork, Return
  <2>5. ErrorsReported'
    <3> SUFFICES ASSUME NEW j \in Call, returned'[j] # "nothing"
                 PROVE  /\ ~Waited(j)' \/ command'[j] \in {"exited_1", "no_such_command"} =>
                             returned'[j] = "false"
                        /\ Waited(j)' /\ command'[j] = "exited_0" => returned'[j] = "true"
                        /\ function'[j] = "do_system" /\ command'[j] # "exited_0" =>
                             returned'[j] = "false"
      BY DEF ErrorsReported
    <3>1. CASE j = calls
      BY <1>5, <3>1 DEF Fork, Return, Waited
    <3>2. CASE j # calls
      <4>1. /\ returned'[j] = returned[j] /\ child'[j] = child[j]
            /\ function' = function /\ command' = command
        BY <1>5, <3>2 DEF Fork, Return
      <4> QED BY <4>1 DEF ErrorsReported, Waited
    <3> QED BY <3>1, <3>2
  <2> QED BY <2>1, <2>2, <2>3, <2>4, <2>5
<1>6. CASE Waitpid
  BY <1>6 DEF Waitpid, Return, IsReapable, ResultOfStatus, ErrorsReported, Waited
<1>7. CASE WaitpidFails
  BY <1>7 DEF WaitpidFails, Return, ErrorsReported, Waited
<1>8. QED
  BY <1>1, <1>2, <1>3, <1>4, <1>5, <1>6, <1>7 DEF CallStep

\* A child that has not been waited for takes a step: that changes no result.
LEMMA ChildLeavesResults ==
  ASSUME Inv, NEW i \in Call, child[i] \notin {"none", "reaped"}, child'[i] # "reaped",
         UNCHANGED <<function, returned>>,
         \A j \in Call : j # i => child'[j] = child[j] /\ command'[j] = command[j]
  PROVE  ErrorsReported'
<1>1. function[i] # "do_system" /\ ~Waited(i)
  BY DEF Inv, ChildTells, Waited
<1>2. returned[i] # "nothing" => returned[i] = "false"
  BY <1>1 DEF Inv, ErrorsReported
<1>3. ~Waited(i)'
  BY <1>1 DEF Waited
<1>4. ASSUME NEW j \in Call, j # i PROVE Waited(j)' <=> Waited(j)
  BY <1>4 DEF Waited
<1>5. QED
  BY <1>1, <1>2, <1>3, <1>4 DEF Inv, ErrorsReported

\* Every step of a child preserves it, whatever the program does meanwhile.
LEMMA ChildKeepsInv == ASSUME Inv, NEW i \in Call, ChildStep(i) PROVE Inv'
<1> USE CallsAssumption DEF Inv, Types, NothingInherited, CallOrder, ChildTells,
      PrintedOnce, Call, Status, output
<1>1. CASE Dup2(i)
  <2>1. Types'
    BY <1>1 DEF Dup2
  <2>2. (NothingInherited /\ PrintedOnce)'
    BY <1>1 DEF Dup2
  <2>3. CallOrder'
    BY <1>1 DEF Dup2
  <2>4. ChildTells'
    BY <1>1 DEF Dup2
  <2>5. ErrorsReported'
    <3>1. child[i] \notin {"none", "reaped"} /\ UNCHANGED <<function, returned>>
      BY <1>1 DEF Dup2
    <3>2. child'[i] # "reaped"
      BY <1>1 DEF Dup2
    <3>3. \A j \in Call : j # i => child'[j] = child[j] /\ command'[j] = command[j]
      BY <1>1 DEF Dup2
    <3> QED BY <3>1, <3>2, <3>3, ChildLeavesResults
  <2> QED BY <2>1, <2>2, <2>3, <2>4, <2>5
<1>2. CASE Exec(i)
  <2>1. Types'
    <3>1. child' \in [Call -> {"none", "dup2", "exec", "command", "in_program", "reaped"}
                               \cup Status]
      BY <1>2 DEF Exec, ExitAfterExec
    <3>2. command' \in [Call -> {"not_run", "no_such_command"} \cup Status]
      BY <1>2 DEF Exec
    <3>3. written' \in Nat /\ inherited' \in [Call -> Nat]
      BY <1>2 DEF Exec
    <3> QED BY <1>2, <3>1, <3>2, <3>3 DEF Exec
  <2>2. (NothingInherited /\ PrintedOnce)'
    <3>1. written' = written
      BY <1>2 DEF Exec, ExitAfterExec
    <3> QED BY <1>2, <3>1 DEF Exec, ExitAfterExec
  <2>3. CallOrder'
    BY <1>2 DEF Exec, ExitAfterExec
  <2>4. ChildTells'
    BY <1>2 DEF Exec, ExitAfterExec
  <2>5. ErrorsReported'
    <3>1. child[i] \notin {"none", "reaped"} /\ UNCHANGED <<function, returned>>
      BY <1>2 DEF Exec, ExitAfterExec
    <3>2. child'[i] # "reaped"
      BY <1>2 DEF Exec, ExitAfterExec
    <3>3. \A j \in Call : j # i => child'[j] = child[j] /\ command'[j] = command[j]
      BY <1>2 DEF Exec, ExitAfterExec
    <3> QED BY <3>1, <3>2, <3>3, ChildLeavesResults
  <2> QED BY <2>1, <2>2, <2>3, <2>4, <2>5
<1>3. CASE CommandEnds(i)
  <2>1. Types'
    BY <1>3 DEF CommandEnds, Ending
  <2>2. (NothingInherited /\ PrintedOnce)'
    BY <1>3 DEF CommandEnds, Ending
  <2>3. CallOrder'
    BY <1>3 DEF CommandEnds, Ending
  <2>4. ChildTells'
    BY <1>3 DEF CommandEnds, Ending
  <2>5. ErrorsReported'
    <3>1. child[i] \notin {"none", "reaped"} /\ UNCHANGED <<function, returned>>
      BY <1>3 DEF CommandEnds, Ending
    <3>2. child'[i] # "reaped"
      BY <1>3 DEF CommandEnds, Ending
    <3>3. \A j \in Call : j # i => child'[j] = child[j] /\ command'[j] = command[j]
      BY <1>3 DEF CommandEnds, Ending
    <3> QED BY <3>1, <3>2, <3>3, ChildLeavesResults
  <2> QED BY <2>1, <2>2, <2>3, <2>4, <2>5
<1>4. CASE ProgramCopyEnds(i)
  <2>1. Types'
    BY <1>4 DEF ProgramCopyEnds
  <2>2. (NothingInherited /\ PrintedOnce)'
    <3>1. written' = written
      BY <1>4 DEF ProgramCopyEnds
    <3> QED BY <1>4, <3>1 DEF ProgramCopyEnds
  <2>3. CallOrder'
    BY <1>4 DEF ProgramCopyEnds
  <2>4. ChildTells'
    BY <1>4 DEF ProgramCopyEnds
  <2>5. ErrorsReported'
    <3>1. child[i] \notin {"none", "reaped"} /\ UNCHANGED <<function, returned>>
      BY <1>4 DEF ProgramCopyEnds
    <3>2. child'[i] # "reaped"
      BY <1>4 DEF ProgramCopyEnds
    <3>3. \A j \in Call : j # i => child'[j] = child[j] /\ command'[j] = command[j]
      BY <1>4 DEF ProgramCopyEnds
    <3> QED BY <3>1, <3>2, <3>3, ChildLeavesResults
  <2> QED BY <2>1, <2>2, <2>3, <2>4, <2>5
<1>5. QED
  BY <1>1, <1>2, <1>3, <1>4 DEF ChildStep

\* The invariant holds in every behaviour.
THEOREM CallsInvariant == Spec => []Inv
<1>1. Init => Inv
  BY CallsAssumption DEF Init, Inv, Types, NothingInherited, CallOrder, ChildTells,
       ErrorsReported, Waited, PrintedOnce, Call, Status
<1>2. Inv /\ [Next]_vars => Inv'
  <2> SUFFICES ASSUME Inv, [Next]_vars PROVE Inv'
    OBVIOUS
  <2>1. CASE UNCHANGED vars
    BY <2>1 DEF vars, output, Inv, Types, NothingInherited, CallOrder, ChildTells,
         ErrorsReported, Waited, PrintedOnce
  <2>2. QED
    BY <2>1, ProgramKeepsInv, ChildKeepsInv DEF Next
<1>3. QED
  BY <1>1, <1>2, PTL DEF Spec

\* The errors the comment on do_exec lists make a call return false, and a command
\* that returned zero and was waited for makes it return true, however exec, fork
\* and waitpid fail and the children are scheduled.
THEOREM CallsReportErrors == Spec => []ErrorsReported
<1>1. Inv => ErrorsReported
  BY DEF Inv
<1>2. QED
  BY <1>1, CallsInvariant, PTL

\* What the program prints is written once, however many children it forks and
\* whichever of them exit through exit().
THEOREM CallsPrintOnce == Spec => []PrintedOnce
<1>1. Inv => PrintedOnce
  BY DEF Inv
<1>2. QED
  BY <1>1, CallsInvariant, PTL
=============================================================================
