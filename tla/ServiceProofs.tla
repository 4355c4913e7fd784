--------------------------- MODULE ServiceProofs ----------------------------
(***************************************************************************)
(* What Service guarantees for any number of server processes.             *)
(***************************************************************************)
EXTENDS Service, TLAPS

\* What NodeStays rests on: a node that works belongs to the loaded
\* module; the load script has loaded it before it touches the node, and has
\* made the node when it comes to chmod, unless a server has removed it; and
\* nothing counts as loaded while a script is at work on the node.
NodeIsLoaded == node = "device" => loaded
ScriptOrder ==
  /\ script \in {"rm", "mknod", "chmod"} => loaded
  /\ script = "chmod" /\ quiet => node = "device"
  /\ load_ok => script \notin {"rm", "mknod", "chmod", "rm_after_rmmod"}

Inv == NodeIsLoaded /\ ScriptOrder /\ NodeStays

\* What file_fd may refer to.
FdType == file_fd \in [Proc -> {"none", "file", "device"}]

\* Every step of a script preserves the invariant.
LEMMA ScriptKeepsInv == ASSUME Inv, FdType, Script PROVE Inv' /\ FdType'
<1> USE DEF Inv, NodeIsLoaded, ScriptOrder, NodeStays, FdType,
      kernel, scripts, servers, history
<1>1. CASE Insmod
  BY <1>1 DEF Insmod
<1>2. CASE RemoveNode
  BY <1>2 DEF RemoveNode
<1>3. CASE Mknod
  BY <1>3 DEF Mknod, AfterFailure
<1>4. CASE Chmod
  BY <1>4 DEF Chmod
<1>5. CASE Rmmod
  BY <1>5 DEF Rmmod
<1>6. CASE RemoveStaleNode
  BY <1>6 DEF RemoveStaleNode
<1>7. CASE Stop
  BY <1>7 DEF Stop
<1>8. CASE \E p \in Proc : Start(p)
  BY <1>8 DEF Start, Launch
<1>9. QED
  BY <1>1, <1>2, <1>3, <1>4, <1>5, <1>6, <1>7, <1>8 DEF Script

\* Every step of a server, or one that ends it, preserves the invariant.
LEMMA ServerKeepsInv ==
  ASSUME Inv, FdType, NEW p \in Proc,
         ServerStep(p) \/ StartByHand(p) \/ Killed(p) \/ Hang(p)
  PROVE  Inv' /\ FdType'
<1> USE DEF Inv, NodeIsLoaded, ScriptOrder, NodeStays, FdType,
      kernel, scripts, history, Goto, CleanUpAndExit
<1>1. CASE OpenFile(p)
  BY <1>1 DEF OpenFile
<1>2. CASE Bind(p)
  BY <1>2 DEF Bind
<1>3. CASE Fork(p)
  BY <1>3 DEF Fork, ParentExits
<1>4. CASE ForkAgain(p)
  BY <1>4 DEF ForkAgain
<1>5. CASE Install(p)
  BY <1>5 DEF Install
<1>6. CASE SignalHandler(p)
  BY <1>6 DEF SignalHandler
<1>7. CASE CloseFile(p)
  BY <1>7 DEF CloseFile, FileAfterClose
<1>8. CASE RemoveFile(p)
  BY <1>8 DEF RemoveFile
<1>9. CASE StartByHand(p)
  BY <1>9 DEF StartByHand, Launch
<1>10. CASE Hang(p)
  BY <1>10 DEF Hang
<1>11. CASE Gone(p)
  BY <1>11 DEF Gone
<1>12. QED
  BY <1>1, <1>2, <1>3, <1>4, <1>5, <1>6, <1>7, <1>8, <1>9, <1>10, <1>11
    DEF ServerStep, Terminated, Killed, Exit

\* The invariant holds in every behaviour.
THEOREM ServiceInvariant == Spec => [](Inv /\ FdType)
<1>1. Init => Inv /\ FdType
  BY DEF Init, Inv, NodeIsLoaded, ScriptOrder, NodeStays, FdType
<1>2. ASSUME Inv /\ FdType, [Next]_vars PROVE (Inv /\ FdType)'
  <2>1. CASE UNCHANGED vars
    BY <1>2, <2>1 DEF Inv, NodeIsLoaded, ScriptOrder, NodeStays, FdType, vars, kernel, scripts, servers, history
  <2>2. QED
    BY <1>2, <2>1, ScriptKeepsInv, ServerKeepsInv DEF Next
<1>3. QED
  BY <1>1, <1>2, PTL DEF Spec

\* A load that succeeded has made /dev/aesdchar the device, and it stays so until
\* the module is unloaded or a server exits, for any number of servers.
THEOREM ServiceNodeStays == Spec => []NodeStays
<1>1. Inv => NodeStays
  BY DEF Inv
<1>2. QED
  BY <1>1, ServiceInvariant, PTL

-----------------------------------------------------------------------------
Phases == {"none", "open", "socket", "fork", "setsid", "install", "serve", "close",
           "remove", "exit", "hung"}

\* TypeOK is inductive together with the ranges of phase and file_fd.
Typed == TypeOK /\ phase \in [Proc -> Phases] /\ FdType

\* A step of a script keeps the types.
LEMMA ScriptTyped == ASSUME Typed, Script PROVE Typed'
<1> USE DEF Typed, TypeOK, FdType, Phases, Running, kernel, scripts, servers, history
<1>1. CASE Insmod
  BY <1>1 DEF Insmod
<1>2. CASE RemoveNode
  BY <1>2 DEF RemoveNode
<1>3. CASE Mknod
  BY <1>3 DEF Mknod, AfterFailure
<1>4. CASE Chmod
  BY <1>4 DEF Chmod
<1>5. CASE Rmmod
  BY <1>5 DEF Rmmod
<1>6. CASE RemoveStaleNode
  BY <1>6 DEF RemoveStaleNode
<1>7. CASE Stop
  BY <1>7 DEF Stop
<1>8. CASE \E p \in Proc : Start(p)
  BY <1>8 DEF Start, Launch
<1>9. QED
  BY <1>1, <1>2, <1>3, <1>4, <1>5, <1>6, <1>7, <1>8 DEF Script

\* A step of a server, or one that ends it, keeps the types: what the process held
\* is given up with it.
LEMMA ServerTyped ==
  ASSUME Typed, NEW p \in Proc,
         ServerStep(p) \/ StartByHand(p) \/ Killed(p) \/ Hang(p)
  PROVE  Typed'
<1> USE DEF Typed, TypeOK, FdType, Phases, Running, kernel, scripts, history, Goto,
      CleanUpAndExit, FirstOfCleanUp
<1>1. CASE OpenFile(p)
  BY <1>1 DEF OpenFile
<1>2. CASE Bind(p)
  BY <1>2 DEF Bind
<1>3. CASE Fork(p)
  BY <1>3 DEF Fork, ParentExits
<1>4. CASE ForkAgain(p)
  BY <1>4 DEF ForkAgain
<1>5. CASE Install(p)
  BY <1>5 DEF Install
<1>6. CASE SignalHandler(p)
  BY <1>6 DEF SignalHandler
<1>7. CASE CloseFile(p)
  BY <1>7 DEF CloseFile, FileAfterClose
<1>8. CASE RemoveFile(p)
  BY <1>8 DEF RemoveFile
<1>9. CASE StartByHand(p)
  BY <1>9 DEF StartByHand, Launch
<1>10. CASE Hang(p)
  BY <1>10 DEF Hang
<1>11. CASE Gone(p)
  BY <1>11 DEF Gone
<1>12. QED
  BY <1>1, <1>2, <1>3, <1>4, <1>5, <1>6, <1>7, <1>8, <1>9, <1>10, <1>11
    DEF ServerStep, Terminated, Killed, Exit

\* Types; the port, a pending signal, the handlers and a script's wait always
\* belong to a process that exists, and file_fd is open only from the open to the
\* close, for any number of servers and whenever one is killed.
THEOREM ServiceTypes == Spec => []TypeOK
<1>1. Init => Typed
  BY DEF Init, Typed, TypeOK, FdType, Phases, Running
<1>2. ASSUME Typed, [Next]_vars PROVE Typed'
  <2>1. CASE UNCHANGED vars
    BY <1>2, <2>1 DEF Typed, TypeOK, FdType, Running, vars, kernel, scripts, servers,
      history
  <2>2. QED
    BY <1>2, <2>1, ScriptTyped, ServerTyped DEF Next
<1>3. Typed => TypeOK
  BY DEF Typed
<1>4. QED
  BY <1>1, <1>2, <1>3, PTL DEF Spec
=============================================================================
