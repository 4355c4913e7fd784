------------------------------ MODULE Service -------------------------------
(***************************************************************************)
(* How driver and server are run: the scripts aesdchar_load, aesdchar_     *)
(* unload and the two start-stop scripts, the start of aesdsocket (main up *)
(* to its accept loop, deamonize) and its way out (cleanUpAndExit).  They  *)
(* share the path /dev/aesdchar, which the scripts make a device node and  *)
(* the server opens with O_CREAT and removes when it exits.                *)
(*                                                                         *)
(* Scripts run one at a time, concurrently with the servers; a server can  *)
(* also be started by hand.  What a server does while it serves is in      *)
(* AesdSocket, how its exit may hang in Connections.                       *)
(***************************************************************************)
CONSTANTS
  Proc,    \* identities for server processes, used again when one has ended
  MayFail  \* which of the steps below may fail for want of resources

ASSUME ServiceAssumption == MayFail \subseteq {"mknod", "socket", "fork"}

VARIABLES
  loaded,     \* the module is loaded
  node,       \* what /dev/aesdchar is
  script,     \* the next command of the script that is running, or "idle"
  waiting,    \* the server that start-stop-daemon waits for, or Nobody
  phase,      \* where each server is
  file_fd,    \* what its file_fd refers to
  port,       \* the server whose socket is bound, or Nobody
  pending,    \* servers with a SIGTERM that is not delivered
  installed,  \* servers that have installed their signal handlers
  load_ok,    \* history: a load has succeeded and nothing was unloaded since
  quiet       \* history: no server has removed the path since that load began

kernel == <<loaded, node>>
scripts == <<script, waiting>>
servers == <<phase, file_fd, port, pending, installed>>
history == <<load_ok, quiet>>
vars == <<kernel, scripts, servers, history>>

Nobody == "nobody"
Running == {p \in Proc : phase[p] # "none"}

\* After boot; on a /dev that is kept on disk the path may be left from before:
\* a regular file, or a node for a device that no longer exists.
Init ==
  /\ loaded = FALSE
  /\ node \in {"none", "file", "stale"}
  /\ script = "idle" /\ waiting = Nobody
  /\ phase = [p \in Proc |-> "none"]
  /\ file_fd = [p \in Proc |-> "none"]
  /\ port = Nobody
  /\ pending = {} /\ installed = {}
  /\ load_ok = FALSE /\ quiet = TRUE

(* ----------------------------- aesdchar_load -------------------------- *)

\* insmod, or modprobe where the script finds no module beside it.  When this
\* fails the script exits and nothing has changed: so it is with insmod, not with
\* modprobe, when the module is already loaded.  A new device may get the major
\* number that an old node has.
Insmod ==
  /\ script = "idle"
  /\ loaded' = TRUE
  /\ node' \in {node} \cup (IF node = "stale" /\ ~loaded THEN {"device"} ELSE {})
  /\ script' = "rm"
  /\ load_ok' = FALSE /\ quiet' = TRUE
  /\ UNCHANGED <<waiting, servers>>

RemoveNode ==
  /\ script = "rm"
  /\ node' = "none"
  /\ script' = "mknod"
  /\ UNCHANGED <<loaded, waiting, servers, history>>

\* Mutant: the script goes on (no set -e).
AfterFailureGoOn == "chmod"

\* set -e
AfterFailure == "idle"

\* mknod fails when a server has created the path in the meantime.
Mknod ==
  /\ script = "mknod"
  /\ \/ node = "none" /\ node' = "device" /\ script' = "chmod"
     \/ /\ node # "none" \/ "mknod" \in MayFail
        /\ script' = AfterFailure
        /\ UNCHANGED node
  /\ UNCHANGED <<loaded, waiting, servers, history>>

\* chgrp and chmod, which fail when there is nothing to change.
Chmod ==
  /\ script = "chmod"
  /\ script' = "idle"
  /\ load_ok' = (node # "none")
  /\ UNCHANGED <<kernel, waiting, servers, quiet>>

(* ---------------------------- aesdchar_unload ------------------------- *)

\* An open file holds a reference to the module (owner in aesd_fops).
ModuleBusy == \E p \in Proc : file_fd[p] = "device"

\* rmmod || exit 1
Rmmod ==
  /\ script = "idle" /\ loaded /\ ~ModuleBusy
  /\ loaded' = FALSE
  /\ node' = IF node = "device" THEN "stale" ELSE node
  /\ script' = "rm_after_rmmod"
  /\ load_ok' = FALSE
  /\ UNCHANGED <<waiting, servers, quiet>>

RemoveStaleNode ==
  /\ script = "rm_after_rmmod"
  /\ node' = "none"
  /\ script' = "idle"
  /\ UNCHANGED <<loaded, waiting, servers, history>>

(* ------------------ aesdsocket-start-stop, and by hand ---------------- *)

Launch(p) ==
  /\ phase[p] = "none"
  /\ phase' = [phase EXCEPT ![p] = "open"]
  /\ UNCHANGED <<kernel, file_fd, port, pending, installed, history>>

\* start-stop-daemon -S -n: nothing happens when a process has that name.  The
\* script waits for the process it starts, until that one has forked.
Start(p) ==
  /\ script = "idle" /\ Running = {}
  /\ script' = "start" /\ waiting' = p
  /\ Launch(p)

\* aesdsocket without -d, from a shell.
StartByHand(p) == Launch(p) /\ UNCHANGED scripts

\* start-stop-daemon -K -n sends SIGTERM and does not wait.
Stop ==
  /\ script = "idle" /\ Running # {}
  /\ pending' = pending \cup Running
  /\ UNCHANGED <<kernel, scripts, phase, file_fd, port, installed, history>>

(* -------------------- main up to the accept loop ---------------------- *)

Goto(p, label) == phase' = [phase EXCEPT ![p] = label]

\* Mutant: the threads are collected before the file is closed.
FirstOfCleanUpLast == "exit"

\* The first step of cleanUpAndExit.
FirstOfCleanUp == "close"

CleanUpAndExit(p) == Goto(p, FirstOfCleanUp)

\* open with O_CREAT: a missing path becomes a regular file.
OpenFile(p) ==
  /\ phase[p] = "open"
  /\ \/ /\ node \in {"none", "file"}
        /\ node' = "file"
        /\ file_fd' = [file_fd EXCEPT ![p] = "file"]
        /\ Goto(p, "socket")
     \/ /\ node = "device"
        /\ file_fd' = [file_fd EXCEPT ![p] = "device"]
        /\ Goto(p, "socket")
        /\ UNCHANGED node
     \/ /\ node = "stale"
        /\ CleanUpAndExit(p)
        /\ UNCHANGED <<node, file_fd>>
  /\ UNCHANGED <<loaded, scripts, port, pending, installed, history>>

\* socket, setsockopt, bind and listen.
Bind(p) ==
  /\ phase[p] = "socket"
  /\ \/ /\ port = Nobody
        /\ port' = p
        /\ Goto(p, IF waiting = p THEN "fork" ELSE "install")
     \/ /\ port # Nobody \/ "socket" \in MayFail
        /\ CleanUpAndExit(p)
        /\ UNCHANGED port
  /\ UNCHANGED <<kernel, scripts, file_fd, pending, installed, history>>

\* Mutant: the parent waits for its child.
ParentStays == UNCHANGED scripts

\* The parent of the first fork exits, which ends the start script.
ParentExits == script' = "idle" /\ waiting' = Nobody

\* deamonize: the child is the server.
Fork(p) ==
  /\ phase[p] = "fork"
  /\ \/ Goto(p, "setsid") /\ ParentExits
     \/ /\ "fork" \in MayFail
        /\ CleanUpAndExit(p)
        /\ UNCHANGED scripts
  /\ UNCHANGED <<kernel, file_fd, port, pending, installed, history>>

\* setsid and the second fork: a signal sent to the parent is lost on the child.
ForkAgain(p) ==
  /\ phase[p] = "setsid"
  /\ \/ /\ Goto(p, "install")
        /\ pending' = pending \ {p}
     \/ /\ "fork" \in MayFail
        /\ CleanUpAndExit(p)
        /\ UNCHANGED pending
  /\ UNCHANGED <<kernel, scripts, file_fd, port, installed, history>>

\* The handlers for SIGINT and SIGTERM; then the server accepts connections.
Install(p) ==
  /\ phase[p] = "install"
  /\ installed' = installed \cup {p}
  /\ Goto(p, "serve")
  /\ UNCHANGED <<kernel, scripts, file_fd, port, pending, history>>

(* ------------------- signals and cleanUpAndExit ----------------------- *)

\* The process ends: the kernel closes its files, and its socket, which no
\* other code does (main hides the global server_fd behind a local one).
Gone(p) ==
  /\ Goto(p, "none")
  /\ file_fd' = [file_fd EXCEPT ![p] = "none"]
  /\ port' = IF port = p THEN Nobody ELSE port
  /\ pending' = pending \ {p} /\ installed' = installed \ {p}
  /\ waiting' = IF waiting = p THEN Nobody ELSE waiting
  /\ script' = IF waiting = p THEN "idle" ELSE script
  /\ UNCHANGED <<kernel, history>>

\* SIGTERM while the server serves.
SignalHandler(p) ==
  /\ p \in pending /\ phase[p] = "serve"
  /\ pending' = pending \ {p}
  /\ CleanUpAndExit(p)
  /\ UNCHANGED <<kernel, scripts, file_fd, port, installed, history>>

\* SIGTERM before the handlers are installed; during a handler it stays blocked.
Terminated(p) == p \in pending \ installed /\ Gone(p)

\* A process can be killed at any time (SIGPIPE, see AesdSocket; SIGKILL).
Killed(p) == phase[p] # "none" /\ Gone(p)

\* Mutant: file_fd is still in use after the close.
FileAfterCloseKept(p) == file_fd[p]

FileAfterClose(p) == "none"

CloseFile(p) ==
  /\ phase[p] = "close"
  /\ file_fd' = [file_fd EXCEPT ![p] = FileAfterClose(p)]
  /\ Goto(p, IF file_fd[p] = "none" THEN "exit" ELSE "remove")
  /\ UNCHANGED <<kernel, scripts, port, pending, installed, history>>

\* remove(file_path), whatever it is by now and whoever uses it.
RemoveFile(p) ==
  /\ phase[p] = "remove"
  /\ node' = "none"
  /\ quiet' = FALSE
  /\ Goto(p, "exit")
  /\ UNCHANGED <<loaded, scripts, file_fd, port, pending, installed, load_ok>>

\* collect_complete_threads and exit ...
Exit(p) == phase[p] = "exit" /\ Gone(p)

\* ... but the handler may wait for connections_lock for ever (Stuck in
\* Connections).
Hang(p) ==
  /\ phase[p] = "exit" /\ p \in installed
  /\ Goto(p, "hung")
  /\ UNCHANGED <<kernel, scripts, file_fd, port, pending, installed, history>>

(* ---------------------------- specification --------------------------- *)

Script ==
  \/ Insmod \/ RemoveNode \/ Mknod \/ Chmod \/ Rmmod \/ RemoveStaleNode \/ Stop
  \/ \E p \in Proc : Start(p)

ServerStep(p) ==
  \/ OpenFile(p) \/ Bind(p) \/ Fork(p) \/ ForkAgain(p) \/ Install(p)
  \/ SignalHandler(p) \/ Terminated(p) \/ CloseFile(p) \/ RemoveFile(p) \/ Exit(p)

Next ==
  Script \/ \E p \in Proc : ServerStep(p) \/ StartByHand(p) \/ Killed(p) \/ Hang(p)

\* Server processes are scheduled.  Nobody has to run a script or finish one,
\* and nothing is killed by necessity.
Spec == Init /\ [][Next]_vars /\ \A p \in Proc : WF_vars(ServerStep(p))

-----------------------------------------------------------------------------
\* Types; the process whose socket is bound exists, and file_fd is open only
\* from the open to the close.
TypeOK ==
  /\ loaded \in BOOLEAN /\ load_ok \in BOOLEAN /\ quiet \in BOOLEAN
  /\ node \in {"none", "file", "stale", "device"}
  /\ script \in {"idle", "rm", "mknod", "chmod", "rm_after_rmmod", "start"}
  /\ port \in Running \cup {Nobody} /\ waiting \in Running \cup {Nobody}
  /\ pending \subseteq Running /\ installed \subseteq Running
  /\ \A p \in Proc :
       phase[p] \in {"none", "open", "remove", "exit", "hung"} => file_fd[p] = "none"

\* A load that succeeds makes /dev/aesdchar the device, whatever was there
\* before and although servers create and use the path meanwhile; and it stays
\* the device until it is unloaded or a server exits.  (cleanUpAndExit removes
\* the node, also when a second server fails to start beside a running one: the
\* next server then logs to a regular file.)
NodeStays == load_ok /\ quiet => loaded /\ node = "device"

\* The start script ends, so that the boot goes on: it waits without a limit for
\* the process it has started, which either forks or ends, whatever the path is,
\* whoever has the port, and if a signal or a failing fork comes first.
StartEnds == script = "start" ~> script = "idle"

\* A stopped server lets go of the device, so that the module can be unloaded:
\* whether the signal finds it starting, serving or exiting, and even if its
\* exit then hangs.  The exception is a signal that arrives before the second
\* fork of deamonize: it may end the parent only.
StopFreesDevice ==
  \A p \in Proc : p \in pending /\ phase[p] # "setsid" ~> file_fd[p] = "none"
=============================================================================
