---------------------------- MODULE Connections -----------------------------
(***************************************************************************)
(* The list of connections of aesdsocket and the end of the process        *)
(* (server/aesdsocket.c: main from the accept loop on, collect_complete_   *)
(* threads, signal_handler, cleanUpAndExit; the SLIST macros of queue.h).  *)
(*                                                                         *)
(* Two contexts run the code that changes the list: main, and the handler  *)
(* of a signal, which runs on top of the thread it interrupts (the victim) *)
(* and never returns to it.  A connection's struct is not allocated again. *)
(* One signal is delivered.  The locks inside syslog and free, which the   *)
(* handler takes too, are not modelled.                                    *)
(***************************************************************************)
CONSTANTS
  Conn,  \* the connections, each with its struct connection
  NULL

ASSUME ConnAssumption == {NULL, "main", "handler", "nobody"} \cap Conn = {}

VARIABLES
  first, next,       \* the list: slh_first and sle_next
  live,              \* structs that are allocated
  complete,          \* thread_complete
  thread,            \* the life of each connection's thread
  connections_lock,  \* the context that holds it, or Nobody
  should_exit,
  file_open,         \* file_fd is open (and the device node exists)
  pc, conn,          \* of main and of the handler: label and variable conn
  cleaning,          \* main has left its loop and runs cleanUpAndExit
  victim,            \* the thread a signal has interrupted, or Nobody
  process            \* "running", or how it ended

list == <<first, next, live>>
threads == <<complete, thread>>
control == <<pc, conn, cleaning, victim>>
vars == <<list, threads, connections_lock, should_exit, file_open, control,
          process>>

Context == {"main", "handler"}
Nobody == "nobody"

Init ==
  /\ first = NULL
  /\ next = [c \in Conn |-> NULL]
  /\ live = {}
  /\ complete = [c \in Conn |-> FALSE]
  /\ thread = [c \in Conn |-> "none"]
  /\ connections_lock = Nobody
  /\ should_exit = FALSE
  /\ file_open = TRUE
  /\ pc = [main |-> "accept", handler |-> "idle"]
  /\ conn = [k \in Context |-> NULL]
  /\ cleaning = FALSE
  /\ victim = Nobody
  /\ process = "running"

\* A context runs unless the process has ended or a signal interrupted it.
Runs(k, label) == process = "running" /\ victim # k /\ pc[k] = label
Goto(k, label) == pc' = [pc EXCEPT ![k] = label]

(* --------------------------- the threads ------------------------------ *)

\* The last two steps of handle_client_connection.
SetComplete(c) ==
  /\ process = "running" /\ victim # c /\ thread[c] = "running" /\ ~complete[c]
  /\ complete' = [complete EXCEPT ![c] = TRUE]
  /\ UNCHANGED <<list, thread, connections_lock, should_exit, file_open, control,
                 process>>

ThreadReturns(c) ==
  /\ process = "running" /\ victim # c /\ thread[c] = "running" /\ complete[c]
  /\ thread' = [thread EXCEPT ![c] = "ended"]
  /\ UNCHANGED <<list, complete, connections_lock, should_exit, file_open,
                 control, process>>

(* ------------------------- main's accept loop ------------------------- *)

\* accept and malloc.
Accept(c) ==
  /\ Runs("main", "accept") /\ thread[c] = "none" /\ c \notin live
  /\ live' = live \cup {c}
  /\ conn' = [conn EXCEPT !.main = c]
  /\ Goto("main", "create")
  /\ UNCHANGED <<first, next, threads, connections_lock, should_exit, file_open,
                 cleaning, victim, process>>

\* accept fails: the loop looks at should_exit again.
AcceptFails ==
  /\ Runs("main", "accept") /\ should_exit
  /\ Goto("main", "clean_up")
  /\ UNCHANGED <<list, threads, connections_lock, should_exit, file_open, conn,
                 cleaning, victim, process>>

\* pthread_create, which may fail.
Create ==
  LET c == conn["main"] IN
  /\ Runs("main", "create")
  /\ \/ /\ thread' = [thread EXCEPT ![c] = "running"]
        /\ Goto("main", "lock_insert")
        /\ UNCHANGED live
     \/ /\ live' = live \ {c}
        /\ thread' = [thread EXCEPT ![c] = "refused"]
        /\ Goto("main", IF should_exit THEN "clean_up" ELSE "accept")
  /\ UNCHANGED <<first, next, complete, connections_lock, should_exit, file_open,
                 conn, cleaning, victim, process>>

\* Mutant: the lock is not taken.
LockIsFreeAlways == TRUE

LockIsFree == connections_lock = Nobody

LockInsert ==
  /\ Runs("main", "lock_insert") /\ LockIsFree
  /\ connections_lock' = "main"
  /\ Goto("main", "insert")
  /\ UNCHANGED <<list, threads, should_exit, file_open, conn, cleaning, victim,
                 process>>

\* Mutant: the new element does not point to the rest of the list.
NextOfInsertedLost == NULL

NextOfInserted == first

\* SLIST_INSERT_HEAD and the unlock.
Insert ==
  LET c == conn["main"] IN
  /\ Runs("main", "insert")
  /\ next' = [next EXCEPT ![c] = NextOfInserted]
  /\ first' = c
  /\ connections_lock' = Nobody
  /\ Goto("main", "collect")
  /\ UNCHANGED <<live, threads, should_exit, file_open, conn, cleaning, victim,
                 process>>

(* ---------------------- collect_complete_threads ---------------------- *)

LockCollect(k) ==
  /\ Runs(k, "collect") /\ LockIsFree
  /\ connections_lock' = k
  /\ conn' = [conn EXCEPT ![k] = first]
  /\ Goto(k, "each")
  /\ UNCHANGED <<list, threads, should_exit, file_open, cleaning, victim, process>>

\* The loop's test of one element.
Each(k) ==
  LET c == conn[k] IN
  /\ Runs(k, "each") /\ c # NULL
  /\ IF complete[c] THEN Goto(k, "join") /\ UNCHANGED conn
     ELSE conn' = [conn EXCEPT ![k] = next[c]] /\ UNCHANGED pc
  /\ UNCHANGED <<list, threads, connections_lock, should_exit, file_open,
                 cleaning, victim, process>>

\* pthread_join waits for the thread; a thread that joins itself gets EDEADLK
\* and goes on.
Join(k) ==
  LET c == conn[k] IN
  /\ Runs(k, "join")
  /\ \/ thread[c] = "ended" /\ thread' = [thread EXCEPT ![c] = "joined"]
     \/ k = "handler" /\ victim = c /\ UNCHANGED thread
  /\ Goto(k, "remove")
  /\ UNCHANGED <<list, complete, connections_lock, should_exit, file_open, conn,
                 cleaning, victim, process>>

\* SLIST_REMOVE.
Remove(k) ==
  LET c == conn[k] IN
  /\ Runs(k, "remove")
  /\ IF first = c
     THEN first' = next[c] /\ UNCHANGED next
     ELSE /\ next' = [b \in Conn |-> IF next[b] = c /\ b \in live THEN next[c]
                                     ELSE next[b]]
          /\ UNCHANGED first
  /\ Goto(k, "free")
  /\ UNCHANGED <<live, threads, connections_lock, should_exit, file_open, conn,
                 cleaning, victim, process>>

Free(k) ==
  /\ Runs(k, "free")
  /\ live' = live \ {conn[k]}
  /\ Goto(k, "next")
  /\ UNCHANGED <<first, next, threads, connections_lock, should_exit, file_open,
                 conn, cleaning, victim, process>>

\* The step of SLIST_FOREACH after the loop body has freed the element: a read of
\* freed memory.  It finds the pointer as it was (glibc's free overwrites the
\* first two words of a block and keeps it for the thread that freed it; sle_next
\* is the last word of the struct), or the process is ended by the read.
StepFromFreed(k) ==
  /\ Runs(k, "next")
  /\ \/ conn' = [conn EXCEPT ![k] = next[@]] /\ Goto(k, "each") /\ UNCHANGED process
     \/ process' = "crashed" /\ UNCHANGED <<pc, conn>>
  /\ UNCHANGED <<list, threads, connections_lock, should_exit, file_open,
                 cleaning, victim>>

\* Mutant: the lock is not given back.
LockAfterCollectKept == connections_lock

LockAfterCollect == Nobody

\* The end of the list: unlock, and on with the accept loop or the exit.
Collected(k) ==
  /\ Runs(k, "each") /\ conn[k] = NULL
  /\ connections_lock' = LockAfterCollect
  /\ Goto(k, IF k = "handler" \/ cleaning THEN "cancel"
             ELSE IF should_exit THEN "clean_up" ELSE "accept")
  /\ UNCHANGED <<list, threads, should_exit, file_open, conn, cleaning, victim,
                 process>>

(* --------------------- signal_handler, cleanUpAndExit ------------------ *)

\* SIGINT or SIGTERM (one of them) interrupts main or a running thread.
Signal(v) ==
  /\ process = "running" /\ victim = Nobody
  /\ v \in {"main"} \cup {c \in Conn : thread[c] = "running"}
  /\ victim' = v
  /\ Goto("handler", "clean_up")
  /\ UNCHANGED <<list, threads, connections_lock, should_exit, file_open, conn,
                 cleaning, process>>

\* cleanUpAndExit up to the call of collect_complete_threads.
CleanUp(k) ==
  /\ Runs(k, "clean_up")
  /\ file_open' = FALSE
  /\ should_exit' = TRUE
  /\ cleaning' = (cleaning \/ k = "main")
  /\ Goto(k, "collect")
  /\ UNCHANGED <<list, threads, connections_lock, conn, victim, process>>

\* pthread_cancel of a timer thread that this build never creates, then exit.
Exit(k) ==
  /\ Runs(k, "cancel")
  /\ process' \in {"exited", "crashed"}
  /\ UNCHANGED <<list, threads, connections_lock, should_exit, file_open, control>>

(* ---------------------------- specification --------------------------- *)

MainStep == Create \/ LockInsert \/ Insert

CollectStep(k) ==
  \/ LockCollect(k) \/ Each(k) \/ Join(k) \/ Remove(k) \/ Free(k)
  \/ StepFromFreed(k) \/ Collected(k) \/ CleanUp(k) \/ Exit(k)

ThreadStep(c) == SetComplete(c) \/ ThreadReturns(c)

Next ==
  \/ AcceptFails \/ MainStep
  \/ \E k \in Context : CollectStep(k)
  \/ \E c \in Conn : Accept(c) \/ ThreadStep(c)
  \/ \E v \in Conn \cup {"main"} : Signal(v)

\* Every thread is scheduled.  Nothing is assumed of the clients: accept may
\* block for ever, and a thread need not come to the end of its conversation.
Fairness ==
  /\ WF_vars(MainStep)
  /\ \A k \in Context : WF_vars(CollectStep(k))
  /\ \A c \in Conn : WF_vars(ThreadReturns(c))

Spec == Init /\ [][Next]_vars /\ Fairness

-----------------------------------------------------------------------------
Critical == {"insert", "each", "join", "remove", "free", "next"}

\* Types of all variables; connections_lock is held by exactly the context that
\* is between a pthread_mutex_lock and its unlock.
TypeOK ==
  /\ first \in Conn \cup {NULL} /\ next \in [Conn -> Conn \cup {NULL}]
  /\ live \subseteq Conn
  /\ complete \in [Conn -> BOOLEAN]
  /\ thread \in [Conn -> {"none", "refused", "running", "ended", "joined"}]
  /\ connections_lock \in Context \cup {Nobody}
  /\ \A k \in Context : connections_lock = k <=> pc[k] \in Critical
  /\ conn \in [Context -> Conn \cup {NULL}]
  /\ victim \in Conn \cup {"main", Nobody}
  /\ process \in {"running", "exited", "crashed"}

\* The elements from c on, along the pointers nx: the least set that holds c and,
\* with an element, the one after it.
Closed(S, nx, c) == c \in S \cup {NULL} /\ \A y \in S : nx[y] \in S \cup {NULL}
Chain(nx, c) == {x \in Conn : \A S \in SUBSET Conn : Closed(S, nx, c) => x \in S}

\* Whenever connections_lock is free, the list holds exactly the threads that
\* were created and not yet collected, but for the one main is about to insert:
\* no thread drops out of the list unjoined, and no freed struct stays in it.
ListHoldsThreads ==
  connections_lock = Nobody =>
    Chain(next, first) = {c \in live : thread[c] \in {"running", "ended"}}
                           \ (IF pc["main"] = "lock_insert" THEN {conn["main"]} ELSE {})

\* A freed struct is used in one place only.  Its thread has set thread_complete
\* by then, and a walk over the list stands on a struct that is allocated while it
\* tests, joins, unlinks and frees it.  The exception is the step from the element
\* that the loop body has freed (aesdsocket.c:278-283): SLIST_FOREACH reads its
\* next pointer.  What that pointer was when the struct was freed is an element
\* that is still allocated, or the end of the list, so that the walk goes on in
\* the list as long as the memory has not changed.
FreedOnlySteppedFrom ==
  /\ \A c \in Conn : thread[c] = "running" /\ ~complete[c] => c \in live
  /\ \A k \in Context :
       /\ pc[k] \in {"each", "join", "remove", "free"} => conn[k] \in live \cup {NULL}
       /\ pc[k] = "next" => /\ conn[k] \in Conn \ live
                           /\ next[conn[k]] \in live \cup {NULL}

\* The handler waits for a lock that its own thread holds, or whose holder is
\* joining the thread that the handler interrupted.
Stuck ==
  /\ pc["handler"] = "collect"
  /\ connections_lock = "main"
  /\ victim = "main" \/ (pc["main"] = "join" /\ victim = conn["main"])

\* SIGINT or SIGTERM ends the process whatever main and the threads are doing,
\* with two exceptions, where nothing ends it: the signal interrupts main while
\* it holds connections_lock, or a thread that main is joining.
SignalEnds == victim # Nobody ~> process # "running" \/ Stuck
=============================================================================
