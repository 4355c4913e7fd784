----------------------------- MODULE Threading ------------------------------
(***************************************************************************)
(* start_thread_obtaining_mutex and threadfunc (examples/threading/        *)
(* threading.c): threads that wait, hold the caller's mutex for a while    *)
(* and report through their thread_data, which passes from the caller to   *)
(* the thread and, when it is joined, back to the caller.                  *)
(*                                                                         *)
(* The joiner is not part of the code: it does what the comments in        *)
(* threading.h say it can.  Waiting is the time between two steps.         *)
(***************************************************************************)
CONSTANTS
  Thread  \* the calls of start_thread_obtaining_mutex

ASSUME ThreadingAssumption == "nobody" \notin Thread

VARIABLES
  pc,       \* where each thread is
  mutex,    \* the thread that holds the caller's mutex, or Nobody
  data,     \* the thread_data structs that are allocated
  success,  \* thread_complete_success of each
  alive,    \* the process has not crashed
  held      \* history: the threads that got the mutex

vars == <<pc, mutex, data, success, alive, held>>
Nobody == "nobody"

Init ==
  /\ pc = [t \in Thread |-> "none"]
  /\ mutex = Nobody
  /\ data = {}
  /\ success \in [Thread -> BOOLEAN]
  /\ alive = TRUE
  /\ held = {}

\* Each step is one of a process that is still there.
At(t, label) == alive /\ pc[t] = label
Goto(t, label) == pc' = [pc EXCEPT ![t] = label]

\* Mutant: the caller frees the struct also when the thread was created.
FreedByStartAlways(t, created) == {t}

\* The caller frees the struct when there is no thread.
FreedByStart(t, created) == IF created THEN {} ELSE {t}

\* start_thread_obtaining_mutex: malloc and pthread_create.  Fresh memory holds
\* anything.  The result of malloc is not looked at: when there is no memory the
\* stores through it end the process.
Start(t) ==
  /\ At(t, "none")
  /\ \/ \E created \in BOOLEAN :
          /\ data' = (data \cup {t}) \ FreedByStart(t, created)
          /\ Goto(t, IF created THEN "begin" ELSE "refused")
          /\ UNCHANGED alive
     \/ alive' = FALSE /\ UNCHANGED <<pc, data>>
  /\ UNCHANGED <<mutex, success, held>>

\* Mutant: the result is not preset.
PresetNot(t) == success[t]

Preset(t) == FALSE

\* threadfunc: the result is preset to failure.
Begin(t) ==
  /\ At(t, "begin")
  /\ success' = [success EXCEPT ![t] = Preset(t)]
  /\ Goto(t, "lock")
  /\ UNCHANGED <<mutex, data, alive, held>>

\* Mutant: the thread does not wait for the mutex.
MutexIsFreeAlways == TRUE

MutexIsFree == mutex = Nobody

Lock(t) ==
  /\ At(t, "lock") /\ MutexIsFree
  /\ mutex' = t
  /\ held' = held \cup {t}
  /\ Goto(t, "unlock")
  /\ UNCHANGED <<data, success, alive>>

\* pthread_mutex_lock fails (the caller chooses the kind of mutex): its result
\* is not looked at, and the thread goes on.
LockFails(t) ==
  /\ At(t, "lock")
  /\ Goto(t, "unlock")
  /\ UNCHANGED <<mutex, data, success, alive, held>>

\* Mutant: the unlock is forgotten.
MutexAfterUnlockKept(t) == {mutex}

\* pthread_mutex_unlock.  That of a mutex which another thread holds is undefined:
\* a normal mutex of the C library in use is released all the same, one that
\* checks its owner is not.
MutexAfterUnlock(t) == IF mutex \in Thread \ {t} THEN {mutex, Nobody} ELSE {Nobody}

Unlock(t) ==
  /\ At(t, "unlock")
  /\ mutex' \in MutexAfterUnlock(t)
  /\ Goto(t, "report")
  /\ UNCHANGED <<data, success, alive, held>>

Report(t) ==
  /\ At(t, "report")
  /\ success' = [success EXCEPT ![t] = TRUE]
  /\ Goto(t, "returned")
  /\ UNCHANGED <<mutex, data, alive, held>>

\* pthread_join, then the joiner looks at the struct and frees it.
Join(t) ==
  /\ At(t, "returned")
  /\ data' = data \ {t}
  /\ Goto(t, "joined")
  /\ UNCHANGED <<mutex, success, alive, held>>

ThreadStep(t) == Begin(t) \/ Lock(t) \/ Unlock(t) \/ Report(t)

Next == \E t \in Thread : Start(t) \/ ThreadStep(t) \/ LockFails(t) \/ Join(t)

\* Threads are scheduled.  Each locks once, so a thread that waits gets the
\* mutex when the others are through: no fairness of the mutex is needed.  That
\* a lock fails is never relied on.
Spec == Init /\ [][Next]_vars /\ \A t \in Thread : WF_vars(ThreadStep(t))

-----------------------------------------------------------------------------
InThread == {"begin", "lock", "unlock", "report", "returned"}

\* Types; and what fresh memory holds is never taken for success: while a thread
\* is at work its result is failure.
TypeOK ==
  /\ pc \in [Thread -> InThread \cup {"none", "refused", "joined"}]
  /\ mutex \in Thread \cup {Nobody}
  /\ data \subseteq Thread /\ held \subseteq Thread
  /\ success \in [Thread -> BOOLEAN] /\ alive \in BOOLEAN
  /\ \A t \in Thread : pc[t] \in {"lock", "unlock", "report"} => ~success[t]

\* A struct lives as long as its thread: a thread never uses a freed struct, the
\* joiner always finds it, and every struct is freed, by the joiner or, when no
\* thread was created, by the caller ("returned by your thread so it can be
\* freed by the joiner thread").
DataLivesWithThread == \A t \in Thread : t \in data <=> pc[t] \in InThread

\* While no lock has failed the mutex is held by the one thread that is between
\* its lock and its unlock: threads exclude each other and each gives the mutex
\* back.  (Once a lock has failed nothing is left of this: the thread goes on, and
\* its unlock takes the mutex from a thread that holds it.)
NoLockFailed ==
  \A t \in Thread : pc[t] \in {"unlock", "report", "returned", "joined"} => t \in held
HoldsUntilUnlock == NoLockFailed => \A t \in Thread : mutex = t <=> pc[t] = "unlock"

\* Every thread that is started returns, however the others use the mutex and
\* whichever locks fail, unless a call without memory ends the process.
ThreadsReturn == \A t \in Thread : pc[t] = "begin" ~> pc[t] = "returned" \/ ~alive
=============================================================================
