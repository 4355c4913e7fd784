-------------------------- MODULE ThreadingProofs ---------------------------
(***************************************************************************)
(* What Threading guarantees for any number of threads.                    *)
(***************************************************************************)
EXTENDS Threading, TLAPS

\* The inductive invariant: a thread has had the mutex only if it is past its lock.
\* Without this a lock that fails could go unnoticed.
HeldIsPast == \A t \in held : pc[t] \in {"unlock", "report", "returned", "joined"}
Inv == TypeOK /\ DataLivesWithThread /\ HoldsUntilUnlock /\ HeldIsPast

\* Types, the life of the structs and the holder of the mutex are preserved by
\* every step of threadfunc, its caller and the joiner.
LEMMA StepKeepsInv == ASSUME Inv, [Next]_vars PROVE Inv'
<1> USE ThreadingAssumption DEF Inv, TypeOK, DataLivesWithThread, InThread,
      HoldsUntilUnlock, NoLockFailed, HeldIsPast, Nobody, Goto, At
<1>1. ASSUME NEW t \in Thread, Start(t) PROVE Inv'
  BY <1>1 DEF Start, FreedByStart
<1>2. ASSUME NEW t \in Thread, Begin(t) PROVE Inv'
  BY <1>2 DEF Begin, Preset
<1>3. ASSUME NEW t \in Thread, Lock(t) PROVE Inv'
  BY <1>3 DEF Lock, MutexIsFree
<1>4. ASSUME NEW t \in Thread, LockFails(t) PROVE Inv'
  BY <1>4 DEF LockFails
<1>5. ASSUME NEW t \in Thread, Unlock(t) PROVE Inv'
  BY <1>5 DEF Unlock, MutexAfterUnlock
<1>6. ASSUME NEW t \in Thread, Report(t) PROVE Inv'
  BY <1>6 DEF Report
<1>7. ASSUME NEW t \in Thread, Join(t) PROVE Inv'
  BY <1>7 DEF Join
<1>8. CASE UNCHANGED vars
  BY <1>8 DEF vars
<1>9. QED
  BY <1>1, <1>2, <1>3, <1>4, <1>5, <1>6, <1>7, <1>8 DEF Next, ThreadStep

\* The invariant holds in every behaviour, for any set of threads.
THEOREM ThreadingInvariant == Spec => []Inv
<1>1. Init => Inv
  BY ThreadingAssumption DEF Init, Inv, TypeOK, DataLivesWithThread, InThread,
    HoldsUntilUnlock, NoLockFailed, HeldIsPast, Nobody
<1>2. Inv /\ [Next]_vars => Inv'
  BY StepKeepsInv
<1>3. QED
  BY <1>1, <1>2, PTL DEF Spec

\* No thread uses a freed thread_data, and every one is freed.
THEOREM ThreadingDataSafe == Spec => []DataLivesWithThread
<1>1. Inv => DataLivesWithThread
  BY DEF Inv
<1>2. QED
  BY <1>1, ThreadingInvariant, PTL

\* As long as no pthread_mutex_lock has failed, the mutex belongs to the thread
\* between its lock and its unlock, and to nobody else.
THEOREM ThreadingMutexSafe == Spec => []HoldsUntilUnlock
<1>1. Inv => HoldsUntilUnlock
  BY DEF Inv
<1>2. QED
  BY <1>1, ThreadingInvariant, PTL

\* Types; a thread that has not come to its end does not report success.
THEOREM ThreadingTypes == Spec => []TypeOK
<1>1. Inv => TypeOK
  BY DEF Inv
<1>2. QED
  BY <1>1, ThreadingInvariant, PTL
=============================================================================
