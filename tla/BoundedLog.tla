----------------------------- MODULE BoundedLog -----------------------------
(***************************************************************************)
(* What the circular buffer promises its caller: it keeps the last N       *)
(* entries added, oldest first, and hands back the memory of exactly the   *)
(* entry it dropped, so that the memory in use is that of the kept ones.   *)
(***************************************************************************)
EXTENDS Naturals, Sequences

CONSTANTS N, Ptr, Size

VARIABLES
  log,   \* the kept entries, oldest first
  live   \* the allocations that have not been freed

logVars == <<log, live>>

LogInit == log = << >> /\ live = {}

Keep(e) == IF Len(log) = N THEN Append(Tail(log), e) ELSE Append(log, e)

Dropped == IF Len(log) = N THEN {Head(log).buffptr} ELSE {}

LogNext ==
  \E p \in Ptr \ live, n \in Size :
    /\ log' = Keep([buffptr |-> p, size |-> n])
    /\ live' = (live \cup {p}) \ Dropped

LogSpec == LogInit /\ [][LogNext]_logVars
=============================================================================
