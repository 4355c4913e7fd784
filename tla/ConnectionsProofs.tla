------------------------- MODULE ConnectionsProofs --------------------------
(***************************************************************************)
(* What the list of connections guarantees for any number of them, with a  *)
(* signal that comes at any time.                                          *)
(***************************************************************************)
EXTENDS Connections, TLAPS

\* The elements of the list.
Listed == Chain(next, first)

MainLabels == {"accept", "create", "lock_insert", "insert", "collect", "each", "join",
               "remove", "free", "next", "clean_up", "cancel"}
HandlerLabels == {"idle", "clean_up", "collect", "each", "join", "remove", "free",
                  "next", "cancel"}

\* The handler runs once, for one signal.
Types ==
  /\ TypeOK
  /\ pc \in [Context -> MainLabels \cup HandlerLabels]
  /\ pc["main"] \in MainLabels /\ pc["handler"] \in HandlerLabels
  /\ victim = Nobody <=> pc["handler"] = "idle"

\* The connection that main has accepted and not yet inserted.
NewConnection ==
  /\ pc["main"] = "create" => conn["main"] \in live /\ thread[conn["main"]] = "none"
  /\ pc["main"] \in {"lock_insert", "insert"} =>
       conn["main"] \in live /\ thread[conn["main"]] \in {"running", "ended"}

Started == {"running", "ended", "joined"}

\* The struct that is out of the list and is freed next.
Unlinked(c) == \E k \in Context : pc[k] = "free" /\ conn[k] = c

\* The list is that of the threads that were created and whose struct is not freed,
\* the joined one that is about to be removed included.
ListIsThreads ==
  Listed = {c \in live : thread[c] \in Started /\ ~Unlinked(c)}
             \ (IF pc["main"] \in {"lock_insert", "insert"} THEN {conn["main"]} ELSE {})

JoinedIsRemoved ==
  \A c \in live : thread[c] = "joined" =>
    \E k \in Context : pc[k] \in {"remove", "free"} /\ conn[k] = c

\* No element comes after itself.
Acyclic == \A c \in Listed : c \notin Chain(next, next[c])

\* A walk over the list is at an element of it, and joins and removes only threads
\* that have set thread_complete.
Walk ==
  \A k \in Context :
    /\ pc[k] = "each" => conn[k] \in Listed \cup {NULL}
    /\ pc[k] \in {"join", "remove"} => conn[k] \in Listed /\ complete[conn[k]]
    /\ pc[k] \in {"free", "next"} =>
         /\ conn[k] \in Conn /\ complete[conn[k]] /\ thread[conn[k]] \in Started
         /\ next[conn[k]] \in Listed \cup {NULL}
         /\ pc["main"] \in {"lock_insert", "insert"} => conn[k] # conn["main"]
    /\ pc[k] = "free" => conn[k] \in live
    /\ pc[k] = "next" => conn[k] \notin live

ThreadUsesLive == \A c \in Conn : thread[c] = "running" /\ ~complete[c] => c \in live

Inv ==
  /\ Types /\ NewConnection /\ ListIsThreads /\ JoinedIsRemoved
  /\ Acyclic /\ Walk /\ ThreadUsesLive

(* ------------------------- reachable elements ------------------------- *)

Pointers == [Conn -> Conn \cup {NULL}]

\* Chain is the least closed set ...
LEMMA ChainLeast ==
  ASSUME NEW nx, NEW c, NEW S \in SUBSET Conn, Closed(S, nx, c)
  PROVE  Chain(nx, c) \subseteq S
BY DEF Chain

\* ... and is one itself.
LEMMA ChainClosed ==
  ASSUME NEW nx \in Pointers, NEW c \in Conn \cup {NULL}
  PROVE  Chain(nx, c) \subseteq Conn /\ Closed(Chain(nx, c), nx, c)
<1>1. c \in Chain(nx, c) \cup {NULL}
  BY DEF Chain, Closed
<1>2. ASSUME NEW y \in Chain(nx, c) PROVE nx[y] \in Chain(nx, c) \cup {NULL}
  <2>1. y \in Conn /\ nx[y] \in Conn \cup {NULL}
    BY <1>2 DEF Chain, Pointers
  <2>2. ASSUME NEW S \in SUBSET Conn, Closed(S, nx, c), nx[y] # NULL PROVE nx[y] \in S
    BY <1>2, <2>2 DEF Chain, Closed
  <2>3. QED
    BY <2>1, <2>2 DEF Chain
<1>3. QED
  BY <1>1, <1>2 DEF Closed, Chain

\* An element and the ones after it.
LEMMA ChainStep ==
  ASSUME NEW nx \in Pointers, NEW c \in Conn
  PROVE  Chain(nx, c) = {c} \cup Chain(nx, nx[c])
<1>1. c # NULL /\ nx[c] \in Conn \cup {NULL}
  BY ConnAssumption DEF Pointers
<1>2. /\ Closed(Chain(nx, c), nx, c) /\ Chain(nx, c) \subseteq Conn
      /\ Closed(Chain(nx, nx[c]), nx, nx[c]) /\ Chain(nx, nx[c]) \subseteq Conn
  BY <1>1, ChainClosed
<1>3. Closed({c} \cup Chain(nx, nx[c]), nx, c)
  BY <1>2 DEF Closed
<1>4. c \in Chain(nx, c) /\ Closed(Chain(nx, c), nx, nx[c])
  BY <1>1, <1>2 DEF Closed
<1>5. QED
  BY <1>2, <1>3, <1>4, ChainLeast

\* SLIST_INSERT_HEAD of a new element: the list is it and the old list.
LEMMA ChainInsert ==
  ASSUME NEW nx \in Pointers, NEW f \in Conn \cup {NULL}, NEW c \in Conn,
         c \notin Chain(nx, f),
         \A y \in Chain(nx, f) : y \notin Chain(nx, nx[y]),
         NEW nx2 \in Pointers, nx2[c] = f, \A y \in Conn \ {c} : nx2[y] = nx[y]
  PROVE  /\ Chain(nx2, c) = {c} \cup Chain(nx, f)
         /\ \A y \in Chain(nx2, c) : y \notin Chain(nx2, nx2[y])
<1> DEFINE L == Chain(nx, f)
<1>1. /\ nx2 \in Pointers /\ nx2[c] = f /\ c # NULL
      /\ \A y \in Conn : y # c => nx2[y] = nx[y]
  BY ConnAssumption DEF Pointers
<1>2. L \subseteq Conn /\ Closed(L, nx, f) /\ c \notin L
  BY ChainClosed
<1> HIDE DEF L
<1>3. Chain(nx2, c) \subseteq {c} \cup L
  <2>1. Closed({c} \cup L, nx2, c)
    BY <1>1, <1>2 DEF Closed
  <2>2. QED
    BY <2>1, <1>2, ChainLeast
<1>4. {c} \cup L \subseteq Chain(nx2, c)
  <2>1. Closed(Chain(nx2, c), nx2, c) /\ Chain(nx2, c) \subseteq Conn
    BY <1>1, ChainClosed
  <2>2. Closed(Chain(nx2, c) \cap L, nx, f)
    BY <2>1, <1>1, <1>2 DEF Closed
  <2>3. L \subseteq Chain(nx2, c)
    BY <2>2, <1>2, ChainLeast DEF L
  <2>4. QED
    BY <2>1, <2>3, <1>1 DEF Closed
<1>5. c \notin Chain(nx2, f)
  <2>1. Closed(L, nx2, f)
    BY <1>1, <1>2 DEF Closed
  <2>2. QED
    BY <2>1, <1>2, ChainLeast
<1>6. ASSUME NEW y \in L PROVE y \notin Chain(nx2, nx[y])
  <2>1. y \in Conn /\ nx[y] \in L \cup {NULL} /\ nx[y] \in Conn \cup {NULL}
    BY <1>2 DEF Closed
  <2>2. /\ Closed(Chain(nx, nx[y]), nx, nx[y])
        /\ Chain(nx, nx[y]) \subseteq Conn
    BY <2>1, ChainClosed
  <2>3. Chain(nx, nx[y]) \subseteq L
    <3>1. Closed(L, nx, nx[y])
      BY <2>1, <1>2 DEF Closed
    <3>2. QED
      BY <3>1, <1>2, ChainLeast
  <2>4. Closed(Chain(nx, nx[y]), nx2, nx[y])
    BY <2>2, <2>3, <1>1, <1>2 DEF Closed
  <2>5. Chain(nx2, nx[y]) \subseteq Chain(nx, nx[y])
    BY <2>2, <2>4, ChainLeast
  <2>6. QED
    BY <2>5 DEF L
<1>7. QED
  BY <1>1, <1>2, <1>3, <1>4, <1>5, <1>6 DEF L

\* SLIST_REMOVE of c from the list nx, f, of which lv are allocated ...
Unlinks(nx, f, c, lv, nx2, f2) ==
  IF f = c THEN f2 = nx[c] /\ nx2 = nx
  ELSE /\ nx2 = [b \in Conn |-> IF nx[b] = c /\ b \in lv THEN nx[c] ELSE nx[b]]
       /\ f2 = f

\* ... and what it has to leave.
IsUnlinked(nx, f, c, nx2, f2) ==
  /\ Chain(nx2, f2) = Chain(nx, f) \ {c}
  /\ nx2[c] = nx[c] /\ nx[c] \in Chain(nx2, f2) \cup {NULL}
  /\ nx2 \in Pointers /\ f2 \in Conn \cup {NULL}
  /\ \A y \in Chain(nx2, f2) : y \notin Chain(nx2, nx2[y])

\* SLIST_REMOVE of an element: the list is the old one without it, and the pointer
\* of the removed element, which is not written, still leads into the list.
LEMMA ChainRemove ==
  ASSUME NEW nx \in Pointers, NEW f \in Conn \cup {NULL}, NEW c \in Chain(nx, f),
         \A y \in Chain(nx, f) : y \notin Chain(nx, nx[y]),
         NEW lv, Chain(nx, f) \subseteq lv, NEW nx2, NEW f2, Unlinks(nx, f, c, lv, nx2, f2)
  PROVE  IsUnlinked(nx, f, c, nx2, f2)
<1> USE DEF Unlinks, IsUnlinked
<1> DEFINE L == Chain(nx, f)
<1>1. L \subseteq Conn /\ Closed(L, nx, f) /\ c \in Conn /\ c # NULL
  BY ChainClosed, ConnAssumption
<1>2. nx[c] \in L \cup {NULL} /\ \A y \in Conn : nx[y] \in Conn \cup {NULL}
  BY <1>1 DEF Closed, Pointers
<1>3. nx2 \in Pointers /\ f2 \in Conn \cup {NULL}
  BY <1>1, <1>2 DEF Pointers
<1>4. \A y \in Conn : nx2[y] = nx[y] \/ (nx[y] = c /\ nx2[y] = nx[c])
  OBVIOUS
<1>5. \A y \in L : y # c => nx2[y] # c
  <2> TAKE y \in L
  <2>1. CASE f # c
    <3>1. c \in Chain(nx, nx[c]) \/ nx[c] # c
      BY <1>1, <1>2, ChainStep
    <3>2. nx[c] # c
      BY <3>1
    <3>3. QED
      BY <2>1, <3>2, <1>1
  <2>2. CASE f = c
    <3>1. SUFFICES ASSUME y # c, nx[y] = c PROVE FALSE
      BY <2>2
    <3>2. y \in Chain(nx, nx[c])
      BY <2>2, <3>1, <1>1, ChainStep
    <3>3. Closed(Chain(nx, nx[c]), nx, nx[c])
      BY <1>1, <1>2, ChainClosed
    <3>4. QED
      BY <3>1, <3>2, <3>3, <1>1 DEF Closed
  <2>3. QED
    BY <2>1, <2>2
<1>6. nx[c] # c
  BY <1>1, <1>2, ChainStep
<1>7. f2 \in (L \ {c}) \cup {NULL}
  BY <1>1, <1>2, <1>6 DEF Closed
<1> HIDE DEF L
<1>8. Chain(nx2, f2) \subseteq L \ {c}
  <2>1. Closed(L \ {c}, nx2, f2)
    BY <1>1, <1>2, <1>4, <1>5, <1>7 DEF Closed
  <2>2. QED
    BY <2>1, <1>1, ChainLeast
<1>9. L \ {c} \subseteq Chain(nx2, f2)
  <2> DEFINE S == Chain(nx2, f2)
  <2>1. Closed(S, nx2, f2) /\ S \subseteq Conn
    BY <1>3, ChainClosed
  <2>2. nx[c] \in S \cup {NULL}
    <3>1. CASE f = c
      BY <3>1, <2>1 DEF Closed
    <3>2. CASE f # c
      <4>1. PICK y \in S \cap L : nx[y] = c
        <5>1. SUFFICES ASSUME \A y \in S \cap L : nx[y] # c PROVE FALSE
          OBVIOUS
        <5>2. Closed((S \cap L) \ {c}, nx, f)
          BY <5>1, <3>2, <2>1, <1>1, <1>4 DEF Closed
        <5>3. L \subseteq (S \cap L) \ {c}
          BY <5>2, <1>1, ChainLeast DEF L
        <5>4. QED
          BY <5>3 DEF L
      <4>2. nx2[y] = nx[c]
        BY <4>1, <3>2, <1>1 DEF L
      <4>3. QED
        BY <4>1, <4>2, <2>1 DEF Closed
    <3>3. QED
      BY <3>1, <3>2
  <2>3. Closed(S \cup {c}, nx, f)
    BY <2>1, <2>2, <1>1, <1>4 DEF Closed
  <2>4. L \subseteq S \cup {c}
    BY <2>1, <2>3, <1>1, ChainLeast DEF L
  <2>5. QED
    BY <2>4
<1>10. ASSUME NEW z \in Conn \cup {NULL} PROVE Chain(nx2, z) \subseteq Chain(nx, z)
  <2>1. Closed(Chain(nx, z), nx, z) /\ Chain(nx, z) \subseteq Conn
    BY ChainClosed
  <2>2. Closed(Chain(nx, z), nx2, z)
    BY <2>1, <1>1, <1>4 DEF Closed
  <2>3. QED
    BY <2>1, <2>2, ChainLeast
<1>11. ASSUME NEW y \in L PROVE y \notin Chain(nx2, nx2[y])
  <2>1. y \in Conn /\ y \notin Chain(nx, nx[y])
    BY <1>1 DEF L
  <2>2. CASE nx2[y] = nx[y]
    BY <2>1, <2>2, <1>2, <1>10
  <2>3. CASE nx[y] = c /\ nx2[y] = nx[c]
    <3>1. Chain(nx, nx[c]) \subseteq Chain(nx, c)
      BY <1>1, ChainStep
    <3>2. QED
      BY <2>1, <2>3, <3>1, <1>1, <1>2, <1>10
  <2>4. QED
    BY <2>1, <2>2, <2>3, <1>4
<1>12. nx2[c] = nx[c]
  BY <1>1, <1>4, <1>6
<1>13. QED
  BY <1>2, <1>3, <1>6, <1>8, <1>9, <1>11, <1>12 DEF L

(* --------------------------- the invariant ---------------------------- *)

\* A step of a thread preserves the invariant.
LEMMA ThreadKeepsInv == ASSUME Inv, NEW c \in Conn, ThreadStep(c) PROVE Inv'
<1> USE ConnAssumption DEF Inv, Types, TypeOK, NewConnection, ListIsThreads, Unlinked, Started,
      JoinedIsRemoved, Acyclic, Walk, ThreadUsesLive, Listed, list, control, threads
<1>1. CASE SetComplete(c)
  BY <1>1 DEF SetComplete
<1>2. CASE ThreadReturns(c)
  BY <1>2 DEF ThreadReturns
<1>3. QED
  BY <1>1, <1>2 DEF ThreadStep

\* The list's elements are elements of live.
LEMMA ListedLive ==
  ASSUME Inv
  PROVE  /\ next \in Pointers /\ first \in Conn \cup {NULL}
         /\ Listed \subseteq live /\ Listed \subseteq Conn
         /\ \A x \in Listed : next[x] \in Listed \cup {NULL}
<1>1. next \in Pointers /\ first \in Conn \cup {NULL}
  BY DEF Inv, Types, TypeOK, Pointers
<1>2. Listed \subseteq live /\ Listed \subseteq Conn
  BY DEF Inv, Types, TypeOK, ListIsThreads, Unlinked, Started
<1>3. QED
  BY <1>1, <1>2, ChainClosed DEF Listed, Closed

\* A step of main up to the insertion preserves the invariant.
LEMMA MainKeepsInv ==
  ASSUME Inv, AcceptFails \/ MainStep \/ \E c \in Conn : Accept(c)
  PROVE  Inv'
<1> USE ConnAssumption DEF Context, Nobody, Runs, Goto, list, control, threads, Critical
<1>0. Types /\ "main" \in Context /\ "handler" \in Context
  BY DEF Inv
<1>1. ASSUME NEW c \in Conn, Accept(c) PROVE Inv'
  <2>1. Listed' = Listed
    BY <1>1 DEF Accept, Listed
  <2>2. Types'
    BY <1>0, <1>1 DEF Accept, Types, TypeOK, MainLabels, HandlerLabels
  <2>3. NewConnection'
    BY <1>0, <1>1 DEF Accept, Types, TypeOK, NewConnection
  <2>4. ListIsThreads'
    BY <1>0, <1>1, <2>1 DEF Inv, Accept, Types, TypeOK, ListIsThreads, Unlinked, Started
  <2>5. JoinedIsRemoved'
    BY <1>0, <1>1 DEF Inv, Accept, Types, TypeOK, JoinedIsRemoved
  <2>6. Acyclic' /\ ThreadUsesLive'
    BY <1>1, <2>1 DEF Inv, Accept, Acyclic, ThreadUsesLive
  <2>7. Walk'
    BY <1>0, <1>1, <2>1 DEF Inv, Accept, Types, TypeOK, Walk, Started
  <2>8. QED
    BY <2>2, <2>3, <2>4, <2>5, <2>6, <2>7 DEF Inv
<1>2. CASE AcceptFails
  <2>1. Listed' = Listed
    BY <1>2 DEF AcceptFails, Listed
  <2>2. Types' /\ NewConnection'
    BY <1>0, <1>2 DEF AcceptFails, Types, TypeOK, MainLabels, HandlerLabels, NewConnection
  <2>3. ListIsThreads' /\ JoinedIsRemoved' /\ Acyclic' /\ ThreadUsesLive' /\ Walk'
    BY <1>0, <1>2, <2>1 DEF Inv, AcceptFails, Types, TypeOK, ListIsThreads, Unlinked, Started,
      JoinedIsRemoved, Acyclic, ThreadUsesLive, Walk
  <2>4. QED
    BY <2>2, <2>3 DEF Inv
<1>3. CASE Create
  <2> DEFINE c == conn["main"]
  <2>1. Listed' = Listed /\ pc["main"] = "create"
    BY <1>3 DEF Create, Listed
  <2>2. c \in live /\ thread[c] = "none" /\ c \in Conn /\ c \notin Listed
    BY <2>1, <1>0 DEF Inv, NewConnection, Types, TypeOK, ListIsThreads, Unlinked, Started
  <2>3. Types'
    BY <1>0, <1>3, <2>2 DEF Create, Types, TypeOK, MainLabels, HandlerLabels
  <2>4. NewConnection'
    BY <1>0, <1>3, <2>2 DEF Create, Types, TypeOK, NewConnection
  <2>5. ListIsThreads'
    BY <1>0, <1>3, <2>1, <2>2 DEF Inv, Create, Types, TypeOK, ListIsThreads, Unlinked, Started
  <2>6. JoinedIsRemoved'
    BY <1>0, <1>3, <2>2 DEF Inv, Create, Types, TypeOK, JoinedIsRemoved
  <2>7. Acyclic' /\ ThreadUsesLive'
    BY <1>0, <1>3, <2>1, <2>2 DEF Inv, Create, Types, TypeOK, Acyclic, ThreadUsesLive
  <2>8. Walk'
    BY <1>0, <1>3, <2>1, <2>2 DEF Inv, Create, Types, TypeOK, Walk, Started
  <2>9. QED
    BY <2>3, <2>4, <2>5, <2>6, <2>7, <2>8 DEF Inv
<1>4. CASE LockInsert
  <2>1. Listed' = Listed
    BY <1>4 DEF LockInsert, Listed
  <2>2. Types' /\ NewConnection'
    BY <1>0, <1>4 DEF Inv, LockInsert, LockIsFree, Types, TypeOK, MainLabels,
      HandlerLabels, NewConnection
  <2>3. ListIsThreads' /\ JoinedIsRemoved' /\ Acyclic' /\ ThreadUsesLive' /\ Walk'
    BY <1>0, <1>4, <2>1 DEF Inv, LockInsert, Types, TypeOK, ListIsThreads, Unlinked, Started,
      JoinedIsRemoved, Acyclic, ThreadUsesLive, Walk
  <2>4. QED
    BY <2>2, <2>3 DEF Inv
<1>5. CASE Insert
  <2> DEFINE c == conn["main"]
  <2>1. /\ c \in live /\ c \in Conn /\ thread[c] \in {"running", "ended"}
        /\ c \notin Listed /\ pc["handler"] \notin Critical
    BY <1>0, <1>5 DEF Inv, Insert, NewConnection, Types, TypeOK, ListIsThreads, Unlinked, Started
  <2>2. next' = [next EXCEPT ![c] = first] /\ first' = c
    BY <1>5 DEF Insert, NextOfInserted
  <2>3. Listed' = {c} \cup Listed /\ Acyclic'
    <3>1. /\ next \in Pointers /\ first \in Conn \cup {NULL}
          /\ c \in Conn /\ c \notin Chain(next, first)
          /\ \A y \in Chain(next, first) : y \notin Chain(next, next[y])
      BY <2>1, ListedLive DEF Inv, Listed, Acyclic
    <3>2. /\ next' \in Pointers /\ next'[c] = first
          /\ \A y \in Conn \ {c} : next'[y] = next[y]
      BY <3>1, <2>2 DEF Pointers
    <3>3. /\ Chain(next', c) = {c} \cup Chain(next, first)
          /\ \A y \in Chain(next', c) : y \notin Chain(next', next'[y])
      <4> HIDE DEF c
      <4>1. QED
        BY <3>1, <3>2, ChainInsert
    <3>4. QED
      BY <3>3, <2>2 DEF Listed, Acyclic
  <2>4. Types' /\ NewConnection'
    BY <1>0, <1>5, <2>1, <2>2 DEF Insert, Types, TypeOK, MainLabels, HandlerLabels,
      NewConnection
  <2>5. ListIsThreads'
    BY <1>0, <1>5, <2>1, <2>3 DEF Inv, Insert, Types, TypeOK, ListIsThreads, Unlinked, Started
  <2>6. JoinedIsRemoved' /\ ThreadUsesLive'
    BY <1>0, <1>5 DEF Inv, Insert, Types, TypeOK, JoinedIsRemoved, ThreadUsesLive
  <2>7. Walk'
    BY <1>0, <1>5, <2>1 DEF Inv, Insert, Types, TypeOK, Walk
  <2>8. QED
    BY <2>3, <2>4, <2>5, <2>6, <2>7 DEF Inv
<1>6. QED
  BY <1>1, <1>2, <1>3, <1>4, <1>5 DEF MainStep

\* A step of collect_complete_threads or cleanUpAndExit, in main or in the handler,
\* preserves the invariant.
LEMMA CollectKeepsInv == ASSUME Inv, NEW k \in Context, CollectStep(k) PROVE Inv'
<1> USE ConnAssumption DEF Context, Nobody, Runs, Goto, list, control, threads, Critical
<1>0. Types /\ "main" \in Context /\ "handler" \in Context
  BY DEF Inv
<1>1. CASE LockCollect(k)
  <2>1. Listed' = Listed /\ first \in Listed \cup {NULL}
    BY <1>1, ListedLive, ChainClosed DEF LockCollect, Listed, Closed
  <2>2. Types' /\ NewConnection'
    BY <1>0, <1>1 DEF Inv, LockCollect, LockIsFree, Types, TypeOK, MainLabels,
      HandlerLabels, NewConnection
  <2>3. ListIsThreads' /\ JoinedIsRemoved'
    BY <1>0, <1>1, <2>1 DEF Inv, LockCollect, Types, TypeOK, ListIsThreads, Unlinked, Started,
      JoinedIsRemoved
  <2>4. Acyclic' /\ ThreadUsesLive' /\ Walk'
    BY <1>0, <1>1, <2>1 DEF Inv, LockCollect, Types, TypeOK, Acyclic, ThreadUsesLive,
      Walk
  <2>5. QED
    BY <2>2, <2>3, <2>4 DEF Inv
<1>2. CASE Each(k)
  <2>1. Listed' = Listed
    BY <1>2 DEF Each, Listed
  <2>2. conn[k] \in Listed /\ conn[k] \in Conn /\ next[conn[k]] \in Listed \cup {NULL}
    BY <1>2, ListedLive DEF Inv, Each, Walk
  <2>3. Types' /\ NewConnection'
    BY <1>0, <1>2, <2>2 DEF Inv, Each, Types, TypeOK, MainLabels, HandlerLabels,
      NewConnection
  <2>4. ListIsThreads' /\ JoinedIsRemoved'
    BY <1>0, <1>2, <2>1 DEF Inv, Each, Types, TypeOK, ListIsThreads, Unlinked, Started, JoinedIsRemoved
  <2>5. Acyclic' /\ ThreadUsesLive' /\ Walk'
    BY <1>0, <1>2, <2>1, <2>2 DEF Inv, Each, Types, TypeOK, Acyclic, ThreadUsesLive, Walk
  <2>6. QED
    BY <2>3, <2>4, <2>5 DEF Inv
<1>3. CASE Join(k)
  <2>1. Listed' = Listed
    BY <1>3 DEF Join, Listed
  <2>2. conn[k] \in Listed /\ conn[k] \in Conn /\ conn[k] \in live /\ complete[conn[k]]
    BY <1>3, ListedLive DEF Inv, Join, Walk
  <2>3. Types'
    BY <1>0, <1>3, <2>2 DEF Inv, Join, Types, TypeOK, MainLabels, HandlerLabels
  <2>4. NewConnection'
    BY <1>0, <1>3, <2>2 DEF Inv, Join, Types, TypeOK, NewConnection, ListIsThreads, Unlinked, Started
  <2>5. ListIsThreads' /\ JoinedIsRemoved'
    BY <1>0, <1>3, <2>1, <2>2 DEF Inv, Join, Types, TypeOK, ListIsThreads, Unlinked, Started, JoinedIsRemoved
  <2>6. Acyclic' /\ ThreadUsesLive' /\ Walk'
    BY <1>0, <1>3, <2>1, <2>2 DEF Inv, Join, Types, TypeOK, Acyclic, ThreadUsesLive, Walk
  <2>7. QED
    BY <2>3, <2>4, <2>5, <2>6 DEF Inv
<1>4. CASE Remove(k)
  <2> DEFINE c == conn[k]
  <2>1. /\ c \in Listed /\ c \in Conn /\ c \in live /\ complete[c]
        /\ \A j \in Context : j # k => pc[j] \notin Critical
    BY <1>0, <1>4, ListedLive DEF Inv, Remove, Walk, Types, TypeOK
  <2>2. /\ Listed' = Listed \ {c} /\ next'[c] \in Listed' \cup {NULL}
        /\ next' \in Pointers /\ first' \in Conn \cup {NULL} /\ Acyclic'
    <3>1. Unlinks(next, first, c, live, next', first')
      BY <1>4 DEF Remove, Unlinks
    <3>2. /\ next \in Pointers /\ first \in Conn \cup {NULL}
          /\ c \in Chain(next, first) /\ Chain(next, first) \subseteq live
          /\ \A y \in Chain(next, first) : y \notin Chain(next, next[y])
      BY <2>1, ListedLive DEF Inv, Listed, Acyclic
    <3>3. IsUnlinked(next, first, c, next', first')
      <4> HIDE DEF c
      <4>1. QED
        BY <3>1, <3>2, ChainRemove
    <3>4. QED
      BY <3>3 DEF Listed, Acyclic, IsUnlinked
  <2>3. Types'
    BY <1>0, <1>4, <2>1, <2>2 DEF Inv, Remove, Types, TypeOK, MainLabels, HandlerLabels,
      Pointers
  <2>4. NewConnection'
    BY <1>0, <1>4, <2>1 DEF Inv, Remove, Types, TypeOK, NewConnection, ListIsThreads
  <2>5. ListIsThreads'
    <3>1. /\ pc' = [pc EXCEPT ![k] = "free"] /\ conn' = conn /\ live' = live
          /\ thread' = thread /\ pc[k] = "remove"
      BY <1>4 DEF Remove
    <3>2. \A x : ~Unlinked(x) /\ (Unlinked(x)' <=> x = c)
      BY <1>0, <2>1, <3>1 DEF Unlinked, Types
    <3>3. pc'["main"] \in {"lock_insert", "insert"} <=>
            pc["main"] \in {"lock_insert", "insert"}
      BY <1>0, <3>1 DEF Types
    <3>4. QED
      BY <2>2, <3>1, <3>2, <3>3 DEF Inv, ListIsThreads
  <2>6. JoinedIsRemoved' /\ ThreadUsesLive'
    BY <1>0, <1>4, <2>1 DEF Inv, Remove, Types, TypeOK, JoinedIsRemoved, ThreadUsesLive
  <2>7. Walk'
    <3>1. thread[c] \in Started
          /\ (pc["main"] \in {"lock_insert", "insert"} => c # conn["main"])
      BY <2>1 DEF Inv, ListIsThreads
    <3>2. QED
      BY <1>0, <1>4, <2>1, <2>2, <3>1 DEF Inv, Remove, Types, TypeOK, Walk
  <2>8. QED
    BY <2>2, <2>3, <2>4, <2>5, <2>6, <2>7 DEF Inv
<1>5. CASE Collected(k)
  <2>1. Listed' = Listed
    BY <1>5 DEF Collected, Listed
  <2>2. Types' /\ NewConnection'
    BY <1>0, <1>5 DEF Inv, Collected, LockAfterCollect, Types, TypeOK, MainLabels,
      HandlerLabels, NewConnection
  <2>3. ListIsThreads' /\ JoinedIsRemoved'
    BY <1>0, <1>5, <2>1 DEF Inv, Collected, Types, TypeOK, ListIsThreads, JoinedIsRemoved,
      Unlinked
  <2>4. Acyclic' /\ ThreadUsesLive' /\ Walk'
    BY <1>0, <1>5, <2>1 DEF Inv, Collected, Types, TypeOK, Acyclic, ThreadUsesLive, Walk
  <2>5. QED
    BY <2>2, <2>3, <2>4 DEF Inv
<1>6. CASE CleanUp(k)
  <2>1. Listed' = Listed
    BY <1>6 DEF CleanUp, Listed
  <2>2. Types' /\ NewConnection'
    BY <1>0, <1>6 DEF Inv, CleanUp, Types, TypeOK, MainLabels, HandlerLabels,
      NewConnection
  <2>3. ListIsThreads' /\ JoinedIsRemoved'
    BY <1>0, <1>6, <2>1 DEF Inv, CleanUp, Types, TypeOK, ListIsThreads, JoinedIsRemoved,
      Unlinked
  <2>4. Acyclic' /\ ThreadUsesLive' /\ Walk'
    BY <1>0, <1>6, <2>1 DEF Inv, CleanUp, Types, TypeOK, Acyclic, ThreadUsesLive, Walk
  <2>5. QED
    BY <2>2, <2>3, <2>4 DEF Inv
<1>7. CASE Exit(k)
  BY <1>7 DEF Exit, Inv, Types, TypeOK, NewConnection, ListIsThreads, JoinedIsRemoved,
    Unlinked, Acyclic, ThreadUsesLive, Walk, Listed
<1>8. CASE Free(k)
  <2> DEFINE c == conn[k]
  <2>1. /\ c \in Conn /\ c \in live /\ complete[c] /\ thread[c] \in Started
        /\ \A j \in Context : j # k => pc[j] \notin Critical
    BY <1>0, <1>8 DEF Inv, Free, Walk, Types, TypeOK
  <2>2. /\ pc' = [pc EXCEPT ![k] = "next"] /\ conn' = conn /\ live' = live \ {c}
        /\ thread' = thread /\ pc[k] = "free" /\ Listed' = Listed
    BY <1>8 DEF Free, Listed
  <2>3. Types' /\ NewConnection'
    BY <1>0, <1>8, <2>1 DEF Inv, Free, Types, TypeOK, MainLabels, HandlerLabels,
      NewConnection, Walk, Started
  <2>4. ListIsThreads'
    <3>1. \A x : (Unlinked(x) <=> x = c) /\ ~Unlinked(x)'
      BY <1>0, <2>1, <2>2 DEF Unlinked, Types
    <3>2. pc'["main"] \in {"lock_insert", "insert"} <=>
            pc["main"] \in {"lock_insert", "insert"}
      BY <1>0, <2>2 DEF Types
    <3>3. QED
      BY <2>2, <3>1, <3>2 DEF Inv, ListIsThreads
  <2>5. JoinedIsRemoved' /\ ThreadUsesLive' /\ Acyclic'
    BY <1>0, <1>8, <2>1, <2>2 DEF Inv, Free, Types, TypeOK, JoinedIsRemoved,
      ThreadUsesLive, Acyclic
  <2>6. Walk'
    BY <1>0, <1>8, <2>1, <2>2 DEF Inv, Free, Types, TypeOK, Walk
  <2>7. QED
    BY <2>3, <2>4, <2>5, <2>6 DEF Inv
<1>9. CASE StepFromFreed(k)
  <2>1. Listed' = Listed
    BY <1>9 DEF StepFromFreed, Listed
  <2>2. conn[k] \in Conn /\ next[conn[k]] \in Listed \cup {NULL} /\ Listed \subseteq Conn
    BY <1>9, ListedLive DEF Inv, StepFromFreed, Walk
  <2>3. Types' /\ NewConnection'
    BY <1>0, <1>9, <2>2 DEF Inv, StepFromFreed, Types, TypeOK, MainLabels,
      HandlerLabels, NewConnection
  <2>4. ListIsThreads' /\ JoinedIsRemoved'
    BY <1>0, <1>9, <2>1 DEF Inv, StepFromFreed, Types, TypeOK, ListIsThreads,
      JoinedIsRemoved, Unlinked
  <2>5. Acyclic' /\ ThreadUsesLive' /\ Walk'
    BY <1>0, <1>9, <2>1, <2>2 DEF Inv, StepFromFreed, Types, TypeOK, Acyclic,
      ThreadUsesLive, Walk
  <2>6. QED
    BY <2>3, <2>4, <2>5 DEF Inv
<1>10. QED
  BY <1>1, <1>2, <1>3, <1>4, <1>5, <1>6, <1>7, <1>8, <1>9 DEF CollectStep

\* The arrival of a signal preserves the invariant.
LEMMA SignalKeepsInv ==
  ASSUME Inv, NEW v \in Conn \cup {"main"}, Signal(v)
  PROVE  Inv'
<1> USE ConnAssumption DEF Context, Nobody, Goto, list, control, threads, Critical
<1>0. Types /\ "main" \in Context /\ "handler" \in Context
  BY DEF Inv
<1>1. Listed' = Listed /\ pc["handler"] = "idle"
  BY DEF Signal, Listed, Inv, Types
<1>2. Types' /\ NewConnection'
  BY <1>0, <1>1 DEF Inv, Signal, Types, TypeOK, MainLabels, HandlerLabels,
    NewConnection
<1>3. ListIsThreads' /\ JoinedIsRemoved'
  BY <1>0, <1>1 DEF Inv, Signal, Types, TypeOK, ListIsThreads, JoinedIsRemoved, Unlinked
<1>4. Acyclic' /\ ThreadUsesLive' /\ Walk'
  BY <1>0, <1>1 DEF Inv, Signal, Types, TypeOK, Acyclic, ThreadUsesLive, Walk
<1>5. QED
  BY <1>2, <1>3, <1>4 DEF Inv

\* The invariant holds in every behaviour.
THEOREM ConnectionsInvariant == Spec => []Inv
<1>1. Init => Inv
  <2> SUFFICES ASSUME Init PROVE Inv
    OBVIOUS
  <2> USE ConnAssumption DEF Init, Context, Nobody
  <2>1. Listed = {}
    <3>1. Closed({}, next, first)
      BY DEF Closed
    <3>2. QED
      BY <3>1, ChainLeast DEF Listed
  <2>2. Types
    BY DEF Types, TypeOK, MainLabels, HandlerLabels, Critical
  <2>3. QED
    BY <2>1, <2>2 DEF Inv, NewConnection, ListIsThreads, JoinedIsRemoved, Acyclic,
      Walk, ThreadUsesLive
<1>2. ASSUME Inv, [Next]_vars PROVE Inv'
  <2>1. CASE UNCHANGED vars
    BY <1>2, <2>1 DEF Inv, Types, TypeOK, NewConnection, ListIsThreads,
      JoinedIsRemoved, Unlinked, Acyclic, Walk, ThreadUsesLive, Listed, vars, list, control, threads
  <2>2. QED
    BY <1>2, <2>1, ThreadKeepsInv, MainKeepsInv, CollectKeepsInv, SignalKeepsInv DEF Next
<1>3. QED
  BY <1>1, <1>2, PTL DEF Spec

\* connections_lock is held by exactly the context between a lock and its unlock,
\* for any number of connections.
THEOREM ConnectionsTypes == Spec => []TypeOK
<1>1. Inv => TypeOK
  BY DEF Inv, Types
<1>2. QED
  BY <1>1, ConnectionsInvariant, PTL

\* When the lock is free the list holds exactly the threads that were created and
\* not collected: no thread is lost, and no freed struct stays in the list.
THEOREM ConnectionsListed == Spec => []ListHoldsThreads
<1>1. Inv => ListHoldsThreads
  <2> SUFFICES ASSUME Inv, connections_lock = Nobody
               PROVE  Listed = {c \in live : thread[c] \in {"running", "ended"}}
                         \ (IF pc["main"] = "lock_insert" THEN {conn["main"]} ELSE {})
    BY DEF ListHoldsThreads, Listed
  <2>1. \A k \in Context : pc[k] \notin Critical
    BY ConnAssumption DEF Inv, Types, TypeOK, Nobody, Context
  <2>2. \A c \in live : thread[c] # "joined"
    BY <2>1 DEF Inv, JoinedIsRemoved, Critical
  <2>3. pc["main"] # "insert"
    BY <2>1 DEF Context, Critical
  <2>4. QED
    BY <2>1, <2>2, <2>3 DEF Inv, ListIsThreads, Unlinked, Started, Critical
<1>2. QED
  BY <1>1, ConnectionsInvariant, PTL

\* A freed struct is used only for the step of SLIST_FOREACH from it, whose pointer
\* still leads to an allocated struct or to the end, for any number of connections.
THEOREM ConnectionsFreedUse == Spec => []FreedOnlySteppedFrom
<1>1. ASSUME Inv PROVE FreedOnlySteppedFrom
  BY <1>1, ListedLive DEF Inv, ThreadUsesLive, Walk, FreedOnlySteppedFrom
<1>2. QED
  BY <1>1, ConnectionsInvariant, PTL
=============================================================================
