# Verification of the AESD character device and socket server

The repository holds a Linux character driver that keeps the last ten lines
written to `/dev/aesdchar`, a socket server that stores the lines its clients
send on that device and answers with the device's contents, and course
exercises around them. The modules here model the driver, the server, the scripts that run
them and the two concurrent exercises. TLC checks them on small instances. TLAPS proves all
of their safety properties that hold, for every value of the constants: the memory of the
circular buffer and of the driver, what a search, a read, a seek and a write of them do to the
text, for every capacity and content; the exchanges of the server and what it stores, for any
connections and byte streams; its list of threads with a signal at any time, the scripts for
any number of servers, the exercises for any number of threads and calls. Liveness is left to TLC.

## 1. Inventory

| Component | State | Operations | What is hard | What makes it correct |
|---|---|---|---|---|
| Circular buffer (`aesd-char-driver/aesd-circular-buffer.{c,h}`) | `entry[]`, `in_offs`, `out_offs`, `full` | init, add an entry (returns the address to free), find the byte at an offset | wrapping, full versus empty, who frees what | keeps the last N entries in order; the search equals indexing into their concatenation; exactly the dropped memory is handed back |
| Character driver (`aesd-char-driver/main.c`) | `aesd_device` (ring, `partial`, `lock`), `f_pos` of each open file | open, release, read, write, llseek, ioctl `AESDCHAR_IOCSEEKTO`, module load and unload | concurrent callers, `partial` is used without the lock, allocations and copies that fail, signals while waiting, positions that go stale | a write is atomic, a read sees whole writes, memory that holds bytes has one owner, every call returns |
| Connection threads (`server/aesdsocket.c`, `handle_client_connection`) | the position of the shared `file_fd`, `file_lock`, per thread `in_buffer` | read the socket, split lines, store or seek, answer | one position for all threads, error paths inside the locked block, TCP segmentation, broken connections | an exchange is atomic, a line is stored once, nobody waits for ever |
| Thread list, start and exit (`main`, `collect_complete_threads`, `cleanUpAndExit`, signal handler) | `connections`, `connections_lock`, `should_exit` | accept, insert, join and free, exit | freeing while iterating, a signal handler that takes locks, removal of the device node | each thread is joined once and freed after it ended, nothing freed is used; a signal ends the process |
| Timer and regular file (only with `USE_AESD_CHAR_DEVICE=0`) | the log file | append a timestamp every ten seconds | shares `file_lock` and the position | a timestamp does not split an exchange |
| Scripts `aesdchar_load`, `aesdchar_unload`, `*-start-stop`, and the server's start (`main`, `deamonize`) and exit | device node, loaded module, bound port, pending signals | load, unload, start, stop, open, bind, fork, install handlers, close, remove | scripts and servers share a path and do not coordinate; signals before the handlers; processes that are killed | a load yields the device; a start comes to its end; a stopped server lets the device go |
| Example `threading.{c,h}` | the caller's mutex, one `thread_data` per thread | start a thread, `threadfunc` | the struct changes owner twice, creation and lock may fail | a struct lives exactly as long as its thread, the mutex is given back, threads return |
| Example `systemcalls.c` | a child process, the output file, stdio buffers | `do_system`, `do_exec`, `do_exec_redirect` | a child that is killed, calls that fail in the child | the result reported is the one that happened |
| Finder application, build and test files | none | one-shot file I/O, build steps | nothing concurrent | not modelled |

How they interact: the server's threads call `write`, `lseek`, `ioctl` and `read`
on one file description of the device; the driver serialises callers with
`dev->lock` around the ring; the ring leaves locking and memory to its caller.
`PROJECT.json` lists the hazards of each part at the line where they bite.

## 2. Plan

Done, in this order:

1. `CircularBuffer`, its client, its abstraction and their proofs.
2. `AesdChar` over the ring, with `LineDevice` as its abstract specification.
3. `AesdSocket` over `LineDevice`.
4. `Connections`: the list of threads, `collect_complete_threads`, the signal
   handler and the exit of the server.
5. `AesdSocketFile`: the build with the timer and a regular file.
6. `SystemCalls`: the functions of `systemcalls.c`.

7. `Service`: module scripts, start-stop scripts, start and exit of the server around
   the device node; `Threading`: the thread exercise. Both with their proofs.

8. Proofs: `SystemCallsProofs`, `AesdSocketFileProofs`, `ConnectionsProofs`,
   `AesdCharProofs` (memory), `AesdSocketProofs` (exchanges), and the types of the modules
   proved before.

9. Proofs: that the driver's ring, read as lines, is `LineDevice` (`WritesAreAtomic`), and its
   types.
10. Proofs: what the search and the sums over the ring compute (`FindIsConcatenation`,
    `SeeksAgreeWithText`, `ReadsText`).
11. Proofs: that the server stores each line once and in order (`StoredOnceInOrder`).

Nothing of the plan is left. What could follow: the second signal, and several files of one
device in the runs (the theorems have any number).

## 3. Modules

**`CircularBuffer`** has the four fields of the struct as variables. `AddEntry`
is `aesd_circular_buffer_add_entry`, `Garbage` its return value, `FindEntry` the
search with its counter and its two loop conditions, as a function of the number of turns and
of what is left of the offset. `RingInv` is what callers
rely on and no comment says: a full ring has `in_offs = out_offs`, one that is
not full starts at slot 0 and its unused slots are zero.
**`CircularBufferClient`** adds a caller that allocates, adds and frees the
returned address, as `aesd_write` does. **`BoundedLog`** is what the buffer
promises: a sequence of the last N entries whose dropped memory is freed.
**`CircularBufferProofs`** holds the theorems.

**`AesdChar`** is the driver. `mem` maps live addresses to bytes. An address is
not reused while a pointer to it exists, so that a use of freed memory cannot
hide behind a new allocation. `aesd_write` is one action per access to shared
state:

| Action | `main.c` |
|---|---|
| `WriteCall`, `AllocBuffer` | 98-114 (reads `partial.size`) |
| `CopyPartial` | 116-118 |
| `CopyUser` | 120-124 (reads `partial.size` again) |
| `FreePartial`, `ClearPartial` | 126-127, 128-130 |
| `LockForWrite` | 132-136 |
| `StoreLine`, once per line | 138-157 |
| `KeepTail` | 159-169 |
| `Unlock`, `WriteOut`, `WriteRestart` | 171-173, 174-180, the kernel after -ERESTARTSYS |

The two stores of `ClearPartial`, and the two of `KeepTail`, are one step each:
they only differ for a second writer of unfinished lines, and such writers are
already in trouble (run `driver_partial_race`). `aesd_read`, `aesd_llseek` and
`aesd_adjust_file_offset` each wait for `dev->lock` and take it in one step (`LockForRead`,
or `ReadInterrupted`), and work and give it back in another (`ReadBody`, `Llseek`,
`SeekTo`), so that writers and other readers wait behind them and can be interrupted there.
The arguments of llseek and ioctl do not matter before the lock is held and are chosen
there. The store of `f_pos` after the ioctl's unlock (`SetFpos`) and the kernel's copy-back of
`f_pos` after a read or write (`ReadReturn`, `WriteOut`) are steps of their own. A write that
a signal ends returns -ERESTARTSYS: the kernel reports EINTR, or repeats the call with the
same data (`WriteRestart`), which the program does not see. The entry struct that each stored
line leaks (141) is counted in `structs`, outside `mem`; when its allocation fails, the task
dies with the lock held ("oops"). `Failures` says which allocations, copies and waits may fail. What
belongs to the kernel (allocation, the entry and return of read and write,
`fixed_size_llseek`, the mutex) is modelled from its use and marked external. `opened` is the
set of open files; a call keeps its file open, and an open file keeps the module loaded.
`AddressAssumption` says that there is always an address left to allocate: one for each
slot, the unfinished line, the line being added and the buffer of each writer.
Undefined behaviour is not given a meaning: `Overflows` and `UsesFreed` say when a
task is about to do it, `NoFault` says that no task is, and the task stops there.
`visible` is a history variable: what the device holds when the latest write
returned. **`AesdCharProperties`** states the properties, **`MCAesdChar`** the
inputs for TLC, **`AesdCharProofs`** the theorems.

**`LineDevice`** is the abstract device: the last N lines, the unfinished line and
whether the latest write succeeded; a write is one step. It cuts text into lines by
the positions of the newlines (`Ends`: the k-th is the one with k newlines up to it), not by
the loop of the code.

**`AesdSocket`** is `handle_client_connection`, once per connection, over the
operations of `LineDevice` and one shared position. Clients send their stream in
given segments; a read of the socket returns what has arrived, up to `BufLen`. Bytes are
numbers: 10 is the newline, 0 the NUL at which the string functions stop (`UpToNul`), 65 at
the start of a line stands for `AESDCHAR_IOCSEEKTO:` and 48 to 57 for numbers (the comma
counts as part of the first). `FirstLine` is the `strchr` for the newline, and the read of
the device, which ends with a line; `ScanSeek` is the `sscanf`, which takes its numbers from the
next line when the request's own line ends too early. After a reset, pending data can
still be read, then one read (or send) reports the error, then a read returns 0 and a send
raises SIGPIPE, which the server does not handle and which kills it. A thread that a failed
send ends is "failed": it still holds `file_lock`. `cuts` is a history variable, where in
the stream the reads ended; `Kept` is the reference for what should be stored, computed from
stream and cuts without the loop of the code: for each newline that ends a line to be kept
(`KeptEnds`), the `Piece` between the last cut or newline before it and the newline itself. **`MCAesdSocket`** gives the segments,
**`AesdSocketProofs`** the theorems.

**`Connections`** is the rest of the server after its start: the accept loop of `main`, the
list of connections with the SLIST macros, `collect_complete_threads` element by element,
and the way out. A connection's thread is only its last two steps here (set
`thread_complete`, return); what it does before is `AesdSocket`. A signal interrupts `main`
or a running thread at any step, and `cleanUpAndExit` then runs in its place, concurrently
with the others, while the interrupted thread never goes on. `Chain` is what is reached along
the next pointers, as the least set that is closed under them. `SLIST_REMOVE`, `free` and the
step of `SLIST_FOREACH` from the element that the loop body has freed are three actions
(`Remove`, `Free`, `StepFromFreed`). The last is a use after free: it finds the pointer as it
was, or the process crashes. It cannot find another value: glibc's `free` overwrites the first
two words of the block, `sle_next` is the last one of the struct, and the block stays with the
thread that freed it, which allocates nothing in between.
**`ConnectionsProofs`** holds the theorems.

**`AesdSocketFile`** is the server built for a regular file, with its timer. A line is a
value and the file a sequence of lines; what matters is the shared position, since the file
is not opened with O_APPEND. `Restart` ends the process at any point, with or without the
removal of the file that `cleanUpAndExit` does, and starts it again. `atEnd` is a history
variable: the file was empty at the start, or a client has been answered since, so that the
position is at the end. Until then a line written over a leftover file replaces a line of it
(in bytes it may also cut one). A send that fails ends its thread with `file_lock` held
(`SendFails`), as in the other build.
**`MCAesdSocketFile`** gives the requests, **`AesdSocketFileProofs`** the theorems.

**`Service`** is how driver and server are run. `node` is what `/dev/aesdchar` is: nothing, a
regular file, the device, or a stale node of a device that is no longer there. One script
runs at a time, one action per command:

| Action | Source |
|---|---|
| `Insmod`, `RemoveNode`, `Mknod`, `Chmod` | `aesdchar_load` |
| `Rmmod`, `RemoveStaleNode` | `aesdchar_unload` |
| `Start`, `Stop` | `aesdsocket-start-stop` |
| `OpenFile`, `Bind`, `Install` | `main` up to its accept loop |
| `Fork`, `ForkAgain` | `deamonize` |
| `SignalHandler`, `CloseFile`, `RemoveFile`, `Exit`, `Hang` | the signal handler and `cleanUpAndExit` |

`Killed` and `Terminated` (a signal before the handlers are installed) are the kernel's. A
server may also be started by hand beside another. `load_ok` and `quiet` are history
variables: a load succeeded, and no server has removed the path since it began.
**`ServiceProofs`** holds the theorems.

**`Threading`** is `start_thread_obtaining_mutex` and `threadfunc`. `data` is the set of
allocated `thread_data`; fresh memory holds anything, so `success` starts arbitrary. A `malloc`
that fails is not noticed and ends the process (`alive`). The unlock of a mutex that another
thread holds is undefined: it releases the mutex or does nothing (`MutexAfterUnlock`). The
sleeps are the time between two steps. The joiner is not in the repository's code: `Join` does
what the comments in `threading.h` say the joiner can do. **`ThreadingProofs`** holds the
theorems.

**`SystemCalls`** is a program that calls `do_system`, `do_exec` and `do_exec_redirect` and
prints in between. Each call has a child of its own, which can outlive it when `waitpid`
fails. `printed`, `buffered`, `inherited` and `written` count the lines in the stdio buffer
of the program and in the copies that `fork` makes of it. `command` is a history variable:
how the command really ended. **`SystemCallsProofs`** holds the theorems.

## 4. Runs

| Run | Instance | Shows |
|---|---|---|
| `buffer` | N = 3, sizes 0-2, four addresses (one more than the ring needs) | `RingConsistent`, `MemoryIsStored`, `FindIsConcatenation`, and that the buffer implements `BoundedLog` |
| `driver_partial` | N = 2, one writer, three writes out of five byte strings, one task that reads and seeks on the same file, load and unload; everything may fail | `WritesAreAtomic` (implements `LineDevice`), `ReadsText`, `SeeksAgreeWithText`, `OwnsItsBytes` (an unload included), `NoFault`: error paths, a wait behind a reader that a signal ends included, neither leak bytes nor dangle, and lose only what a failed call may lose |
| `driver_lines` | two writers that write two lines in one call, two calls, one task that reads and seeks; signals, failing allocations (that of the entry struct included) and copies | the same with concurrent writers (without unfinished lines the unlocked prologue is harmless), and `EveryCallReturns` |
| `driver_partial_race` | two writers of fragments | violation: the copy overflows the buffer |
| `server` | two connections, N = 2, a buffer of five bytes; lines cut anywhere, a NUL, seek requests that are good, malformed, refused or end on the next line; resets, stalled sends, failing device writes | `AnswerIsDevice`, `StoredOnceInOrder`, `LinesNeverMix`, `Served` |
| `server_lock_leak` | a client that resets its connection | violation: the thread ends with `file_lock` held |
| `server_threads` | three connections, one signal anywhere, failing `pthread_create` | `ListHoldsThreads`, `FreedOnlySteppedFrom`, `SignalEnds` |
| `server_file` | two connections with text, malformed and refused seek requests, two time stamps, one restart, two lines per read, failing sends | `AppendOnly`, `AnswerIsFile`, `EveryoneServed` |
| `service` | two server identities, any number of loads, unloads, starts, stops and kills; `mknod`, `socket` and `fork` may fail | `NodeStays`, `StopFreesDevice`, `StartEnds` |
| `thread_example` | three threads, failing allocations, creations and locks | `DataLivesWithThread`, `HoldsUntilUnlock`, `ThreadsReturn` |
| `system_calls` | three calls, two printed lines, two descriptors, everything may fail | `ErrorsReported`, `PrintedOnce`, `CallsReturn` |
| `exec_result` | one call of `do_exec` whose command is killed | violation: the call reports success |

Bounds: a ring of two or three wraps, is full and evicts within the writes allowed; a
driver write holds up to two lines, so a ring of two is overwritten by one call. In
`driver_lines` every call writes the same two different lines: two calls that mix would leave
another order or number of them. Seeks use the offsets -1, 0, 1 and 3: before, at, inside
and behind a line (in `driver_lines`, where only their lock matters, 0). Two
writers suffice for every pair of steps of `aesd_write`; the reader can run between any
two of them. `MaxWrites` is 3 (2 in `driver_lines`, one per writer): fragment, fragment, end of line
is the longest history that matters to `partial`. Three connections give the list a
first, a middle and a last element to remove. Two servers are one that serves or exits and
one that starts meanwhile; an identity is used again, so restarts are not bounded. Of three
threads one holds the mutex, one waits and one unlocks what it does not hold. In `server` the
segments make a read shorter than the one before it, a cut in each kind of line, and a line
after a cut that could continue an older one. One open file is shared by all tasks,
which is the harder case for positions. Six addresses hold the ring, `partial`, two
buffers and the line being added. Deadlock is checked except where the system really
stops: in the runs of the driver a task that dies with the lock held stops the device, and the
server runs end when the clients have nothing more to send or the process exits.

Fairness: every task of the driver keeps running (weak fairness of its steps) and a task
that waits for `dev->lock`, to write or to read and seek, gets it in the end (strong
fairness): the kernel's mutex hands the lock over to a waiter that has waited too long.
Signals are outside the fair steps. `EveryCallReturns` excepts the states in which a task has
died with the lock held (141). The server needs only weak fairness
of each thread: clients send finitely much, so `file_lock` stays free once the others are
served. `Served` excepts what the code itself gives up: a thread that a failed send ended
with the lock held, and a process killed by SIGPIPE; `EveryoneServed` excepts the former.
`SignalEnds` assumes only that threads are scheduled: not that a client connects
(`accept` may block for ever) nor that a connection comes to its end. `CallsReturn` assumes
that commands end, and never that `waitpid` fails. In `Service` every server is scheduled, but
no script has to be run or go on and nothing has to be killed; `StartEnds` is about the part of
the start script that waits for the server. In `Threading` every thread
is scheduled; each locks once, so the mutex needs no fairness, and `LockFails` is not a fair
step.

## 5. Findings

* **`partial` without the lock** (`main.c:104-130`). With one writer at a time, or with
  writers of whole lines only (the server is one: it writes line by line under
  `file_lock`), all properties hold. Two processes of which one writes an unfinished line
  break memory safety.
* **`file_lock` leak** (`aesdsocket.c:197-202`). The socket is non-blocking, so a client
  that reads slowly is enough: the send fails with EAGAIN and the server is stuck.
* **The result of a killed command** (`systemcalls.c:72`). `do_exec` and `do_exec_redirect`
  report true for a command that was killed, although the comment at 34-35 promises true only
  for a command that was executed successfully. `do_system` reports false.

Statements of the repository that the code does not keep, seen in the model and without a run
of their own:

* `aesd_ioctl.h:27` and `:31` describe the two numbers of a seek as "The zero referenced write
  command to seek into" and "The zero referenced offset within the write". The ioctl accepts an
  offset equal to the length of the command (`main.c:225`), which is the start of the next one,
  and offset 0 of a command that was never written, which is the end of the device.
  `SeeksAgreeWithText` states what holds for the bytes inside a command and for offsets behind
  it, and leaves these two open.
* `threading.h:22-23`: "Set to true if the thread completed with success, false if an error
  occurred." `threadfunc` reports true although its lock failed (`threading.c:21-31`), and the
  unlock that follows may take the mutex from its holder. `HoldsUntilUnlock` holds until then.
* `systemcalls.c:84`: "This file will be closed at completion of the function call".
  `do_exec_redirect` never closes the file it opens (102).

Faults of the code that are in the model and about which no comment speaks:

* The entry struct of each stored line is leaked (`main.c:141`); `OwnsItsBytes` is about the
  memory of bytes only. The allocation is unchecked: when it fails the task dies with the lock
  held, and every later call waits for ever. `EveryCallReturns` names this exception.
* The unfinished line is freed (127) before the wait for the lock (132), so a signal during
  that wait loses it, and the wait may be one behind a reader. The call returns -ERESTARTSYS,
  and when the kernel repeats it the program is told of a success: `WritesAreAtomic` says that
  only a call that fails loses anything, where the calls are those the kernel makes.
* `collect_complete_threads` reads the next pointer of a struct it has just freed
  (`aesdsocket.c:278-283`). `FreedOnlySteppedFrom` says that this is the only use of a freed
  struct, and that the walk goes on in the list as long as the memory has not changed.

Also observed while modelling: `aesd_llseek` stores `-EINVAL` in `f_pos` (200); a failed `copy_from_user`
returns `-ENOMEM` because the assignment follows the `goto` (122-123); the server processes the previous buffer again after a read
error (`aesdsocket.c:154-168`) and drops the part of a line that arrives before its newline.
A line with a NUL before its newline is never stored, nor is anything behind it in the same
read. A signal does not end the server when it interrupts `main` while it holds
`connections_lock`, or a thread that `main` is joining: the handler waits for a lock that is
never given back (`Stuck` in `Connections`). `main` declares its own `server_fd` (340), so
`cleanUpAndExit` never closes the socket and a thread blocked in `accept` stays there.
`cleanUpAndExit` cancels `timer_thread`, which the build for the device never creates (113);
the model lets the process crash there. A server that was killed leaves its regular file, and
the next one writes over its beginning (334). The server's exit removes `/dev/aesdchar` itself (106), so that the next start opens a regular
file in its place until the module is loaded again; so does a second server that fails to
start beside a running one, and an exit that is late removes the node of a new load.
`insmod` refuses a module that is loaded, `modprobe` does not, and the script then makes the
node anew under the running server. The stop script does not wait, so a start right after it
finds the old process and does nothing; the start-stop scripts end with `exit 0` whatever
happened. A SIGTERM between the two forks of `deamonize` can be lost. The
`malloc` of a `thread_data` is not checked. A child of `do_exec_redirect` whose `dup2`
fails returns into the program (114), and the exit status of that copy is taken for the command's.

## 6. Proofs

`CircularBufferProofs`, for every `N` in 1..255 (the offsets are 8 bits wide), every set of
addresses and of sizes:

* `BufferInvariant`: `BufferInv`, the conjunction of types, `RingConsistent` and
  `MemoryIsStored`, is inductive. `MemoryIsStored` alone is not: that a slot which is not
  yet used holds NULL, so that overwriting it loses nothing, is in `RingConsistent`, and
  this needs the index types. `BufferOwnsItsMemory`, `BufferRingConsistent` and `BufferTypes` follow.
* `BufferRefinesLog`: the buffer implements `BoundedLog`. The stored entries are a
  sequence (`StoredIsSeq`); adding to a free slot appends to it (`AddAppends`); adding to a
  full ring drops its head and appends (`AddReplacesOldest`). Both rest on two lemmas on
  indices modulo N (`NextOffsetWraps`, `SlotAfter`).
* `BufferFindsEveryByte`: the search returns the entry and the byte that indexing into the
  concatenation gives, and NULL past its end. The search and the sums of sizes are recursive,
  so the proof first shows that their definitions have a solution (`SearchSolved`,
  `SumRuleSolved`), then, by the least turn at which it would fail, that the k-th turn is at the
  k-th stored entry with the offset less the sizes before it (`SearchWalks`), and that it stops
  after the last (`StopsAfterStored`).

Assumptions: `NAssumption`, `NullAssumption`, `FoundAssumption` (a found entry is not NULL) and
`SizeAssumption`, evaluated by TLC in the run `buffer`.

`ServiceProofs`, for any set of servers:

* `ServiceInvariant`: `NodeStays` is not inductive alone. Two facts are added: a path that is
  the device belongs to a loaded module (`NodeIsLoaded`), and what the path is between two
  commands of the load script (`ScriptOrder`, else the last command could confirm a load over
  something else). `ServiceNodeStays` and `ServiceTypes` follow. No assumption is needed.

`ThreadingProofs`, for any set of threads:

* `ThreadingInvariant`: types, `DataLivesWithThread`, `HoldsUntilUnlock`, and `HeldIsPast`, that
  a thread which got the mutex is past its lock; without it a lock that fails could go unnoticed
  by `HoldsUntilUnlock`, which says nothing once one has. `ThreadingDataSafe`, `ThreadingMutexSafe` and `ThreadingTypes` follow. The assumption is
  `ThreadingAssumption` (nobody is no thread), evaluated in the run `thread_example`.

`AesdCharProofs`, for every capacity, any inputs, any number of tasks and files, and any set of
failures, under one of two hypotheses: there is one writer (`OneWriter`), or every input ends
in a newline (`InputsAreLines`). The run `driver_partial_race` shows that one of them is needed;
the runs `driver_partial` and `driver_lines` are instances of either.

* `DriverInvariant`. `NoFault` and `OwnsItsBytes` speak of addresses and say nothing of why a
  buffer is large enough. The invariant adds: a call keeps the module loaded and the ring
  consistent (`CallsKeepLoaded`); a writer has its buffer from the allocation to the end
  (`Buffers`); no two of slots, `partial` and buffers point to the same memory (`Unshared`);
  all of them point to live memory of the size they say, except `partial` between its `kfree`
  and the two stores after it, and nothing else is live (`PointersLive`). The part that the
  hypotheses are for is `PartialStands`: from the allocation to the copies `partial.size` is
  what it was, and `partial` is empty when lines are stored. With one writer nobody else
  changes it; with whole lines it is empty all along, because what a writer is about to store
  ends in a newline (`NothingUnfinished`).
* `DriverNoFault` and `DriverOwnsItsBytes` follow. `ModuleKeepsInv`, `ReadingKeepsInv` and
  `WritingKeepsInv` are the three parts of the induction; `AddEntryKeepsRing` is what the
  driver needs of the ring, `FreshPtr` that an allocation finds an address, by counting the
  pointers that are in use.
* `DriverText`: `TextInv`, which adds the contents to the memory. `visible` is what the programs
  see, the lines and the unfinished line as the latest write left them. While no writer holds
  `dev->lock` the ring holds those lines (`RingIsVisible`); `partial` holds the unfinished line
  until a write is about to replace it (`RestStands`); only the task, writer or
  reader, between lock and unlock has the lock (`Holder`). `WriterText` says how far a write has come: its buffer is the
  unfinished line and the new bytes; in the loop, for some k, the ring holds the last N of the old lines
  and the first k of the new text, and `off` is where the k-th ends; at the unlock either k is
  all of them and `partial` is the rest, or the write reports an error.
* `DriverWritesAreAtomic`: from this, the unlock is one `LineDevice!Write` (or a failed one) and
  every other step stutters. A write that gives up before it has the lock is a failed one, and
  takes the unfinished line with it if it had freed it: one that a signal ends in its wait, behind
  a writer or a reader. When the kernel repeats such a call, the device sees a failed write and
  then another. The abstract device cuts text by the rank of its newlines, the loop by
  the first newline behind `off`; `NextLine` says that both find the same line.
* `DriverNumbers`, `DriverTypes`, `DriverSeeksAgree`, `DriverReadsText`. Reading and seeking need
  that no newline lies inside a stored line (`LinesEnd`), that positions are numbers, and that
  a slot without memory has size 0 (`RingHeld`), since `aesd_llseek` adds up all slots, used or
  not (`TotalIsBefore`). The sum of the sizes before the k-th entry is the length of the text
  before the k-th line (`BeforeIsText`), whatever slot the ring starts at; so the ioctl
  (`AdjustIsBefore`, `SeeksInText`, for any set of offsets) and the search of the read (`ReadInText`) place their
  positions in the text.
* Assumptions: those of the ring, `DriverAssumption`, `AddressAssumption` and
  `NobodyAssumption` (nobody is no task), evaluated in the runs of the driver.

`AesdSocketProofs`, for every capacity, buffer length, any connections and any streams:

* `SocketInvariant`. `AnswerIsDevice` compares an answer, sent in several steps, with the device
  at its end. The invariant: what of the answer was sent is the device between the start of the
  answer and the shared position (`Exchange`); a thread works on the device only while it holds
  `file_lock` (`Exclusive`), so nobody else moves the position or writes; between exchanges the
  position is at the end (`Position`), which is why a malformed seek request is answered with
  nothing; and the device holds lines that end in their newline and no unfinished one
  (`DeviceLines`), so that reading line by line makes progress to the end. `SocketTypes` and
  `SocketAnswers` follow. That a line written is the last one on the device needs what
  `LinesOf` makes of one line (`LinesOfLine`) and that concatenating lines and cutting
  agree (`FlattenPrefix`, `FlattenPartial`). `FlattenSeq` is a recursive function of the length; the lemmas
  about it take the least length at which they would fail (`MinOfNaturals`), in place of an
  induction.
* `SocketLinesNeverMix`. The property compares lines on the device with the lines of a stream
  that goes on growing, so it is not inductive. `SocketStreams` is: what waits in a socket is the
  end of the client's stream, and a buffer and each line on the device is a part of one stream
  (`Arrived`, `LinesSent`), which more segments do not change. A part that ends at its only
  newline is the end of a line of the stream (`PartEndsLine`); that the cutting of `LinesOf`,
  by ranks, finds this line is `RankTells` and `RankBefore`.
* `SocketStoredOnce`. `StoredOnceInOrder` says of a thread in the middle of a buffer only that
  what it stored is a beginning of `Kept`, and not how far it is. `SocketKeepsUp` proves
  `StoredInv`, which does: the buffer holds what the string functions see of the last read, which
  began at a cut, what is scanned of it ends with a line (`BufferedAt`), and what is stored is the
  pieces that end in the scanned part of the stream, up to a position p (`StoredTo`). A line found in
  the buffer is the piece that ends there (`LineIsPiece`), because no cut lies behind the start
  of the buffer (`BufferInText`), and storing it appends one piece (`ScanLine`,
  `PiecesAppend`). When no line is left, no newline to be kept is left in what was read: it would
  lie behind a NUL (`ScanEnd`). A read adds a cut and more text behind all of that, which
  changes no piece that ended before (`ReadMore`, `PieceStays`). A segment that arrives is not read
  yet and changes nothing (`SendReadsNothing`).
* Assumptions: `DeviceAssumption` and `SocketAssumption`, evaluated in the run `server`.

`AesdSocketFileProofs`, for any requests, number of time stamps and restarts:

* `FileInvariant`: types, `Exclusive`, `PositionAtEnd` (once the file was read to its end the
  position is there outside an answer, which is what replaces O_APPEND) and `Exchange` (the
  answer so far is the file up to the position, the line stored still in it). The action
  properties `FileAppendOnly` and `FileAnswers` and the types `FileTypes` follow. The
  assumption is `FileAssumption`, evaluated in the run `server_file`.

`ConnectionsProofs`, for any number of connections and one signal at any step:

* `ConnectionsInvariant`: the list is that of the threads created whose struct is not freed
  (`ListIsThreads`; the one that a walk has unlinked and frees next is out of it), it has no cycle (`Acyclic`, without which a removal could leave the removed
  element reachable), each walk is at an element of the list, or at one it has unlinked whose next pointer is an element
  or the end (`Walk`), a joined thread is about to
  be removed (`JoinedIsRemoved`), and what main has accepted is not yet in it
  (`NewConnection`). The lemmas say what an insertion at the head and a removal do to `Chain`.
  `ConnectionsListed`, `ConnectionsFreedUse` and `ConnectionsTypes` follow. The assumption is
  `ConnAssumption`, evaluated in the run `server_threads`.

`SystemCallsProofs`, for any number of calls, printed lines and descriptors, whatever fails:

* `CallsInvariant`: `PrintedOnce` needs that the buffer is empty between flush and fork and
  that no child inherits anything (`NothingInherited`); `ErrorsReported` needs how far each call
  has come (`CallOrder`) and what the state of a child tells about its command
  (`ChildTells`). `CallsPrintOnce` and `CallsReportErrors` follow. The assumption is
  `CallsAssumption`, evaluated in the run `system_calls`.

Only model-checked: the liveness properties (`EveryCallReturns`, `Served`, `SignalEnds`,
`EveryoneServed`, `StopFreesDevice`, `StartEnds`, `ThreadsReturn`, `CallsReturn`), since the prover has no
fairness. Every other property of the passing runs is a theorem.

## 7. Not modelled

The parts listed in `PROJECT.json` as `not_modelled`, with the reason. Within the modelled
parts: overflow of 64-bit positions and sizes, several devices (there is one minor), logging,
a second signal, the locks inside `syslog` and `free`, the write to `in_buffer[-1]`
after a read error, group and mode of the device node, two scripts at the same time, and other processes that use the device
while the server runs.
