# dataServer and remoteClient: a verification project

`dataServer` copies directories to `remoteClient` processes over TCP. Its main
thread accepts clients, one detached *communication thread* per client queues
the files of the requested directory, and a pool of *worker threads* pops them
and writes them to the sockets. This directory holds TLA+ models of the server's
threads with their clients (the *core*), and of the layers below: the linked list
of socket mutexes, the transfer of bytes, the block loops, the request, the
directory scan, and the clients' disk; TLC runs that check them on small
instances; and TLAPS proofs of every safety property that the runs check, for all values
of the constants: any number of clients, workers and descriptors, any files, directories
and sizes.
File names and lines below are those of `src/sources/`.

## Inventory

| Component | State | Operations |
|---|---|---|
| Main thread (`dataServer.c`, `Server.c:12`, `Server.c:447`) | `RUNNING`, listening socket, thread pool | accept, create a communication thread, SIGINT handler, `ThreadPool_Destroy`, clean up |
| Communication thread (`Server`, `Server.c:21`) | its socket, node, list of files | register the socket's mutex, receive the request, queue every file and `TERMINATION_MSG`, read ACKs up to `END`, delete the node, close |
| Worker thread (`Server.c:407`) | popped entry, mutex of its socket | pop, find and lock the mutex, signal, send metadata and content, unlock |
| `Files_Queue` (`Queue.c`, `Server.c:248`) | list of `<file, socket>`, capacity, `mutex_files_queue`, `cond_queue_not_empty`, `cond_queue_not_full` | insert with wait, pop with wait |
| `Mutex_Socket_Queue` (`Queue.c:170-206`) | list of `<socket, mutex>`, `mutex_socket_queue` | insert, find, delete |
| `remoteClient` (`remoteClient.c`, `Client.c`) | socket, block size, local paths | request, read metadata and content, ACK, `END` |
| Handshake (`Server.c:41-53, 102-148`, `Client.c:6-54`) | lengths and messages | directory name, `CONFIRMATION_MSG` or `WRONG_MSG`, block size, ACKs |
| `Send_Data`, `Receive_Data` (`CommonFuncs.c`) | none | write and read loops |
| Block loops (`Server.c:312-349`, `Client.c:102-124`) | bytes left, block size, one copy on each side | metadata, blocks, last block |
| Directory scan (`Server.c:160-237`) | stack of open directories | stat, open, read entries, recurse, queue regular files |
| `Client_Resolve_FilePath`, output directory (`Client.c:70-85, 183-256`) | local paths, the clients' disk | cut the server's path, make directories, replace old files |

Interactions. Communication threads and workers meet in `Files_Queue`, under
`mutex_files_queue` and its two condition variables. Workers that send files of
the same client exclude each other with the mutex in the client's node, which
they lock *before* they release `mutex_files_queue`. A client answers every item
with an ACK that only its communication thread reads, and only after it has
queued everything. `RUNNING` is written by a signal handler and read by the main
thread and the workers, without a lock.

What is hard here, and what makes each part correct:

- *Workers and queue*: which worker gets which file is up to the scheduler, yet
  each client must see its files whole, in order, and `TERMINATION_MSG` last.
- *Condition variables*: single signals, sent after the unlock, to a set of
  threads that also wake up spuriously; no entry and no free place may be
  forgotten, and the queue may not overflow.
- *Descriptors*: the kernel gives closed descriptors to new clients; entries and
  nodes hold descriptor numbers, so both must be gone when a socket is closed.
- *Node life time*: a node is freed by the communication thread while workers
  search the list or hold the mutex inside the node.
- *Flow control*: socket buffers are finite in both directions, so clients,
  workers, the queue and the communication threads can wait for each other.
- *Shutdown*: ^C at any moment, workers in any state.
- *Searching without a lock*: `Queue_Find` walks a linked list while others insert,
  delete and reuse its memory.
- *Streams without framing*: neither side marks what a byte means. Lengths,
  block sizes and file sizes, in three integer types, must agree on both sides,
  also when `read(2)` and `write(2)` transfer less than asked.
- *File systems that change*: files go between `readdir`, `stat` and `open`, links
  lead back, several clients write below one output directory.

`PROJECT.json` lists the hazards line by line with the properties that watch them.

## Modules

The core, one module per kind of thread over shared variables:

| Module | Models |
|---|---|
| `ServerState` | constants and their assumptions, variables, `Init`, `pthread_cond_signal`, room in the kernel's buffers |
| `MainThread` | `main` of dataServer: `mpc` is its control point; accept with its failure for lack of descriptors, address lookup, ^C, broadcast, join, clean up |
| `WorkerThread` | `ThreadPool_WorkerThread_Runs`, `Server_Send_Files_to_Client`: `wpc[w]`, `task[w]` (popped entry), `node[w]` (mutex) |
| `CommunicationThread` | `Server`, `Server_Insert_Files_To_Queue`: `cpc[c]`, `sock[c]`, `inserted[c]` |
| `RemoteClient` | `Client`, `Client_CopyFiles`: `rpc[c]`, `received[c]` |
| `DataServer` | all of them composed: `Next`, fairness, and the properties |
| `DirectoryCopy` | the abstract specification: copies grow file by file in order, completion is announced at the end |
| `DataServerInv` | the inductive invariant, in layers |
| `DataServerProofs` | its proofs |
| `MCDataServer` | instances for TLC: directories, symmetry |

The layers below. What the core takes for one step, or for a constant, is modelled
step by step here, and what a layer shows is what the core assumes of it:

| Module | Models | In the core |
|---|---|---|
| `SocketMutexes`, `SocketMutexSet`, `SocketMutexesProofs` | `Mutex_Socket_Queue` as the list of `Queue.c`, with `Queue_Find` pointer by pointer; and the map from sockets to nodes it implements | the set `Mutex_Socket_Queue`, `FindMutex` in one step |
| `BlockTransfer`, `BlockTransferProofs` | the two block loops and the metadata of one connection, sizes in `off_t`, `uint32_t` and `int` | two chunks per file |
| `Transfer`, `TransferProofs` | `Send_Data`, `Receive_Data`, byte by byte | chunks and messages are whole |
| `Handshake` | the exchange of request, confirmation and block size | `AcceptRequest`, `RejectRequest` |
| `ClientPath`, `Session`, `SessionProofs` | the strings of `Client_Resolve_FilePath`; composed with the exchange, from the client's argument to its first file | not visible |
| `DirectoryScan`, `DirectoryScanProofs` | `Server_Extract_Files_From_Directory` as a stack of open directories | `FileCount[c]`, the items in order |
| `TreeCopy`, `TreeCopyProofs` | the file system calls of several clients in one working directory | not visible |
| `MCSocketMutexes`, `MCTransfer`, `MCSession`, `MCDirectoryScan`, `MCTreeCopy` | instances for TLC | |
| `NumberSets` | nothing: lemmas about sets of numbers (a least and a greatest element, induction stated with a set) for the proofs | |

The component modules also hold the faulty variants of operations
(`PopTaskUnlocksEarly`, `ReadWholeBlock`, ...) that show that each property
can be broken by a plausible mistake in the code; no specification uses them.

### State and code

- `Files_Queue` is a sequence of `[socket, owner, item]`. The code has the file
  name and the socket; `owner` and `item` say whose file it is. Items
  `1 .. FileCount[c]` are the regular files in the order the scan finds them,
  `FileCount[c] + 1` is `TERMINATION_MSG`. `popped[c]` is a history variable.
- `mutex_files_queue` is its holder. What a thread does under a mutex that no
  other thread can observe is one action with the lock or the unlock next to it:
  a communication thread tests, inserts and unlocks in one step, or enters the
  wait; its `pthread_cond_signal` after the unlock is a step of its own. A worker
  holds the mutex over several steps (`wait`, `find`, `locksock`).
- A condition variable is the set of threads blocked in it. A thread at control
  point `waiting` and outside the set was woken and still needs the mutex.
- `Mutex_Socket_Queue` is the set of nodes, a node named by its client;
  `mutex_socket[c]` is the holder of the mutex in it. `Queue_Find` is one step.
  When `Queue_Delete` runs under it, it may read freed memory: the outcomes are
  to go on or to crash. Deleting a node whose mutex is locked crashes:
  `QueueNode_Delete` (`Queue.c:51`) takes the first eight bytes of the union for a
  file name and frees it, and in a locked mutex they are the lock word, 1 or 2,
  and a recursion count of 0: an invalid pointer. Of an unlocked mutex they are 0.
- `conn[s]` is the kernel's descriptor table. A worker writes to whoever the
  descriptor belongs to *now*. `accept(2)` of Linux reserves a descriptor before
  it waits, so it fails at the call when none is free.
- `toClient[c]` is everything written to a client, in chunks: two per file
  (metadata: length, size, name; content) and one for `TERMINATION_MSG`. An empty
  file is an empty content chunk. A write waits while `DataCap` chunks are
  unread, an ACK while `AckCap` messages are.
- `proc` ends as `failed` (`Print_Error`), `crashed` or `exited`; then all threads
  of the server stop, and clients hang or fail (`ServerGone`).
- `pthread_cond_destroy` of glibc waits for threads blocked in the variable, so
  `CleanUp` waits while `cond_queue_not_full` is not empty.
- The request and its confirmation are one step with two outcomes
  (`AcceptRequest`, `RejectRequest`): the exchange is strictly alternating and
  touches no shared state.
- SIGINT is handled on the main thread: that is the thread to which Linux delivers a
  signal sent to the process, as long as it does not block it, and no thread here blocks
  SIGINT. Not modelled is a SIGINT handled by another thread. A `read(2)` or
  `write(2)` of that thread would return EINTR and `Print_Error` end the process at
  once (`CommonFuncs.c:31, 44`), without `Stop_Server` and with files cut off;
  `ExitCutsNoFile` does not cover it. ^C that comes just before `accept(2)`, and so does
  not interrupt it, is modelled (`BlockInAccept`).
- `NoName` are the clients whose address `gethostbyaddr` may fail to resolve: such
  a client is accepted or ends the server (`LookupFails`).

Left out because the model shows it cannot happen: `Queue_Find` returning NULL
without a node having been freed under it (`LostOnlyWhenPulled`) and a write to a
closed descriptor (`SocketStillOwned`, `NodesHaveDistinctSockets`).

In the layers:

- `SocketMutexes`: `heap` is the memory for nodes. What a search reads in memory that is
  no node, because `free` and new owners write over all of it, may be anything: it may
  look like the node of any socket (`found`), have any pointer where `next` was
  (`Wild` leads nowhere), or end the process (`lost`). The same memory may be a
  node again by then. A thread is named by its descriptor, which is
  reused. A deletion waits for a search for the same socket: that the core's
  client has had everything when its node goes is `DeleteAfterLastWrite`, and
  the search it then still overlaps with is another client's.
- `BlockTransfer`: only positions of the stream are kept. Metadata counts as one
  byte. A client that does not find metadata at its position reads garbage, any
  number. `bytes_to_recv` is an `int`: from 2^31 on it is negative, and the
  comparison in `Client.c:107` is unsigned.
- `Transfer`: a byte is `<<message, place>>`, so a buffer that was overwritten can be
  told from one that was filled. `copied` is what a blocked `write(2)` has put into the
  connection. The sender may get SIGPIPE or be interrupted by ^C.
- `Handshake`: a byte is `<<message, value, place>>`. A receiver takes what comes: the
  length of a text is whatever its next two bytes say, and for two letters of
  `WRONG_MSG` that is `MaxLength`, more than ever comes.
- `ClientPath`: strings are sequences of characters, `strstr` and `strrchr` are defined
  by what they find.
- `DirectoryScan`: a path is a sequence of nodes. `stat(2)` follows a link hop by hop
  (`Hops`), to a file, a directory, another link, itself or nothing; the kernel counts the
  links over the whole path. The set of paths that resolve shrinks as nodes are
  deleted. `readdir(3)` may return entries that are
  gone, in any order.
- `TreeCopy`: one action per system call. `files` maps names to inodes, so that a file
  that is unlinked while somebody writes to it, or opened twice, is what it is. Bytes
  are `<<client, file>>`. Clients with one output directory and one name of the directory
  write the same copies (`Writers`).

## Properties and runs

Runs that pass:

| Run | Instance | Shows |
|---|---|---|
| `Core` | 3 clients (one file; none; a wrong directory), one of them maybe without a name, 2 workers, 2 descriptors, queue of 1, buffers of 1 chunk and 2 ACKs, spurious wakeups, ^C at any moment; 1,415,226 states | `QueueBounded`, `StreamInOrder`, `DeleteAfterLastWrite`; no lost signal (`EntriesWakeWorkers`, `RoomWakesCommunicationThreads`); descriptors reused, leaked and exhausted but never mixed up (`NodesHaveDistinctSockets`, `SocketStillOwned`); `NoWorkerInCleanUp`, `ExitCutsNoFile`; the refinement `ImplementsDirectoryCopy`; `TypeOK` and the invariant of the proofs |
| `Liveness` | 2 clients (1 file, none), 2 workers, buffers that hold all ACKs; 282,000 states | `EveryClientServed`, `SocketsReleased` under the fairness below |
| `List` | 4 sockets, 4 nodes of memory that holds anything once it is freed; 16,013 states | `ListIntact`, `LostOnlyWhenPulled`, `FindsItsNode`, and that the list with its unlocked searches implements the map `SocketMutexSet` |
| `Blocks` | 3 files of 0 to 9 bytes with a block size of 3, `int` of -4 to 3 and `uint32_t` of 0 to 7, files that shrink or vanish; 58,157 states | `InSync`, `CopiesComplete`, `EveryFileCopied` |
| `Bytes` | 4 messages of 2, 0, 4 and 3 bytes over a connection of 3; cut transfers, ends that die; 100,404 states | `BoundariesKept`, `WholeUnlessShort`, `AllDelivered` |
| `Request` | 13 arguments (one ends in two slashes), 6 files below them, 2 block sizes; 2,444 states | `AgreeBeforeScan`, `CopiesOnlyConfirmed`, `RightPlace`, `ParentsFirst`, `ValidRequestsServed` |
| `Scan` | a nested directory; one with a link back to itself; one with links to a file, to a link, to itself and to nothing; entries deleted during the scan; 197,944 states | `ScanComplete`, `ScanEnds` |
| `Copies` | 3 clients whose process ids are cut to one output directory, two of them with directories of one name, whose trees overlap and disagree; an empty disk, old copies, parts of copies; 487,978 states | `CopyComplete`, `FailsOnlyInConflict` |

Runs that end with a violation: `NodeFreed`, `AckDeadlock`, `HeadOfLine`,
`LostBroadcast`, each on the smallest instance that shows it; see the findings.

Bounds of the core. Two workers are what the order of a stream needs to go wrong
(one overtakes the other between pop and mutex), and two clients what the shared
queue needs; the third client makes a leaked descriptor and a reused one meet. A
queue of one entry makes waiting frequent: a file and `TERMINATION_MSG` go through
every wait. The safety properties, of the core and of the layers, are proved for all
values; the bounds only matter for liveness, and for showing that the cases the
properties are about do happen.

Bounds of the layers. `MaxFiles = 3`: the client's block size can drift at the first
file, be used at the second, and what the second leaves behind be seen at the third.
`FileSizes` cross every boundary of the three integer types; that the real widths
are larger changes nothing but the distance between the boundaries, and the theorems
hold for all of them. `Capacity = 3` is less than one message and more than another.
`MaxLinks = 2` and `MaxOpen = 4` stand for the kernel's 40 links and some 1000 open
files: in `Scan` a path through a link to a link resolves, the link to itself is refused,
three levels of directories fit, and the directory that contains itself has
more levels than may be open. `PidRoom = 2` stands for the five digits of
`Client.c:74`. `MaxLength` stands for 65,535 and is longer than any text that is sent.

`CHECK_DEADLOCK FALSE` everywhere: a server whose clients are all served waits
in `accept(2)`, and a process, a scan or an exchange that has ended does nothing.

Symmetry is used for workers and descriptors, sockets and memory, and only in runs
without liveness. `Liveness` instead takes the lowest unused descriptor
(`FairSpecFirstUnused`), as the kernel does. The constraint disables no action in a
state where another choice of descriptor was possible, so the fairness of the main
thread is the same.

Fairness in the core. Weak fairness for each thread of the server and for each client
that keeps reading (`Stalled` is the set of those that may stop): the kernel
schedules every thread that can run. No client is forced to connect, no user
forced to type ^C, and wakeups without a signal are not forced either. Mutexes
need no more: a waiting thread is always overtaken by finitely many finite
critical sections in the checked instances. `AckCap` at least the number of a
client's messages is an assumption of `Liveness`, not a guarantee of the code:
`AckDeadlock` is what happens without it. `Stalled = {}` likewise: `HeadOfLine`.

Fairness in the layers. The same: weak fairness for the two ends of a
connection (`Blocks`, `Bytes`, `Request`) and for the scan (`Scan`). In `Blocks` the
server need not send a next file; in `Bytes` nobody need die. No step of the
environment, such as a deletion, is fair.

### Findings

1. `NodeFreed`: the client's `END` can arrive before the worker that wrote
   `TERMINATION_MSG` unlocks the socket's mutex (`Server.c:438`). The node is then
   freed with its mutex locked, and the server dies (`Queue.c:51`).
2. `AckDeadlock`: no ACK is read before all files are queued (`Server.c:56-64`). A
   directory with more files than the buffers hold ACKs blocks client, worker and
   communication thread for ever.
3. `HeadOfLine`: a worker waits for the mutex of a socket with `mutex_files_queue`
   locked (`Server.c:429`), so one client that does not read stops all others.
4. `LostBroadcast`: the broadcast of `ThreadPool_Destroy` can fall between a
   worker's test and its `pthread_cond_wait` (`Server.c:417-418, 455`).

### What the passing properties leave open

The models contain what the code does in the following cases too, and the properties
are stated so that they allow it. A reader of the properties should know them:

- A search is lost when the node it stands on is freed under it (`Server.c:428`,
  `LostOnlyWhenPulled`): in the core, `DeleteNode` may then crash the server.
- A cut `read(2)` or `write(2)` damages the message, without anybody noticing
  (`CommonFuncs.c:31, 44`, `WholeUnlessShort`): the loop goes on at the start of the
  buffer. A block of a file larger than what the socket holds at the time is such a
  message.
- A client that dies while the server writes to it takes the server with it: SIGPIPE
  (`CommonFuncs.c:31`, `BrokenPipe`).
- A file that shrinks while it is sent stops its worker for ever, one that vanishes
  ends the server (`Server.c:286-349`, `FileChanged`); sizes of 2^32 and more are
  cut to 32 bits (`Server.c:295`), hence the condition in `CopiesComplete`.
- `WRONG_MSG` comes without a length, so the client of a wrong directory waits for ever
  (`Server.c:122`): `ValidRequestsServed` is about valid ones.
- A directory named without a slash crashes the client (`Client.c:191-192`, `Cut`); one
  whose name occurs in `DEFAULT_DIR` is copied to a longer path than it should
  (`Client.c:190`): the condition `Unambiguous` of `RightPlace`.
- A link to nothing, too many links, or an entry deleted between `readdir` and `stat`
  ends the server (`Server.c:167`, `StatFails`): `ScanComplete` is about scans that
  end otherwise.
- Empty directories are not copied (`Server.c:228`).
- Clients whose process ids share their first five digits have one output directory
  (`Client.c:72-74`), though `Client.c:177-178` promises each a separate one. When they
  ask for directories of one name, as most clients of `multiple_clients_test.sh` do,
  they delete and overwrite each other's copies, and one may fail in `unlink(2)`
  when the other was faster (`Client.c:240-243`). The `Copies` run contains these
  behaviours, and the properties say what is left: a copy holds the file of one or more
  of the clients that write its name and nothing else, or one of these is replacing it
  (`CopyComplete`), and clients fail over such files only (`FailsOnlyInConflict`).
- ^C between the test of `RUNNING` and `accept(2)` is noticed with the next client or
  the next ^C (`dataServer.c:116-119`); ^C before the first client makes
  `Queue_Destroy` dereference NULL (`dataServer.c:161`, `CleanUp`).

## What is proved

For the core, from `ConstantsAssumption` (finitely many clients, finitely many workers
and at least one, capacities at least 1, distinct names) and nothing else, for `Spec`,
that is without fairness and with spurious wakeups and ^C allowed:

| Theorem | Property |
|---|---|
| `TypeCorrect` | `TypeOK` |
| `QueueIsBounded` | `QueueBounded` |
| `NoEntryStranded`, `NoThreadStranded` | `EntriesWakeWorkers`, `RoomWakesCommunicationThreads` |
| `DistinctSockets`, `SocketsStillOwned` | `NodesHaveDistinctSockets`, `SocketStillOwned` |
| `StreamsInOrder`, `DeletesAfterLastWrite` | `StreamInOrder`, `DeleteAfterLastWrite` |
| `NoWorkersInCleanUp`, `ExitsCutNoFile` | `NoWorkerInCleanUp`, `ExitCutsNoFile` |
| `Implementation` | `ImplementsDirectoryCopy` |

None of these is inductive by itself. `DataServerInv` builds the invariant in
layers, each inductive given the ones before it:

1. `TypeInv`: types, and bounds on the counters at each control point.
2. `LockInv`: `mutex_files_queue` is held by the worker at `wait`, `find` or
   `locksock`, hence by one at most; who is in a wait set is at that call.
   `RoomInv` counts: the free places are at most the workers that are still
   to signal plus the communication threads that are awake. (A bare "somebody
   will signal" is not inductive: two places may be free, and the first thread
   that wakes up takes only one.)
3. `ConnInv`: a descriptor is its thread's own until that closes it, and a node is
   in the list only inside that time.
4. `QueueInv`: the queue holds, per client and in order, exactly the items inserted
   and not popped, so the front entry is the next item of its client.
5. `StreamInv`: when nobody has the mutex of a socket, the stream ends with the
   current item; when a worker has it, the stream is at the worker's control point
   of that item. *Current* is the last item popped, or the one before while
   its worker is between the pop and the lock of the socket's mutex. This is where
   the nested locking of `Server.c:429-432` matters: at most one worker is between
   the two, because it holds `mutex_files_queue`. Completeness of a stream then
   implies that nothing of the client is queued or being sent, which is what makes
   the `END` of the client safe.

`Invariant` puts the layers together. `ShutdownInv` adds that the main thread
joins before it cleans up. The refinement follows from `StreamInOrder`: what a
client has read is the beginning of its directory, so each chunk it reads adds
the next file, announces the end, or changes nothing visible.

For the block loops, from `SizesAssumption` (the block size is positive and fits an
`int`; any width of `int`, any sizes of files) and with files that may change:
`BlockTransferProofs` has `TypeCorrect`, `StaysInSync` (`InSync`) and
`ClosedCopiesComplete` (`CopiesComplete`). Its invariant `BlockInv` is `TypeOK` with
`LogInOrder` (each metadata is where the file before it ends, by the sizes
announced), `ServerInStep` (what the server has written plus what it has to send is
the end of the last file) and `ClientInStep` (the same for the client's place, file
and count, taken modulo 2^32, because the count is an `int` and begins negative for
large files). The heart is `BlockArithmetic`: with the unsigned comparison of
`Client.c:107`, a block leaves as many bytes to come, modulo 2^32, as it should. The
block sizes of the two sides need not agree: each lies between 1 and
`BlockSize`, and the counts are what matters.

For the clients' disk (`TreeCopyProofs`), from `TreeAssumption` (each client's files and
directories are told apart; the copies already on the disk do not lie below one another),
for any number of clients, any trees, any old copies, and whoever shares an output
directory or the name in it: `TypeCorrect`, `CopiesAreComplete` (`CopyComplete`) and
`ClientsGetThrough` (`FailsOnlyInConflict`). `CopyInv` says: from a client's first look at
the name of a file on (`Seen`), what is under that name was made by one of its writers
(`Fresh`), never by an earlier session; from its `open` on (`Opened`), something has been
written to it, or a writer is about to, or to make another (`Settled`), which is what makes an
`open` without `O_TRUNC` right; and the inode of a file holds bytes of its writers only.
`SamePath` shows that two files have one path only when both are the same file of
clients in the same place. That clients fail only in conflict needs the directories on the way to a file to
be there (`Going`), or a rival's file in their place (`PrefixOfRival`); once a client has
such an excuse it keeps it (`ExcusedStays`).

For the list of mutexes (`SocketMutexesProofs`), from `ListAssumption` (any finite
number of sockets and nodes of memory): `TypeCorrect`, `ListStaysIntact` (`ListIntact`),
`WalksLostOnlyWhenPulled` (`LostOnlyWhenPulled`), `WalksFindTheirNode` (`FindsItsNode`), and
`ListImplementsSet` (`ImplementsSet`): each step on the linked list is a step of
`SocketMutexSet`. The list is what following `next` gives, which is recursive; the
invariant `ListInv` instead says that *some* function from positions to nodes has the
first node in front, each node's `next` behind it and the nodes of the serving threads in it, and
`NatSetInduction` shows that following `next` gives its values. It also has the node that a search
looks for at or behind the place where the search stands, which is a node of a thread
(`Behind`), unless that was freed under it. A search that was pulled off the list may go
anywhere and return anything: `SocketMutexSet` says so, and its searches that no
deletion disturbs return the node of their socket.

For the exchange and the names (`SessionProofs`), from `HandshakeAssumption` and
`StringAssumption`: `TypeCorrect`, `SidesAgreeBeforeScan` (`AgreeBeforeScan`) and
`CopiesAreConfirmed` (`CopiesOnlyConfirmed`), by an invariant that lists what both sides
hold and what is in the connection at each phase of the exchange, which strictly
alternates; `PathTypeCorrect`, `CopiesInTheirPlace` (`RightPlace`) and `ParentsMadeFirst`
(`ParentsFirst`), for strings of any characters and length: that the first occurrence and
the last slash that the code cuts at are what it takes them for follows from
`LeastNumber` and `GreatestNumber`.

For the transfer of bytes (`TransferProofs`), from `TransferAssumption`, with any sizes of
messages and any capacity: `TypeCorrect`, `BoundariesAlwaysKept` (`BoundariesKept`) and
`OnlyShortOnesDamaged` (`WholeUnlessShort`). The invariant numbers all bytes of all messages:
`Start(m)` is where message `m` begins, and the connection holds the consecutive
numbers from what has been read to what has been written, whatever the calls were cut to.

For the scan (`DirectoryScanProofs`), from `ScanAssumption`, for any nodes, links to
anything, directories that contain themselves, any limits, any order of `readdir` and any
deletions: `TypeCorrect` and `ScansAreComplete` (`ScanComplete`). The invariant says which
paths are still *to come* (`ToCome`): those that begin with the argument of the call, and those
through an entry that an open directory has yet to return. No queued path is to come
(`QueuedInv`), so none is queued twice; each path of a file that is still there is queued or to
come (`NoneMissed`), so none is missed; and the paths of the open directories and of the call
run through entries that have been returned (`StackInv`, `CallInv`), so the two kinds of
to-come paths do not overlap. `RegularFilesAre` shows that the recursive reference
`PathsBelow` describes these paths.

Only model-checked: liveness (`EveryClientServed`, `SocketsReleased`,
`EveryFileCopied`, `AllDelivered`, `ValidRequestsServed`, `ScanEnds`), which needs
fairness and ENABLED and is out of the prover's reach; and the four violations.

## Not modelled

- Parsing of the command line, creation of the listening socket, log output, the
  `Makefile`, and `multiple_clients_test.sh`, which starts ten clients and checks
  nothing. The arguments are the constants of the models.
- What `pthread_create`, `malloc` and their like do when resources run out: the code
  ends the process, as for the errors that are modelled.
- The path of the copy that `Client_Resolve_FilePath` writes back over the server's
  path (`Client.c:250-251`), into a buffer that may be too short: memory contents of a
  string that is only printed.
- The layers are checked one by one, `Handshake` and `ClientPath` together. Composing
  byte-level transfer with the threads of the core is beyond TLC; what a layer
  assumes of the one below is stated at the head of its module.
