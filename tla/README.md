# TLA+ models of the hw programs

The repository is a collection of small C programs for Linux, one exercise to a file. Most of its logic is
concurrency and inter-process communication: threads around a queue, threads or processes around sockets, pipes
and message queues. There are hardly any comments, no specification and no tests, so the code is the only
reference; every definition here is translated from it, and `PROJECT.json` names the lines.

## 1. Inventory

| Component | State it keeps | Operations | Interacts through | What is hard | What makes it correct |
|---|---|---|---|---|---|
| Queue server `sockets/hw2/server queue` | ring of descriptors with front, rear, count; mutex; two condition variables; worker threads | accept, add_to_queue, remove_from_queue, echo loop | shared ring, TCP | lost or spurious wakeups, wrap-around, a message in several pieces, SIGPIPE, failed startup | one owner for each connection; nobody asleep while work waits; every piece echoed once, to its sender; every connection served |
| Thread-per-connection server `sockets/hw2/pserver` | one heap cell for each descriptor on its way to a thread | malloc, accept, pthread_create, echo loop | heap cell, TCP | cell reuse while a thread starts, failed accept or pthread_create | a thread gets its own descriptor; only a failed creation leaks one |
| Pool server `sockets/hw2/pserver pool` | stack of thread numbers, mutex, condition variable, pipe | pop, create, read pipe, push | shared stack, pipe, TCP | numbers lost by failed creations, main() waiting on itself | numbers conserved; main() blocks only when all are lost |
| TCP and UDP server `sockets/hw2/multiproto` | select() set, two sockets | accept and echo once, receive and reply | TCP, UDP | stale readiness, blocking in one client's read, lost datagrams, short reads | no blocking call on a socket without data; a datagram answered once at most, and not left in the buffer |
| Shop `pthread/task3.c` | stores, needs, counter, one mutex for each store | customer, loader, main | shared arrays, trylock | two-statement emptying, counter increment, order of the ends | goods conserved; loader leaves last; the program ends |
| Shell with a pipe `pipes/task3.c` | two children, two descriptors of a pipe | parse, fork, dup2, exec, close, wait | pipe, process table | an end kept open, SIGPIPE too early, failing fork or exec | nothing left over at the prompt; end-of-file only at the end; every line ends |
| Shell without pipes `processes/task3.c` | a line; a pile of shells | read, fork, exec, wait | process table, terminal | failed exec becomes another shell; end-of-file not looked at | one reader of the terminal; the pile ends |
| File manager `file system/fm` | two panels (entries, cursor, scroll offset, path), working directory | keys, list_files | working directory shared by the panels | a path that is not the working directory, refused calls, stale entries | cursor on screen; names looked up in the path of the panel that entered last |
| POSIX queue `mq/posix` | a kernel queue that outlives processes | open, send, receive, unlink | the queue, both ways | own message read back, sessions that die | bounded leftovers; a session hangs only if a client died holding the message |
| System V queue `mq/system v` | a kernel queue with typed messages | msgget, msgsnd, msgrcv, msgctl | the queue | as above; removal under waiting clients | replies heard once; no client waits for ever |
| Phone books `structs/task.c`, `dynamic/task.c` | array with a count; reallocated block | add, delete, search, print | nothing | shifting, swapping with the last, empty block, failing realloc | an ordered list; the same names in both |
| Shared memory `shm/*` | a page of memory that outlives processes | create, write, spin, overwrite, remove | the page | unsynchronised writes in pieces, pages left by interrupted servers | a server leaves its loop only on something of a client's; a writer frees it |
| FIFO `pipes/task2*` | a name, a buffer, open ends | mkfifo, open, write, read, unlink | the FIFO | opens that wait for each other, a name removed under a waiting server | one pair does not miss each other; only a client that was early strands a server; whoever meets somebody ends |
| Socket pairs `sockets/hw1` | a port or path, a backlog, datagrams | bind, connect, accept, one request, one reply | sockets, files of local sockets | names left behind or taken away, TIME_WAIT, a path all clients share, lost datagrams, SIGPIPE | a server comes up and is reachable; replies reach who asked; a promised client ends |
| Exercises with arrays, texts, bits, the checksum of `sockets/hw7` | none | one computation each | nothing | restart of a search after a partial match, carries, a field read before it is set | results equal their definitions |
| Everything else | see section 8 | | | | |

## 2. Modules

| Module | Models | Built on |
|---|---|---|
| `EchoClients` | `client.c` and the kernel's side of a connection: backlog, pieces under way, reset, SIGPIPE | |
| `EchoService` | the abstract promise of the four servers of `sockets/hw2` to a TCP client: a server for each connection; no code of its own | `EchoClients` |
| `ServerQueue` | `server queue/server.c` | `EchoClients` |
| `HandoffQueue` | the abstract promise of `client_queue`: a bounded FIFO hand-off; no code of its own | |
| `ServerQueueProofs` | theorems about `ServerQueue`: its invariants, and that it implements `HandoffQueue` and `EchoService` | `ServerQueue` |
| `EchoThreads` | the echo loop of a thread with its own connection | `EchoClients` |
| `ThreadServer`, `PoolServer` | `pserver/server.c`, `pserver pool/server.c` | `EchoThreads` |
| `EchoThreadsProofs` | lemmas about the backlog and the pieces of a message that serve both | `EchoThreads` |
| `ThreadServerProofs`, `PoolServerProofs` | theorems about either server | `EchoThreadsProofs` |
| `MultiProtoServer` | `multiproto/server.c`, `client_udp.c`; `client_tcp.c` is `EchoClients` | `EchoClients` |
| `Shop` | `pthread/task3.c` | |
| `PipelineShell`, `NestedShell` | `pipes/task3.c`, `processes/task3.c` | |
| `FileManager` | `file system/fm/file_manager.c` | |
| `PosixQueue`, `SysvQueue` | `mq/posix`, `mq/system v` | |
| `SharedMemory` | `shm/posix` and `shm/system v` | |
| `Fifo` | `pipes/task2server.c`, `pipes/task2client.c` | |
| `SocketPairs` | the four pairs of `sockets/hw1` | |
| `PhoneArray`, `PhoneHeap` | `structs/task.c`, `dynamic/task.c` | |
| `PhoneBook` | the abstract promise of the array: an ordered list | |
| `PhoneBooks` | both phone books given the same commands | `PhoneArray`, `PhoneHeap`, `PhoneBook` |
| `Exercises` | the loops of `byte_ops`, `pointers`, `arrays` and the checksum of `sockets/hw7/client.c` | |
| `MCServerQueue`, `MCThreadServer`, `MCPoolServer`, `MCFileManager` | instances for TLC | the module of that name |
| `MCShells` | the two shells | `PipelineShell`, `NestedShell` |
| `MCMailboxes` | the shared memory, the FIFO and the two message queues | `SharedMemory`, `Fifo`, `PosixQueue`, `SysvQueue` |
| `MCSockets` | the multi-protocol server and the single-shot pairs | `MultiProtoServer`, `SocketPairs` |
| `MCOneProcess` | the file manager, the phone books, the exercises and the shop | `MCFileManager`, `PhoneBooks`, `Exercises`, `Shop` |
| `ShellsProofs`, `MailboxesProofs`, `SocketsProofs`, `OneProcessProofs` | theorems about every program of the composition of that name | `MCShells`, ... |

The last four MC modules put side by side programs of one kind, of which the user runs one: `program` says which, and
the variables of the others keep an initial value. They extend one of their components and instantiate the others
(`Nested`, `Pipe`, `Posix`, `Sysv`, `Pairs`, `Books`, `Exercise`, `Shop`). A theorem `Pairs!Spec => ...` is about that
component's own specification.

Conventions. A thread's or process's place in its function is `pc` (`spc`, `cpc`, `mpc`, `hpc` where there are
several kinds); an action is one step that somebody else can observe (a lock, a wait, a signal, a system call, a
statement on shared data), and names the function it belongs to in the heading above it. Local work between two
such steps is part of the step. Error paths that only report and exit are joined with the other causes of the
same exit (`StartupFails`, `BootFails`, `Dies`). Variables marked *history* record something for a property and
guard no action.

Three modules are abstract specifications that others implement: `HandoffQueue`, `PhoneBook` and `EchoService`. The last has no threads, cells, numbers or queue: each connection is accepted,
read, echoed and closed by itself (`Read`, `Echo`, `Close`), what one read() returned is echoed whole before the next, and
who waits behind whom is left open. `held[c]` is what has been read of a connection and not sent back. Two constants tell
the servers apart: whether a connection may be closed before anything of it was read (`CAN_REFUSE`: the pool server, when
pthread_create fails), and whether a failed accept() ends the process (`ACCEPT_IS_FATAL`: the multi-protocol server). The
queue server, `ThreadServer`, `PoolServer` and `MultiProtoServer` each say in `ServiceSpec` what `held` is for them
(`PiecesHeld`: the count of the thread that has the connection).

Definitions introduced by a comment "With a fault: ..." are faulty variants of the definition that follows them
(a dropped guard, a missing signal, a forgotten close). No specification uses them: each shows, put in the place
of the right one, that a property notices the fault. `PROJECT.json` lists which property catches which.

### How state corresponds to code

* **EchoClients.** A connection is named by its client. TCP keeps no message boundaries, so the client's one
  message is `UNITS` pieces, and `toServer`, `toClient`, `got` count the pieces in either direction and in the
  client's hand: contents and order within a connection are left out. `srv[c]` is the server's descriptor: `none`
  before accept(), `open`, `closed` by the server, `gone` with the process. A client that closes with part of the
  reply unread, or before an echo reaches it, leads to a reset; the next send() on it raises SIGPIPE, which none
  of the servers handles (`SrvSendKills` with `SrvExit`). Failed socket(), inet_pton() or connect() is
  `CannotConnect`, an interrupted client `ClientKilled`.
* **ServerQueue.** `queue, front, rear, count` are `client_queue_t`; a taken slot keeps its stale value as in the
  code. `mutex`, `not_empty`, `not_full` are the holder and the wait sets. `sock` is `new_socket` of main() and
  `client_socket` of a worker. `pthread_cond_wait` is `AddWait`/`RemoveWait` (release and sleep in one step), then a
  signal or `SpuriousWakeup` sends the thread back to taking the mutex and testing `count` again.
  The code after the endless loop of main() cannot be reached.
* **ThreadServer.** `heap` maps cells to their content or `Free`; malloc() may return a cell that a thread has just
  freed, which is what makes early reuse visible.
* **PoolServer.** `available_threads`, `thread_count`, `pipe`, `mutex` are the code's; `thread_id = NoId` means
  main() holds no number. `cond` has no wait set: main() alone waits on it and alone signals it, so a signal never
  wakes anybody.
* **MultiProtoServer.** `readfds` holds what select() reported; datagrams wait in a receive buffer of `UDP_QUEUE`
  and may be lost on either way (`lost`), which the results of sendto() do not tell: `Places` counts where a client's
  request is, with the reply to it.
* **Shop.** `stores`, `need`, `satisfied_customers` and the mutexes are the code's; the emptying of a store (two
  statements) and the increment (a read and a write) are two steps each. sleep() and usleep() order nothing.
* **PipelineShell.** `readers` and `writers` are the processes that hold an end; fork() copies what the shell
  holds, the end of a process drops it. A command may stop between calls, never inside a blocked one.
* **NestedShell.** `word[p]` is how long the first word in the `line` of that process is; at end-of-file it loses one
  character each round. A blank line is a null pointer for strcmp() and ends the process.
* **FileManager.** `files[p]` is what the panel shows, which after a refused opendir() need not be what `current_path[p]`
  holds; `entered` (history) is the panel with the last Enter on a directory; `Target[d][name]` says what a name means in a directory. chdir() resolves the name in `cwd`, and getcwd() and list_files() follow
  whether it succeeded or not. The tree does not change while the program runs.
* **PosixQueue, SysvQueue.** A process is one run of a program. Queues are objects: unlinking frees the name while
  open descriptors go on (POSIX), removal makes later calls fail (System V). A server is started only when none
  runs, and may die anywhere, leaving the queue behind for the next.
* **SharedMemory.** An object holds its first three bytes (`front`) and the rest (`back`), since strcpy(), sprintf() and
  strcmp() go over a message piece by piece while the other side writes. `api` tells the pairs apart: a POSIX object has
  no bytes before ftruncate(). The busy loop of the server is `Compare`; it leaves on the first half that differs and then
  reads the memory again to print it, as the code does.
* **Fifo.** `readers` and `writers` are those who have an end or wait in open() for the other; `OpenEnd` wakes everybody who
  waits. No result is looked at in the code, so a client that finds no FIFO still removes the name at its end.
* **SocketPairs.** `kind` is the pair. `path` is the name or port and who bound it last, `clientPath` the one of the local
  datagram clients; `timewait` is a port kept by the kernel. A message is named by the client that sent it, which is
  what tells a reply from somebody else's. Messages fit into a read().
* **Exercises.** An action is a whole run: input and result. Numbers have `4 * BYTE` bits, and carries, masks and shifts
  are those of that width. The uninitialised field of the IP header is any value.
* **PhoneBooks.** A record is a name and the rest. Searching and printing change nothing.

## 3. Runs

All runs of this project are expected to pass. `CHECK_DEADLOCK FALSE` is set in all of them because each of these
programs really stops, or waits for ever for a user, a client or a datagram that does not come: the clients and
sessions of an instance are used up after finitely many steps. That nothing hangs which should go on is what
the liveness properties say.

| Run | Instance | Shows |
|---|---|---|
| `server_queue` | 3 clients, 2 workers, 2 slots, message of 3 pieces | `OneOwner`, `NoLostWakeup`, `EchoConservation`, `KilledByEarlyCloseOnly`; the ring implements `HandoffQueue` (`HandoffSpec`), the server `EchoService` (`ServiceSpec`) |
| `server_queue_liveness` | 2 clients, 2 workers, 1 slot, 2 pieces | `NobodyLeftWaiting` |
| `thread_server` | 2 clients, 2 threads, 3 cells, 2 pieces | `HandoverIsSafe`, `EveryClientEnds` |
| `pool_server` | 3 clients, 3 threads, 2 numbers, 2 pieces | `PoolShrinksOnlyByFailures` (`NumbersConserved` and `WaitsOnlyWhenAllLost`), `OneClientAtATime`, `EveryConnectionServed` |
| `multiproto` | 2 TCP and 2 UDP clients, buffer of 1, 2 pieces | `ReadinessNotStale`, `LeftOnlyAfterEcho`, `OneReplyEach`, `UdpNotStarved` |
| `shop` | 2 stores, 2 customers, stock and need up to 2 | `EndsInOrder`, `GoodsConserved`, `EndsWhenSatisfied` |
| `file_manager` | 5 directories, panels of 2 rows | `CursorVisible`, `MovesFromLastEntered` |
| `shells` | a pipe of 1 piece, up to 3 written; 4 processes, words up to 3 | `CleanPrompt`, `PipeTellsTheTruth`, `EveryLineEnds`; `OneForeground`, `EndsAfterEof` |
| `message_queues` | 3 sessions, 2 clients, 3 queues of 2 messages | `LeftoversBounded`, `ServerEnds`; `AnsweredByClients`, `ClientsEnd` |
| `mailboxes` | 2 servers, 2 clients, 2 pieces of memory, 2 FIFOs | `HearsAClient`, `WriterFreesServer`; `FifoIsSafe` (`StrandedByClientPast` and `OnePairIsSafe`), `MeetingEnds` |
| `socket_pairs` | 2 servers, 2 clients, 4 kinds, backlog 0 (one connection) | `ServerReachable`, `OwnReply`, `PromisedClientEnds` |
| `sequential` | 2 names, 2 contents, 3 slots, 4 heap records; bytes of 2 bits, halves of 3, 3 words, texts up to 4, arrays up to 6 | `SameNames`, `ArrayIsList`; `ResultsRight` |

Each property is stated in words above its definition.

**Why the bounds are enough.** Three clients for two workers and two slots make the ring wrap (rear passes the end
while front is behind it), fill up, and leave a connection waiting while both workers are busy; one slot with two
clients makes main() sleep on `not_full` while workers sleep on `not_empty`. A message of three pieces can be
split between reads in every way, with an echo going out between two reads and a reset arriving before a third.
Three cells are one more than the two threads need. Two thread numbers are few enough for every creation to fail
and main() to block. In `shop` every store may be visited by two customers and the loader at once, from every initial
stock and need. A pipe of one piece makes the left command block with output left. Four processes leave room for
three shells piled up and a command. The second row of a panel makes a listing of four entries scroll, and the
tree has two subdirectories of one name, so that a name means something in the wrong directory too. Three
sessions let two die before the third, which then finds the queue full. Two servers and two clients of a mailbox or a
socket pair are the fewest with which a name can be taken away from somebody, left behind for somebody, or a reply
meet the wrong client; with backlog 0 the second client already waits for the first. Bytes of two bits and halves of
three make every carry and mask of the exercises happen, and texts of four letters over two letters hold every overlap
of a partial match with the next occurrence. The phone books hold two namesakes with a
third record between, before or behind them. Symmetry is used in `server_queue` only (clients and workers, no liveness).

**Bounds of the model**, as opposed to parameters of the code: `UNITS`, `STORE_BOUND` (a store that holds as much is
not filled further; it still meets any need), `OUTPUT`, `WORD`, `MAX_RECORDS`, `TEXT`, `SIZE`, and the finite sets of
clients, threads, cells, processes, queues, objects and sessions.

## 4. Fairness

Every thread or process of the program that can take a step eventually does (weak fairness): the scheduler does
not stop threads. Where a step can be enabled and disabled for ever by others, strong fairness is used and said
so above the definition: taking the mutex in `ServerQueue` (spurious wakeups of others could take it again and
again) and accept() in `ThreadServer` (a failing accept() would otherwise be repeated for ever). A client that
is connected goes through its `main()`. Nothing else is owed: no client has to connect, no user to type, no
datagram to arrive, no spurious wakeup, interrupt or failure to happen, no run of a program to be started (one that is
running and can go on does), and commands that stop early are allowed but
not relied on, since a command blocked in read() or write() cannot stop.

## 5. Proofs

Every invariant that a run checks is a theorem for every value of the constants; so are the action
properties `GoodsConserved` and `MovesFromLastEntered`, the type invariant of every module that has one,
and the refinements `HandoffSpec`, `ServiceSpec` and `ArrayIsList`;
for the other three servers `ServiceSpec` is a theorem without a run of its own. Each proof rests on the named assumptions of the modules it is about and on nothing else.

**The queue server.** `ServerQueueProofs` uses the named assumptions of `EchoClients` and `ServerQueue` and nothing else:
positive sizes, a finite set of workers, distinct thread names.

* `TypeCorrect`: `Spec => []TypeOK`;
* `SyncCorrect`: the mutex is held by exactly the thread inside its critical section, and the wait sets are
  exactly the sleeping threads;
* `NoLostWakeupCorrect`: `Spec => []NoLostWakeup`;
* `OneOwnerCorrect`: `Spec => []OneOwner`;
* `EchoConservationCorrect`: `Spec => []EchoConservation`;
* `KilledByEarlyCloseOnlyCorrect`: `Spec => []KilledByEarlyCloseOnly`;
* `HandoffCorrect`: `Spec => HandoffSpec`, the refinement of `HandoffQueue`;
* `ServiceCorrect`: `Spec => ServiceSpec`, the refinement of `EchoService`.

None of these is inductive as it stands, and the proof climbs in layers, each inductive relative to those below:

1. **Kinds**: what kind of value each variable holds, without the bounds on counters, which need the later layers.
   The ring's `count <= QUEUE_SIZE` is here, because its two guards keep it.
2. **Sync**: lock ownership and wait sets. Without it two threads could be inside the critical section, and
   nothing about the ring would survive a step. `NoLostWakeup` is inductive on top of it: the proof counts the
   workers about to look at `count`, and each step changes that number, `count` and the promised signal together.
3. **Owned**: `OneOwner` strengthened by what the hands and the backlog hold: a thread's `sock` is set exactly at the
   places between taking and giving up a connection (`HandsFull`), and a connection in the kernel's backlog has not
   been accepted (`Backlogged`). That is why the connection main() inserts is not already in the ring. The
   arithmetic of the ring is in three lemmas: the next slot is in range (`NextSlotFact`), inserting adds exactly the
   slot `rear` to the window (`WindowGrows`), taking removes exactly `front` (`WindowShrinks`), at the wrap too.
4. **Pieces**: the balance of pieces for a connection in every state of its client, which gives both
   `EchoConservation` and the upper bounds `TypeOK` claims for the counters.
5. **Resets**: a connection is reset only after its client has ended with a piece unread, and what can still be read
   is less by that piece. The send() that kills holds another piece, so the message has at least two.
6. **Served**: `bytes_read` is 0 but between read() and send() (`InHands`), a worker about to close() has a client that is
   gone (`ClosesEnded`), and nothing is accepted before the workers run (`Started`).

The refinement of `HandoffQueue` needs layers 1 to 3. `RingSeqAppend` and `RingSeqTail` say that the slots from `front` on, read as a
sequence, grow at the end and shrink at the head, across the wrap; then `AddInsert` is `Put`, `RemoveTake` is `Take`,
`WorkerClose` is `Finish`, and `Invisible` disposes of every other step. That the end of the process is invisible
too (`ExitClosesNothing`) rests on layer 3: nothing in the backlog was ever closed. The refinement of `EchoService` needs
layers 3, 4 and 6: because a connection has one owner, `PiecesHeld` changes at one connection with each read() and send()
(`HeldChanges`) and not at all when a worker takes a connection or gives it up (`HeldMoves`); everything that happens in
the ring is invisible.

**The thread-per-connection server.** `ThreadServerProofs`: `HandoverCorrect`, `Spec => []HandoverIsSafe`, from
`EchoAssumption` and `CellAssumption` (`None`, `Free`, clients and cells are told apart) and the positive sizes.
Layers: *Kinds*; *Handed*, which cell main() or a starting thread has and what it holds there; *Held*, no connection
is in two places and an open one is in one of them, so that accept(), free() and close() each move exactly one;
*Pieces*, the balance of a message. *Backlogged* and *Pieces* are stated for the echo thread in `EchoThreadsProofs`,
without anything of main(). `ThreadServiceCorrect`, `Spec => ServiceSpec`, adds to *Held* that a thread holds pieces only
between read() and send() (`InHands`), and `ThreadTypeCorrect`, `Spec => []TypeOK`, that only a client's connection is reset
(*Resets*). The steps of the echo loop are shown to be `Read`, `Echo`, `Close` and `Exit` once for
both threaded servers (`LoopServes`, in `EchoThreadsProofs`).

**The pool server.** `PoolServerProofs`, from `PoolAssumption` (positive pool, finite sets, distinct names),
`EchoAssumption` and the positive sizes:

* `OneClientCorrect`: `Spec => []OneClientAtATime`;
* `WaitsCorrect`: `Spec => []WaitsOnlyWhenAllLost`;
* `NumbersCorrect`: `Spec => []NumbersConserved`;
* `ShrinksByFailuresCorrect`: `Spec => []PoolShrinksOnlyByFailures`, both of these together;
* `PoolServiceCorrect`: `Spec => ServiceSpec`;
* `PoolEchoesCorrect`: `Spec => []EchoesOwnConnection`, what `HandoverIsSafe` says of the other threaded server's echoes;
* `PoolTypeCorrect`: `Spec => []TypeOK`.

*Turns* says that a thread at work means main() at the read of an empty pipe; hence whatever number is off the stack is
one, and *Counted* is a sum of three: the stack, that one, and the connections whose creation failed. *Accepted* and
*Backlogged* show that a failed creation is never counted twice. *Numbered* says that the stack holds different numbers
and not the one on its way (`OnItsWay`), so pop and push change the set on the stack by exactly that number. For the
service, *Fetched* says that nothing was read of a connection that main() or the backlog still has (`Whole`), so one that is
closed for want of a thread is refused and not cut off, and *Owned* that no two threads have one connection. The balance of a
message (*Pieces*) is the one of `EchoThreadsProofs`, which asks of a server only that no two threads have one connection
(*Alone*); that numbers stay below `MAX_THREADS` comes from *Numbered*, since each is the one on its way or on the stack.

**The multi-protocol server.** `SocketsProofs`, from `UdpAssumption` (a buffer that holds something, `None` told apart),
`BacklogAssumption` and `UnitsAssumption`:

* `ReadinessCorrect`: `Spec => []ReadinessNotStale`. *Fresh* carries what select() saw through everything main() does
  before it uses it: a reported datagram is still in the buffer while main() accepts, reads and writes.
* `OneReplyCorrect`: `Spec => []OneReplyEach`. *Placed*: the request of a client is in the receive buffer, in
  `client_addr`, answered in the client's socket, or lost on the way in or back: in one of these at most, at one
  position of the buffer, and in one of them as long as the client waits.
* `LeftAfterEchoCorrect`: `Spec => []LeftOnlyAfterEcho`. *Ledger* says for each client, by where it and the server are,
  how many pieces are on either way and in the server's `bytes_read`; *Backlogged* that accept() returns a connection
  the server has not had before.
* `MultiProtoServiceCorrect`: `Spec => ServiceSpec`. The same *Ledger* shows that the process never ends with pieces in hand:
  a connection it is about to send to was not reset, and when a failed accept() ends the process it has no connection in hand.
* `MultiProtoTypeCorrect`: `Spec => []TypeOK`; *Reported* adds to *Kinds* and *Ledger* what neither needs.

**The single-shot pairs.** `SocketsProofs`, from `PairAssumption` (finite disjoint sets of servers and clients):

* `ReachableCorrect`: `Pairs!Spec => []ServerReachable`. The invariant *Reach* says who has the name: of the servers no
  other one has met (`HasName`), none finds the name taken at bind() and each has it until its unlink(). *Earlier* adds
  that a port is only kept by the kernel after a run that ended with a connection.
* `OwnReplyCorrect`: `Pairs!Spec => []OwnReply`. Where every client has an address of its own, replies go home because of
  where they are sent (*OwnElsewhere*). With the one path of the local datagram clients they go home because there is
  one request or reply under way (*OneTurn*), as long as no two clients have run at once and none was killed: a step
  that starts a second one is where *Quiet* ends and the property stops claiming anything.
* `PairsTypeCorrect`: `Pairs!Spec => []Pairs!TypeOK`, from both and from *Leaves*, what the programs leave behind them.

**The shells.** `ShellsProofs`. With a pipe, from `PipeAssumption` (distinct processes, a pipe that holds something):

* `CleanPromptCorrect`: `Spec => []CleanPrompt`;
* `PipeTruthCorrect`: `Spec => []PipeTellsTheTruth`;
* `PipelineTypeCorrect`: `Spec => []TypeOK`, whose bounds on the pipe and on a command's output are *Bounded*.

*Family* says which children there can be at each place of the shell, *Holders* who holds which end as a function of where
shell and children are, *Flow* that what was written is what was read and what is in the pipe. Without pipes, from
`NestedAssumption`: `OneForegroundCorrect`, `Nested!Spec => []OneForeground`, where *Chain* says that
whatever does not wait is one process, the foot, that the parent of every process waits, and that no two processes
have one parent; and `NestedTypeCorrect`, `Nested!Spec => []Nested!TypeOK`, where a word never
grows (*Words*).

**The named objects.** `MailboxesProofs`, one part for each program:

* `ServerHearsAClient`: `Spec => []HearsAClient` for the shared memory, from `MemoryAssumption`. *Listening* says for each step
  of the loop what the page holds: once the greeting is there nobody else writes one (*OneServer*), and clients only
  ever move a page towards their own message.
* `FifoCorrect`: `Pipe!Spec => []FifoIsSafe`, from `FifoAssumption`. *Guarded*: a server in open() has its FIFO to itself, and
  either that has the name and every client past its own open() is one the server knows of, or such a client
  is done. *Met* follows a server and a client that nobody
  disturbs through open(), the transfer and unlink(), by what the other one has done so far.
* `LeftoversCorrect`: `Posix!Spec => []LeftoversBounded`, from `QueuesAssumption`. *Balanced*: the messages in all queues and
  those clients hold are no more than the servers that still owe a receive and the servers that died, as
  a comparison of the cardinalities of *Slots*, *Held*, *Owing* and *Died*.
* `MemoryTypeCorrect`, `FifoTypeCorrect`, `PosixTypeCorrect`, `SysvTypeCorrect`: the type invariant of each. For the queues they need
  that the name leads to a queue that was created (*PosixNames*) and that msgsnd() waits for room for both types
  together (*SysvRoom*).
* `AnswersCorrect`: `Sysv!Spec => []AnsweredByClients`, likewise: *Answers* counts the replies in the queue and the servers
  that took one against the clients that are done, *Greetings* what is in the queue and in hand against the servers
  that wait or died.

**The file manager.** `OneProcessProofs`, for every tree and height of the panels, from `TreeAssumption` (every directory
lists at least one entry, names lead to directories or nowhere) and `HeightAssumption`:

* `CursorCorrect`: `Spec => []CursorVisible`;
* `MovesCorrect`: `Spec => MovesFromLastEntered`, by *Together*: the working directory is the path of the panel that
  entered last, through every refused chdir() and opendir();
* `FileManagerTypeCorrect`: `Spec => []TypeOK`.

Here the invariant *Screen* joins `TypeOK` and `CursorVisible`, since each needs the other: the entry under the cursor
has the right kind because the cursor is on an entry, and Enter puts the cursor back by the length of the new list.

**The shop.** `OneProcessProofs`, from `CustomersAssumption` (at least one store, a loader that is not a customer, capacities
and needs that the bound of the model does not cut):

* `EndsCorrect`: `Shop!Spec => []EndsInOrder`. *OneInStore* and *OneCounts* say who is inside which mutex,
  and that `satisfied_customers` is the number of customers that are done, although the increment is a read and a write;
  *Ordered* in which order threads begin and end, so that nobody is in a store when main() destroys the mutexes.
* `ShopTypeCorrect`: `Shop!Spec => []Shop!TypeOK`. *ShopTyped* gives the bounds of the numbers: a customer visits stores only while it
  needs something, so its need has a lower bound; the counter never exceeds the customers (`CounterBounded`).
* `GoodsCorrect`: `Shop!Spec => GoodsConserved`. Every step is one of *NothingMoves*, *Emptied*, *Delivered*. The balance is a sum
  over stores and customers, a recursive definition of the library; that it exists and that changing one term
  changes it by the difference is proved here, as the absence of a smallest set for which it fails (`SmallestSubset`).

**The phone books.** `OneProcessProofs`, from `BooksAssumption`:

* `BooksCorrect`: `Books!Spec => []SameNames`. The two count each name equally often: shifting in one and swapping with
  the last in the other each remove exactly one record, of the same name, wherever it lies; and the program on the heap
  ends only when memory was refused (`exhausted`), not on the null that realloc() may return for no bytes.
* `ListCorrect`: `Books!Spec => ArrayIsList`: `add` appends, `delete` removes the first record of the name and moves the rest
  up in order, every other step is invisible, and the slot given up holds nothing of a record (`NothingLeft`).

* `BooksTypeCorrect`: `Books!Spec => []Books!TypeOK`; *HeapFits* is the bound on `count`.

**The exercises.** `OneProcessProofs`, from `BytesAssumption` and `TextsAssumption` (sizes that are not negative, bytes, halves
and headers that are not empty) and `PowersAssumption`, which says of the powers of two in use what holds of all of them and the
provers do not know:

* `ResultsCorrect`: `Exercise!Init /\ [][Exercise!Next]_(Exercise!vars) => []ResultsRight`.

What a program leaves behind is the value of its loops, so the work is in the loops. They are recursive functions and folds,
and the induction theorems of the library cannot be used on them. Instead, `RecursionExists` and `FoldExists` show once and for all that a
recursion whose steps go to a lower rank has a value, and each loop's value is found by the smallest position or set of positions at which it
would be wrong (`FirstExists`, `SmallestSubset`). What holds of the loop at each position is the idea of each proof:

* `print_binary` and `count_ones`: *PrintedTo*, the digits so far are those of the number without its lowest bits (`Rest`).
* The third byte: a number is four digits to the base 2^BYTE (`DigitsOf`, `ComposedOf`), and the arithmetic with masks and
  the write through the pointer both give the number with the third of them replaced (*NewByte*).
* The search: the inner loop runs as far as the texts agree (`MatchedIs`), the outer one to the first *Hit* (`FoundIs`).
* The checksum: adding the carries keeps a number's remainder modulo 2^HALF - 1, and keeps it from becoming 0
  (*Carried*); what replaces the unset field makes up what is missing to a multiple, unless the field counted (`MissingPart`).
* The reversal: swaps of different rounds touch different cells (`RoundSwaps`), so after all of them the array is reversed.
* The triangle: *FilledBy* says which cells a set of passes has filled, whatever their order; no pass undoes another one.
* The spiral: ring k is the cells of depth k, each filled once, from its corner round to the cell below it (`RingIn`), and the path
  of k passes ends beside the corner of ring k (*SpiralTo*), so that the rings join without a jump, for odd and even sizes.

**Only model-checked:** all liveness properties, which are out of the prover's reach, as is `ENABLED`. Definitions that the
proofs expand have alternatives that exclude each other (`OpenEnd` of `Fifo`, `find_substring`), because an overlapping CASE
has no value the prover could know, and no `SelectSeq`, which it cannot expand (a pass of `Triangle` that fills nothing leaves the
matrix as it is).

## 6. What the models say about the code

Holding properties are the normal result, but some of them say something a reader of the code may not expect.

* The pool of `pserver pool` never works in parallel: main() reads the pipe right after starting a thread and so
  waits for it (`OneClientAtATime`). One client that sends nothing holds up everybody.
* A failed pthread_create costs the pool a number for good, and after `MAX_THREADS` of them main() waits on a condition
  variable that only main() signals (`WaitsOnlyWhenAllLost`); in `pserver` it leaves the connection open and the client
  waiting (`LeakOnlyByFailedCreate`, a part of `HandoverIsSafe`).
* One client that leaves early, with a message that arrives in two pieces or more, ends a threaded server with
  SIGPIPE for all others (`KilledByEarlyCloseOnly`). The multi-protocol server cannot be ended this way
  (the second part of `LeftOnlyAfterEcho`), at the price of echoing what one read() returned and leaving the descriptor open.
* A silent TCP client stops the multi-protocol server for everybody: `UdpNotStarved` holds only because clients are
  assumed to go through their `main()`. It is about the calls the server blocks in, with finitely many TCP clients; a
  stream of TCP clients without end has the first turn in every round but leaves the second to UDP.
* A panel of the file manager looks names up in the path of whichever panel entered last, and moves there itself when
  chdir() fails (`MovesFromLastEntered`). So a panel that comes after the other one goes astray, and one that still shows
  another directory's entries, after a refused opendir(), looks those up in its new path.
* In the shell without pipes a mistyped command starts another shell, so that `exit` has to be typed once for each
  (`OneForeground` says that at least only one of them reads the terminal).
* A server of `mq/posix` may read back its own greeting after its five seconds; then a client that was waiting on the
  removed queue waits for ever, which System V queues do not let happen (`ClientsEnd`).
* The server of `shm` may print half a message, or its own greeting with the end of a client's (`HearsAClient`), and a
  message that is complete before the greeting is overwritten by it (`WriterFreesServer` leaves that case out).
* The client of `pipes/task2` removes the name even when it found none, so a client started too early can remove the FIFO
  of a server that has just come: `OnePairIsSafe` holds for one pair that meets, not for two. It takes a client that
  was past its open() when the server came: later ones strand nobody (`StrandedByClientPast`).
* The network servers of `sockets/hw1` with a connection cannot be started again at once, unless nobody had connected
  (`ServerReachable`), and two local
  datagram clients at once take each other's replies (`OwnReply`).
* The checksum of `sockets/hw7` is right only if the memory of its unset field was 0 (`ResultsRight`).

## 7. Plan

The order of the work: the queue server, its abstract hand-off and its proofs, because it is the most intricate; the
other servers, the shop, the shells, the message queues, the file manager and the phone books; then shared memory, the
FIFO, the socket pairs and the exercises; then the proofs for the threaded servers, the shell and shared memory; then
those for the multi-protocol server, the pairs, the other shell, the FIFO, the queues, the shop and the phone books;
last, the exercises.

What could come next:

1. Directories that change while the file manager runs.
2. The descriptors a process has left: `accept()` of `pserver` may fail at any time in the model, and in the code it does once
   leaked connections have used them up.

## 8. Not modelled

* Signals (`signal`), broadcast and multicast (`sockets/hw3`), the sniffer and the raw-socket senders of the later homeworks:
  one call or one loop without state of the program's own. Of `sockets/hw7` only the checksum is modelled.
* Process trees and small threads: fixed sequences of calls which the shells and `Shop` make in loops.
* `pipes/task1.c`: one message from a parent to its child in a fixed order, calls that `PipelineShell` makes too.
* `arrays/task1.c`, `pointers/task2.c`, `pointers/task3.c`: they print what they were given.
* The calculator libraries, the password exercise, the file exercise and the notes on the kernel: no state, or pure
  input and output.

`PROJECT.json` lists each with its reason. Left out of the modelled programs: printing and drawing; memory errors the code
allows and the models assume away (a line with too many words, a directory with too many entries, fields longer than
`NAME_LEN`, unchecked malloc()); menu input that is not a number; a descriptor table or memory that runs out, except
where a call's failure is an action.
