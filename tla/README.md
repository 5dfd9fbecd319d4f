# LTCP: specification and verification

LTCP lets unmodified TCP programs of two machines talk over a PCIe window
instead of Ethernet. A kernel module replaces `connect`, `accept` and `close`
of the TCP protocol for one remote address, passes small *messages* through a
ring buffer in the memory of the other machine, and moves the data itself by
DMA out of the pages of the program that wrote it. This directory holds TLA+
models of that module, the TLC configurations that check them, and proofs that
TLAPS checks.

Paths below are relative to `src/Dolphin_master-master/TCP_DRIVER_MODULES/`.
The build modelled is the one of the `Makefile` and headers: `MAP_USER_PAGES_SEND`
and `MAP_USER_PAGES_RECV` defined, `LINK_IS_ETHERNET` and `PIO` not.

## 1. The system

| component | code | state | operations |
|---|---|---|---|
| metadata ring | `rdma/rdma_daemon.c` | `start`, `end`, `queue` of `ltcp_ring_queue`; `send_queue_lock`, `recv_queue_lock` | `get_free_metamessage`, `rdma_xmit`, `interrupt_callback`, `rdma_recv` |
| segmentation | `rdma/rdma_daemon.c`, `calc_nr_pages` | the locals of the loop | `ltcp_direct_copy` |
| connections | `ltcp/local_tcp_protocol.c` | `incoming_conns`, `conns`, wait queue of the listening socket, `sk_state`, receive queues | `ltcp_tcp_v4_connect`, `ltcp_inet_csk_accept`, `wait_on_connection`, `local_tcp_sendmsg`, `ltcp_tcp_close`, `local_tcp_rcv` |
| reading | `local_tcp_recvmsg`, `client_dma_callback` | `client_semaphore`, `callback_error`, the receive queue | `recvmsg`, the DMA callback |
| lists | `ltcp/port_functions.c` | `head`, `tail`, `next`, `previous` | `add`, `put`, `get`, `remove_port_sk` |
| page mapping | `osif_iommu_map_user_pages` | blocks of the IOMMU aperture | map, undo on an error |
| descriptor replacement | `replace_socket_filedescriptor` | the file table of the program | replace |
| link set-up | `daemon_setup`, `setup_*_queue`, `cleanup` | segments, interrupts | export, connect, remove |
| Ethernet link | `ltcp/ethernet.c` | - | does not build |
| registration | `local_tcp_module_init_function`, `register_ltcp_protocol` | the hooks of `tcp_prot`, the registered protocol and socket type | install, take back |
| test programs | `userspace_test/` | the length of the round, the bytes read in it | connect, write, read the answer, close |

How they interact: a program's `sendmsg` is cut into REGULAR messages by
`ltcp_direct_copy`; each, like CONNECT, CLOSE and CONNECT_SUCCESS, is put into
the ring by `rdma_xmit` in the process that calls it. An interrupt makes the
other node run `rdma_recv`, which hands every message to `local_tcp_rcv`
*inside the interrupt callback*. That code shares the tables of ports with the
processes in connect, accept and close, wakes those in accept, and leaves a
pointer to the ring slot on the receive queue of a socket. `recvmsg` follows
the pointer and pulls the data by DMA, waiting on a semaphore that is shared by
all readers of the node.

### What is hard

The file `PROJECT.json` lists the hazards line by line. In groups:

* *the ring*: two indices written by different machines, a slot that is never
  used, four places that wrap, a full path that goes on after unlocking, merged
  interrupts, and descriptors that are read after their slot is free;
* *connections*: an entry is in no table while it is moved, confirmations that
  overtake the table entry they confirm, data that overtakes accept, closes of
  both ends that cross, and a key that is the same for all connections of a port;
* *reading*: one semaphore for two purposes, error paths that keep it, late
  callbacks that write to a frame that is gone;
* *arithmetic*: the cut of an unaligned buffer at page and message limits;
* *lists*: removal from every position of a doubly linked list;
* *loading*: the hooks are live long before the link is, the order of two nodes
  is a sleep of twenty seconds, a late callback meets cleanup, and a node that is
  loaded again is met by the pointers of its old life;
* *shared tables*: the descriptor table changes between look-up and exchange, and
  the aperture is taken from by all processes without ever getting anything back;
* *errors that come too late*: a message is published and its sender is told it
  was not.

### What makes each component correct

* ring: a reliable FIFO channel; mutual exclusion of the senders; nothing
  published is left behind; a descriptor is intact while it is needed;
* segmentation: the messages together are the buffer, no byte more or less,
  each inside the pages mapped for it and with a page list long enough;
* connections: no entry in two tables, no message to the wrong socket, no hole
  in what is received, what is lost and what crashes a node has a known cause,
  a waiting accept gets the connection that came;
* reading: a reader goes on only when its own transfer has ended, the semaphore
  comes free, every message is accounted for, a reader returns;
* lists: a queue with a look-up;
* page mapping: a buffer is mapped as a whole or not at all, and what a transfer
  writes to stays mapped;
* descriptor replacement: reference counts stay right and a thread's own file is
  the one that is closed;
* loading: a link that came up leads to the other node's present ring and
  interrupt, and insmod ends;
* programs: both count the same rounds and come to the end.

## 2. Modules

| module | models |
|---|---|
| `FifoChannel` | abstract: what one direction of the link promises |
| `MetaRing` | one direction of the ring, all statements that others can see; states the refinement of `FifoChannel` |
| `MCMetaRing` | windows and outcomes for TLC |
| `MetaRing_proofs` | the inductive invariants inside and outside the window, and nine theorems |
| `Connection` | tables, accept, connect, close and `local_tcp_rcv` of both nodes over two channels |
| `ConnectionOrder` | the invariant of connections that follow one another, with the clients on one node: what lies in the channels, the tables and the hands of the callback |
| `Connection_proofs` | in two parts: the invariant of the tables, for connections of both nodes; and with clients on one node, that each message meets its own connection, what may be lost, what may crash a node, and that data has no holes |
| `MCConnection` | clients on node a, acceptors on node b, and the symmetry |
| `Segmentation` | `ltcp_direct_copy` and `calc_nr_pages` for the writes of one process |
| `Segmentation_proofs` | the cut of every buffer, for every page size and word |
| `Echo`, `MCEcho` | the rounds of the two programs of `write_file`, over two copies of `Segmentation`; all first lengths and places for TLC |
| `Echo_proofs` | that the programs stay in step, and that they implement `Segmentation` twice |
| `RecvMsg` | `local_tcp_recvmsg`, the DMA callback and the semaphore |
| `IommuAperture` | `osif_iommu_map_user_pages`: blocks and mapped pages of one aperture |
| `RecvPath` | `RecvMsg` and `IommuAperture` together, with a process that sends |
| `RecvPath_proofs` | the inductive invariant of `RecvMsg`, that a buffer is mapped whole or not at all, that transfers hit mapped blocks, and that `RecvPath` implements `RecvMsg` |
| `FdReplace` | the exchange of a descriptor inside connect, among other threads |
| `FdReplace_proofs` | reference counts, whose file is closed, and how long the new one is there |
| `Setup` | insmod and rmmod on both nodes |
| `Setup_proofs` | what a node that is ready is linked to, and what programs are promised that use it only then |
| `PortTable` | the pointers of one list of `port_functions.c` |
| `PortTable_proofs` | that the pointers are a queue and the look-ups right, for every list |

`Connection` stands on `FifoChannel`: its `chan[n]` is the part of the channel
that is sent and not received, which `MetaRing` is shown to implement. Its
`incoming` and `conns` are the queues `PortTable` is shown to be. The message a
`MetaRing` carries is cut by `Segmentation` and read by `RecvMsg`. `RecvPath` EXTENDS `RecvMsg`
and `IommuAperture`: the `Map` of the one is the whole run of the other, and
`Sender` is the same function inside `rdma_xmit`. `Echo` EXTENDS `Segmentation` for the
client and has a second instance of it for the server; its queues are what the
ring and `local_tcp_rcv` deliver in order. `Setup` is what comes before all of
these: `LinkUp` is the state they start in.

Operators introduced by a comment "Mutant of ..." are definitions with a
mistake. No specification uses them; `PROJECT.json` names, for every property
of every passing run, the mutant that breaks it.

### MetaRing

`start`, `end`, `queue`, `sendLock` are the C variables. `spc[s]` is the place
of a sender in `rdma_xmit`: `lock`, `alloc` (`get_free_metamessage`), `full`,
`fill`, `wrap`, `load` and `store` (`end++` of a mapped word), `trigger`,
`unlock`. `rpc` is the place in `rdma_recv`: `loop`, `wrapped`, `deliver`. A message is its
number in the order of filling, so losing, repeating and reordering can be
told. `irq` counts triggers without a callback; with `Coalesce` a second one is
merged. `Deliver` is `local_tcp_rcv`: the message is put on a socket
(`queued`, and the pointer goes to `held`), used up (`handled`), or refused
(`error`, which ends the loop). `NoMemory` is an `alloc_skb` that returns null, which the
callback uses untested: the receiving kernel stops (`rpc` is `oops`). `AppRecv` is the `recvmsg` that drops the pointer.

The ring is a FIFO only inside a *window*: at most `Size - 2` messages begun and
not received (`SafeWindow` of `MCMetaRing`). Beyond it the test for a full ring
misses the case `end = Size - 1`, `start` in {0, 1}: the ring looks empty. When
the test does fire, the lock is released, `end` moves nevertheless and the
lock is released again, so mutual exclusion is lost as well. Nothing in the
code keeps a program inside the window; the window stands for programs
that wait for answers, and every theorem names it as its assumption.

### Connection

A connection is named by the process that connects; a socket is a connection
and a side. One port is modelled, and all entries of a port have the same key:
connect uses the destination port as local port and there is one remote address.
The look-ups therefore find the head of the list whichever socket is meant;
which one it should have been is known to the model only. Every list operation
is one step, since it holds the lock of its list; everything between two such
operations is a place where others may run. `SendConnect`/`AddConnecting` are
connect, `AcceptEnter` to `AcceptNotify` accept, `CloseCheck`, `CloseRemove`,
`CloseSend` close, and the `Rcv...` actions the cases of `local_tcp_rcv`, one
message at a time per node. `crashed` says which callback followed which null pointer,
with which message: for want of an skb (`RcvNoMemory`), of a clone, or of the entry of a CLOSE.
Nothing runs on that node any more.

`errors` records what failed and for which connection (at most `MaxErrors`): connect
before its message, connect after it (`half-open`: `rdma_xmit` publishes, then the
trigger fails), accept after it has put the connection in `conns` (`orphan`), the
clone of the listening socket, the table entry, and the skb of a message that arrives. A write or close whose
trigger fails differs from another one only in its result. A process in
accept may be interrupted or time out (`MayGiveUp`). One that gives up without having slept
is on the wait queue until `finish_wait`: a wake-up that goes to it is `wasted`.

`RequestResponse` is how the test programs behave: a program connects when the
port has no other user (`PortFree`) and closes after it has got an answer. It is an assumption:
nothing in the module or in the programs tests it. Without it
`NoCrossTalk`, `Gapless`, `AnswersArrive` and `CrashCauses` do not hold, because of the
common key. `CONNECT_SUCCESS` can arrive before connect has entered its socket
in the table; the properties name this case (`SuccessLost(c)`,
for the connection in question).

### Segmentation, Echo

`Segmentation` runs one call after another, each on one buffer, into a ring inside its window: a full one,
where `rdma_xmit` lets the message fall and returns 0, is in `MetaRing` only. An address is a number, a page has
`PageSize` of them, subtraction wraps modulo `Word`. In `Echo`, `at[s]` is the
place of a program in its loop (`write`, `read`, `next`, `over`), `size[s]` its loop
variable, `tot[s]` the bytes read in the round. `queue[s]` holds the size of each message that waits, and as history the round it
is of and its place in the buffer of that round, which no program sees. A read takes one message and drops what its
buffer has no room for; an error is -1, which the programs add to a `size_t`. The
array of each program lies anywhere in a page; the client writes its front, the
server the part from byte `n - 1` on, as the code does, so the server's buffers
start at every offset whatever the array does.

### RecvMsg, PortTable

`RecvMsg` has one process per socket; the kernel's semaphore is a count and a wait list in order of arrival,
whose `up` lets the first waiter go on. `leaked` counts the errors that left it
down. A callback that comes after its call has returned may write to the
`callback_error` of a later call (`StrayWrite`); what else such a write to a dead frame can
damage is left out here, while `Setup`, where it happens during cleanup, lets the kernel stop. `PortTable` has the pointers;
`Reuse` lets freed entries change their memory. `queue` is what the callers mean.

### IommuAperture, RecvPath

`blocks` are the reservations of the allocator, `mapped` the pages of the aperture
with memory behind them, `block[u]` and `count[u]` the locals of a process in the
function. Which free place the allocator picks is open (`Places`). After a success
nothing removes a block: the TODO at `local_tcp_protocol.c:181` plans a thread that would.
`RecvPath` adds `target`, the block each transfer in flight writes to; a call
that times out returns and its transfer goes on.

### FdReplace

Each file has a reference count; the descriptor table is one function from
descriptors to files. `Find`, `AllocateFile`, `Replace`, `CloseOld` are the steps of
`get_fd_for_sock` and `replace_socket_filedescriptor` between which other threads
run; those close, open, dup and dup2, with the lowest free descriptor as the
kernel gives it. Behind the exchange connect goes on with the new socket (`UsesNew`) and holds no
reference to its file: when another thread closes the descriptor then, file and socket are released, and
`Finish` goes on as if they were there or ends the thread (`oops`). `moved` tells whether another thread
changed the descriptor between the look-up and the end of that use, `leaked` whose new file is
referred to by nothing.
When a program has duplicated its socket before connect, the lowest descriptor of
it is replaced and the others keep the old socket; `Counted` covers this.

### Setup

`pc[n]` is the place of a node in `init`, `daemon_setup` or `cleanup`, or why its kernel
has stopped. `have[n]` is what it has registered and offers. Loadings are
numbered: `mapped[n]` and `rih[n]` hold the number of the loading of the other
node whose ring and interrupt they lead to. `late[n]` is true when the sleep of
`n` was over before the other node had offered its side, or the other node was
loaded again since: the sleep is the only thing that orders the two nodes. `ring[n]`
is the number of messages in a ring, `irq[n]` a callback that is due or has not returned. A trigger may
fail behind a message that is published (`Trigger`), `local_tcp_rcv` may refuse a message and end the loop
of `Interrupt` with messages left, and an skb may be missing (`InterruptNoMemory`); `stalled[n]` tells whether
the messages in a ring are behind one of the first two. The two
`setup_send` functions that connect, one for the ring and one for the aperture, are the same
steps with another `segment`.

## 3. Runs

| run | instance | shows |
|---|---|---|
| `ring_window` | `Size` 4, 2 senders, window 2, 6 messages, no error | `Fifo`, `DescriptorLifetime`, the inductive invariant (mutual exclusion is a part of it), the refinement of `FifoChannel`, and under fairness that all published messages are received |
| `ring_overflow` | 1 sender, no window, 8 messages, failing triggers, refused messages, no memory | indices stay in the ring, the lock is released, no unfilled slot is read |
| `conn_rr` | 2 clients, 1 acceptor, 3 messages on one socket, 1 on the others, both sides may close, accept may give up, one error anywhere | seven safety properties of connections, and the invariant of `ConnectionOrder` |
| `conn_live` | 2 clients, 2 acceptors that may give up, no data | no wake-up is lost but one given to a process on its way out |
| `conn_early` | 1 client | *violated*: `EarlyDataKept` |
| `conn_oops` | 1 client | *violated*: `NoCrash` |
| `seg_all` | page of 4, 3 pages per message, first rounds of 1 to 21 bytes, doubled up to 40, arrays at every offset, one failing call | four properties of the cut of each write, that the programs stay in step, and that they end |
| `recv_all` | 2 readers with 2 calls each, 1 sender with 1 message, aperture of 4 pages, buffers of 2, all failures | the semaphore, the readers, the aperture, the inductive invariant, and that reads return |
| `recv_garbage` | no failure at all | *violated*: `SemaphoreReleased` |
| `setup` | 2 nodes, 3 loadings, 2 messages; failing calls of the set-up, triggers and deliveries | `LinkWorks`, `ProperUseIsSafe`, and that insmod ends |
| `fd_threads` | 2 threads in connect, 3 descriptors, 1 other file | reference counts, whose file is replaced, and that the new socket is there while connect works on it |
| `port_keys` | 3 entries, 2 keys in every assignment | the list is a queue, its answers are right, one key is safe |

Why the bounds are enough. A ring of four has three slots in use, and six
messages go round it twice, so both wraps of each side are met in every
combination with two senders at every statement; the theorems cover all other
sizes. In `ring_overflow` eight messages run over the ring twice. Two clients are the
fewest that can be confused; a second acceptor is the fewest that can steal a
connection. A hole in what a socket receives takes a message before it and one behind it, so one socket at a time
may write two or three, while every other writes at most one (`OneWritesMuch` of `MCConnection`). With 3 pages of 4 in a message the lengths met, which are 1 to 21
and the even ones from 22 to 40, give one to four
messages, with every offset on both sides of each limit; from every first
length up to 20 at least two rounds follow one another. Two calls of two readers
let a transfer outlive its call and meet the next one. An aperture of two blocks is
full after two buffers, so the third process is refused, or gets the block an error
gave back. Three loadings are a start of both nodes and one restart; two messages are one that waits and one that
may be left behind it, or may bring the interrupt for both. Three
descriptors hold two sockets and one place to dup into, and to close, dup or
reopen between look-up and exchange. Three entries have a head, a middle and a tail.
`Connection_rr.cfg` bounds what follows a half-open connection to one message per
socket (CONSTRAINT `FewAfterHalfOpen` of `MCConnection`), since its properties say nothing
more there but `TypeOK`, `OneTable`, `AcceptFindsConnection` and `AlwaysInv`, which are proved.
It uses symmetry of clients and of acceptors: it checks invariants only, and none
names a process.

`CHECK_DEADLOCK FALSE` is in every configuration: the counters are bounded, no
program has to go on, and a node that has crashed or leaked its semaphore stops.

### Properties that hold only in part

* `WholeBuffer` and `InStep` are stated for buffers that start on a page
  or fit one message (`Sound`); the parts follow one another in all buffers (`Contiguous`).
  `InsideMapping` says that the bytes of every message lie in its
  pages for these buffers, and *that they do not* for the others: a buffer of at most
  `MAX_SEND` bytes that needs one page more than `MAX_PAGES_SEND` sends a
  message of `pages_to_send * PAGE_SIZE` bytes although its first page begins
  later (`rdma_daemon.c:576`), reaches behind the mapping, and `left_to_send` may wrap
  below zero. With pages of 4 and a limit of 12: offset 2, length 11 is sent as 12 bytes, then as 63
  (11 - 12 modulo 64).
* `NoCrossTalk`, `Gapless`, `AnswersArrive` and `CrashCauses` except a half-open connection, whose
  confirmation is taken by the socket that comes next and whose CLOSE meets
  whatever entry is there, or none.
* `EveryMessageReceived` excepts a receiving kernel that stopped for want of an skb, and is
  checked without refused messages.
* `AcceptFindsConnection` is stated for one process in accept: a second one may take the
  connection that woke the first.
* `HeadIsTaken` excepts a wake-up given to a process that had decided to
  leave accept: the connection then waits for the next CONNECT.
* `LinkWorks` excepts a node that was `late`: nothing but the sleep orders the nodes, and a
  node that reloads leaves the other one with the old ring.
* `LoadEnds` excepts a kernel that stops: `proto_unregister` of a protocol whose
  registration failed, a late callback on a stack that is gone, and a program that
  used its socket before `send_queue` had a value, and an skb that could not be allocated.
* `ProperUseIsSafe` excepts, of messages that wait without an interrupt to come, those behind a trigger that
  failed (`rdma_daemon.c:474`) or a message that was refused (`rdma_daemon.c:186`); a later message that
  triggers brings them too. It excludes one way a kernel can stop, a null `send_queue`, and no other.
  Removing the module throws away what is in the ring.
* `NewSocketHeld` excepts a descriptor that another thread changed while connect was at work: the socket is
  then freed under it (`local_tcp_protocol.c:1063`). `Counted` counts references and says nothing of that use.
* `OwnFileReplaced` excepts a descriptor that another thread changed between look-up
  and exchange: connect then closes that thread's file, or leaks its own (`local_tcp_protocol.c:961`).
* `ListIsQueue` and `AnswersRight` hold until the last of several entries is
  removed; `OneKeyIsSafe` says that this needs two keys.
* `ReadReturns` excepts an error that has left the semaphore down.
* `DescriptorLifetime` holds for `Size - 1` messages only: `rdma_recv` frees a slot
  (`rdma_daemon.c:137`) before `recvmsg` reads it through the pointer of the skb.

### Fairness

* `MetaRing`: weak fairness of each sender's step inside `rdma_xmit` and of
  the interrupt callback, since both are kernel code that runs on; strong fairness of
  `Acquire`, since the spin locks of the kernel are queued. None for
  `Begin` and `AppRecv`: programs may stop.
* `Connection`: weak fairness of the steps of accept, of close after its check,
  of the second half of connect, and of the callback of each node. None for
  calls, writes and the decision to close. A process `asleep` has no step.
  `AcceptInterrupted` has none either: no signal has to come.
* `RecvMsg` and `RecvPath`: weak fairness of a reader's steps but not of `TimeOut` or
  `NoData`, and of the callback: the adapter ends each transfer. None for the sender.
* `Echo`: weak fairness of each program's next step. A failing read is a step
  of its own without fairness; a write in which `rdma_xmit` fails counts as a fault and
  excuses `EchoEnds`.
* `Setup`: weak fairness of the steps of `init` and `cleanup` of each node: a call of the
  kernel returns and `down_timeout` times out. None for the callback of
  `sci_connect_segment`, for programs, interrupts, insmod and rmmod.

### Disagreements found

1. Data sent right after connect is discarded when accept is late
   (`conn_early`), against the comment at `local_tcp_protocol.c:704`.
2. CLOSE for an unknown connection dereferences a null pointer two lines before
   the test (`conn_oops`, `local_tcp_protocol.c:730`).
3. `callback_error` is not initialized; garbage leaves the semaphore down
   although the transfer succeeded (`recv_garbage`, `local_tcp_protocol.c:265`).

What the properties above except (an unaligned buffer at the limit, the half-open
connection, the spent wake-up, the late node, the exchanged descriptor) is
behaviour of the code as well; without its exception TLC finds the property violated.

## 4. Proofs

`MetaRing_proofs` proves, from `SafeWindow == MaxInFlight <= Size - 2` and the
assumptions on the constants in `MetaRing`, for every size, every finite set of
senders and every bound:

| theorem | statement |
|---|---|
| `InductiveInvariant` | `Spec => []RingInv` |
| `TypeCorrect` | `Spec => []TypeOK` |
| `Exclusion` | `Spec => []MutualExclusion` |
| `FifoDelivery` | `Spec => []Fifo` |
| `DescriptorsLive` | `Spec => []DescriptorLifetime` |
| `ImplementsChannel` | `Spec => Implements` |
| `NothingUnfilledIsRead` | `Spec => []OnlyFilledRead`, without the window |
| `LockIsReleased` | `Spec => []LockReleased`, without the window |
| `OneSenderStaysInside` | `OneSender => (Spec => []TypeOK)`, without the window |

The argument. `Fifo` is not inductive: that the next slot taken holds the next
message depends on what every slot holds, and that on who may write it.
`RingInv` puts the parts together. `LockInv`: the lock is held exactly while one
sender is in the critical part. `CountInv`: calls begun are messages filled
plus senders that have not filled yet, and the window bounds them.
`PublishInv`: filled messages are those taken plus those between `start` and
`end`, and one more exactly while a sender is between `Fill` and `Store`. From
these two, a sender in `Alloc` finds at most `Size - 3` messages between the
indices, so the test for a full ring never fires and the case it misses never
arises. `SenderInv` and `ReceiverInv` tie the locals to the indices. `QueueInv`: the
last `Size - 1` messages filled are each in the slot `Pos(n)`, the place counted
from `start` around the ring; filling overwrites exactly the message that
leaves this range. `HeldInv`: an skb points to the slot of its message while
that is in range, which gives `DescriptorLifetime`. The module proves one lemma for each
action and joins them in `InductiveInvariant`. For the refinement, `Fill` is `Send`,
`Deliver` is `Receive`, by `Fifo` of the message next in line, and all other
steps stutter. TLC checks `RingInv` as an invariant in `ring_window`.

`NothingUnfilledIsRead` needs no window: it holds for any number of senders that overrun
the receiver, when the lock excludes nobody any more. Until `end` wraps for the first time
(`FirstRound`) it stands behind the slots that are filled, the ring is never full, so the
lock still excludes; it can only wrap, or a sender find the ring full, when all slots
were filled once (`AllFilled`), and a slot is never emptied. `LockIsReleased` needs none either: a sender
that finds the ring full unlocks and goes on to unlock again, so the lock may be free while
another is in the critical part, but if it is taken, one is on its way to an unlock (`LockTaken`).
`OneSenderStaysInside` is `TypeCorrect` for an overrun ring: with one process that sends,
`end` is below `Size - 1` whenever it is about to be counted up, since `Wrap` comes right
before and nobody else moves it. Its hypothesis is needed. Two senders that overrun the receiver
are both past the lock, one counts `end` up after the other has wrapped it, and it leaves the array.

`RecvPath_proofs` proves of `RecvMsg` alone, for every finite set of readers, every number of calls
and every combination of failures (`Garbage` and the four flags are constants):

| theorem | statement |
|---|---|
| `InductiveInvariant` | `Spec => []ReadersInv` |
| `TypeCorrect` | `Spec => []TypeOK` |
| `TokenIsOne` | `Spec => []OneToken` |
| `OwnTransfer` | `Spec => []OwnTransferDone` |
| `ListIsRight` | `Spec => []WaitersListed` |
| `SkbsAreAccounted` | `Spec => []SkbsAccounted` |

The argument. One semaphore is used for two purposes, and `up` does not say whom
it is for: a reader in `down_timeout` may be woken by the callback of another
reader's transfer, started after its own had ended, or by a reader that is done. That its own transfer has ended
all the same follows from `TokenInv`: the token is in one place, so while a
transfer is in flight nobody can call `up` but its callback. This takes
`TransferInv` (a transfer in flight belongs to a call that is over, or to one at
its wait, timed out, or on its way out), and `WaitersListed`, since `up` moves
whoever is first in the list. `SkbInv` keeps the receive queue from going below
zero in `Return`. Each action has its lemma; those with a `down` share
`DownMoves`, those with an `up` share `UpGrants` and `UpHandsOver`.
`ReadReturns` is the part that a leaked token breaks; the theorems hold in spite of it.
TLC checks this `ReadersInv` in `recv_all`.

It proves of `IommuAperture` and `RecvPath`, for every set of processes, every size
of the aperture, every set of buffer sizes and every combination of errors:

| theorem | statement |
|---|---|
| `MappedWhole` | `ApertureSpec => []AllOrNothing` |
| `PathMapsWhole` | `PathSpec => []AllOrNothing` |
| `PullsAreMapped` | `PathSpec => []PullsMapped` |
| `PathImplementsReaders` | `PathSpec => Spec` of `RecvMsg` |
| `PathKeepsReaders` | `PathSpec => []ReadersInv` of `RecvMsg` |

The argument. `AllOrNothing` describes the whole set of mapped pages; `ApertureInv` says
it page by page (`MappedIs`: a page is mapped exactly when it is in a block and no process
at work on that block has still to come to it or has come back over it), with what
ties a process to its block (`OwnBlock`: one of its own, `count` at most its length) and
`Apart`: blocks do not overlap. For `PullsMapped`, `TargetInv` adds that the block of
each transfer, and that of a reader between `Map` and `StartDma`, is *settled*: in `blocks` and
of no process at work. It becomes so in `Succeed` and stays so (`StaysSettled`)
because only `Release` takes a block out, and only that of a process at work. The
refinement is step by step: all steps inside the function but its last leave the
variables of `RecvMsg` alone, and its last is `Map`. So what is proved of
`RecvMsg` holds with the aperture (`PathKeepsReaders` cites it).

`FdReplace_proofs` proves, for every set of threads, other files and descriptors:

| theorem | statement |
|---|---|
| `FilesAreCounted` | `Spec => []Counted` |
| `OwnSocketReplaced` | `Spec => []OwnFileReplaced` |
| `NewSocketIsHeld` | `Spec => []NewSocketHeld` |

The argument. `Counted` compares a number with the size of a set, `Refs(f)`. Each
action gains a reference, loses one, swaps one for another or leaves them alone; the lemmas
`Gain`, `Lose`, `Swap` and `Same` say what this does to the count, from the theorems of the library on
cardinality, and each action has a lemma that names its references. `FdInv` adds `Taken`
(the file a thread is about to close is there, and a thread that leaked has failed)
and `OwnFd`: while nobody has changed the descriptor a thread has looked up, it denotes
that thread's own socket, which is what `OwnFileReplaced` needs in `Replace`, and behind the exchange its new one,
which with `Counted` gives `NewSocketHeld`: a file in the table has a reference. That the
descriptor found is one of the socket's (`MinIsIn`) comes from the well-foundedness of the naturals.

`Segmentation_proofs` proves, for every page size, every limit of a message, every word that
holds the lengths and every buffer, sound or not:

| theorem | statement |
|---|---|
| `PagesAreNeeded` | `Spec => []PagesNeeded` |
| `ListHasRoom` | `Spec => []PageListFits` (not in a run) |
| `NoGaps` | `Spec => []Contiguous` |
| `MappedExactly` | `Spec => []InsideMapping` |
| `AllIsSent` | `Spec => []WholeBuffer` |

The argument. `CalcNrPages` is compared with the number of pages between the first and the
last byte by writing offset and length as quotient and remainder of the page size. The invariant `SegInv` says that
the loop is behind some `n` whole rounds: `i` is `n * MaxPages`, `left` what the word makes of
the length minus `i` pages, and `sent` the `n` full messages and perhaps the one of the round
that runs (`InLoop`, `SentBy`). Each property is read off that: in a sound buffer `left` has not wrapped, so the last message ends where
the buffer ends; in the others the first message has `MaxPages` whole pages from an offset that is not zero.

`Echo_proofs` proves, for every page size, limit of a message and `SEND_SIZE`, all first lengths, arrays at every
place of a page, and every number of failing calls:

| theorem | statement |
|---|---|
| `ProgramsStayInStep` | `EchoSpec => []InStep` |
| `WritesAreCalls` | `EchoSpec => Spec /\ Server!Spec` |
| `ClientWritesWhole` | `EchoSpec =>` the five properties of `Segmentation`, always |
| `ServerWritesWhole` | the same of `Server!` |

The argument. The module EXTENDS `Segmentation_proofs` for the write of the client and has an instance of it
for that of the server, so all that is proved of one call holds of both. A step of one program is a step of
its call or leaves it alone (`CallsStep`), whatever has failed (`WritesAreCalls`). For
`InStep`, `Chain(q, n, lo, hi)` says that a queue holds the messages of round `n` that bring its bytes from `lo`
up to `hi`, without a gap; publishing appends to it (`ChainAppend`), reading takes from its front (`ChainTail`). `EchoInv`
says whose turn it is (`Turns`): the server reads what the client has written so far, the client reads what the server has,
the round is over for both, or one of the two is in the next round already while the other still has to count up.
In each the queue of the reader is the chain from the bytes it has read to those the
writer has published. The latter are known from the invariant of `Segmentation` (`Reached`): all of the
buffer once the call is over, strictly less while it runs, so a reader cannot end its round before the write that
feeds it has ended, and the queue is empty when it does (`ChainNothing`). Nothing is claimed once a call has
failed or a buffer was not `Sound`. TLC checked `EchoInv` as an invariant of `seg_all` before
it was proved.

`Setup_proofs` proves, for every number of loadings and messages, with or without failing calls:

| theorem | statement |
|---|---|
| `ReadyIsLinked` | `Spec => []LinkWorks` |
| `ProperUseLosesNothing` | `Spec => []ProperUseIsSafe` |

The argument. What a node offers is offered in order and all of it stands when it goes to sleep
(`OffersInOrder`); so one that wakes and finds the other side offered goes by the loading it found then
(`InTime`: each of `mapped` and `rih` is that loading once its step is done, and it stays the present one unless
the other node is loaded again, which makes this node `late`). `SemaphoreFree` follows the one semaphore through the
asynchronous connects. `ProperUse`: messages are only in the ring of a node that
was ready, and an interrupt is due for them or they are `stalled`. The theorem rests on the assumption that
programs wait for both nodes (`misused`), which nothing in the code makes them do.

`Connection_proofs` proves, for any number of connections on either node, of processes in
accept on either node, of messages and of errors, with programs that behave like the test
programs or not:

| theorem | statement |
|---|---|
| `TablesInvariant` | `Spec => []TableInv` |
| `TypesHold` | `Spec => []TypeOK` |
| `EntriesInOneTable` | `Spec => []OneTable` |
| `OneAcceptorFindsConnection` | `Spec => []AcceptFindsConnection` |

The argument. `OneTable` is not inductive: that `RcvAdd` puts an entry into the list for the first time depends on the message
that brought it. `Connects`: a CONNECT on its way belongs to a connection whose other end does not exist yet,
and there is one for each; so the entry that `RcvConnect` makes is new, and while `hpc` is `add`
no list and no process has it. `Owned`: entries in the lists of a node, carried by its processes, or worked on by its
callback are sockets of that node whose program or callback has made them, which keeps those of
two nodes apart. `Single` is `OneTable` with what the callback carries. For
`AcceptFindsConnection`, `TakeFinds` says that the list is not empty while the only process is between
its test and its take; what takes from that list besides is CONNECT_SUCCESS, which
goes to the node without an acceptor (`SuccessFrom`).

The second part of `Connection_proofs`, about `ConnectionOrder`, proves, for any number of clients, acceptors, messages and errors, of
sockets that start open or in `TCP_CLOSE`:

| theorem | statement |
|---|---|
| `ConnectionsInOrder` | `Spec => []ConnectionsInv` |
| `MessagesMeetTheirConnection` | `Spec => []NoCrossTalk` |
| `AnswersAreKept` | `Spec => []AnswersArrive` |
| `CrashesHaveCauses` | `Spec => []CrashCauses` |
| `NothingIsSkipped` | `Spec => []Gapless` |

Each assumes `OneWay` (all clients are on one node, all acceptors on the other) and `RequestResponse`,
as in `conn_rr`. When programs connect while others are connected, the common key makes all four
properties false; with clients on both nodes TLC shows that `NoCrossTalk` is.

The argument. All entries of a node have the same key, so a message meets the head of `conns` whoever it
is for. That it is for that one follows from the order of the connections, which `OrderInv`
says of a state without a half-open socket. `OneBusy`: at most one connection is begun and not
closed at both ends. `Order`: before the CONNECT (CONNECT_SUCCESS) of the busy connection a
channel only holds messages of connections that are over, and none follows the CLOSE of
its connection. `Serving` and `Entry`: the entry of the accepting node is that of the busy connection; the entry of the connecting
node is that of the connection whose messages are next in the channel, up to its CLOSE. It also
takes `Asking` (the connecting program closes after an answer, so its entry was made), `Silent` (a
socket in `TCP_CLOSE` sends no CLOSE, so its entry goes with that of the other side), and `Own`.
`AlwaysInv` holds whatever is half-open: an entry that a CLOSE has taken out never comes back, and
nobody confirms what is still in a queue. `FirstMessage`, `NearMeets` and `FarMeets` read off which entry the next
message of a channel meets; the rest is a lemma for what each step does to each variable (`SpcStep`, `ConnsStep`,
`SentIs`...) and one for each conjunct.

`AnswersArrive` and `CrashCauses` need to know why an entry is missing. `Alive`: the confirmation is on its
way, or was lost, or the entry is there, or the program has closed; `Answered` says so
for each connection whose accepting program has spoken or can. A CLOSE that meets no entry, and data
that meets none, are then the named cases, each of the connection of that very message.

`Gapless` compares numbers. `InLine`: the data of a socket in a channel is in order and
none is missing after the first up to what was `written`. `Continues`: while a socket has an entry,
what is in the channel is all that was written after the newest message it has got, so what is
queued next has the next number. A hole could only come from data discarded
between two entries of one socket, and `EnteredOnce` excludes a second one. TLC
checks `ConnectionsInv`, all of the above in one, in `conn_rr`, and it was checked there
before it was proved.

`PortTable_proofs` proves, for every finite set of entries, every assignment of keys and every sequence of operations:

| theorem | statement |
|---|---|
| `TableInvariant` | `Spec => []TableInv` |
| `PointersAreValid` | `Spec => []TypeOK` |
| `LinksMakeAQueue` | `Spec => []ListIsQueue` |
| `OldestIsAnswered` | `Spec => []AnswersRight` |
| `OneKeyNeverCuts` | `Spec => []OneKeyIsSafe` |

The argument. The four properties together are inductive (`TableInv`). The loop of the look-up is a
recursive function over the number of steps; that it finds the first entry of the queue with the key
(`FoundIsFirst`) comes from the least position at which it could stop, since induction over
an operator is not available. `Places` turns the queue into what `next` and `previous` hold at each position,
`MakesQueue` turns that back, and each of the four ways to unlink (the only entry, head,
middle, last) has its lemma. With one key the entry found is always the head, so the case that cuts the list
is never met.

Model-checked only, and why:

* `EveryMessageReceived`, `HeadIsTaken`, `ReadReturns`, `EchoEnds` and `LoadEnds`: liveness under
  fairness, which the prover does not reach.

Every other property of the passing runs is stated by a theorem.

## 5. Not modelled

* The copying build (`space_left`, `phys_start`): not compiled with the
  options above. The Ethernet link: does not build. `loop_and_close_sockets`: never called.
* The programs of `commandprogram`, which read from a terminal, and the ping and
  pong before the rounds of `write_file`; `Echo` starts behind them.
* In `Connection`: the kernel's own TCP connections, more than one port, and that a
  refused REGULAR message delays those behind it until the next interrupt (this
  is in `MetaRing`). A listening socket that is closed while a process is in accept
  ends the call like a signal. That `tcp_prot.close` is what the kernel calls for
  sockets of the module is taken from its installation in
  `local_tcp_module_init_function`; `ltcp_proto` itself names no `close`.
* In `Connection`, `Segmentation` and `Echo`: a ring that is full (it is in `MetaRing`).
* In `RecvMsg`: sizes (they are in `Echo`), and what a late callback damages on a dead stack
  frame besides a `callback_error`. In `IommuAperture`: the policy of the
  allocator, and memory that fails to be released (the page list on the
  path to `out`, `local_tcp_protocol.c:459`).
* In `Setup`: the connections of the programs (a message is counted, not
  interpreted), and processes that are inside the hooks when the module is removed.
* The PCIe link does not reorder or lose writes: nothing in the code handles it.

## 6. Plan

Done: the ring with its proofs; connections with their error paths, the proofs about the
tables and those about the order of connections; the cut and the programs above it with their
proofs; reading and the aperture with their proofs and their composition;
the lists and the descriptor exchange with their proofs; loading with its proofs. To come:

* The refinement of the queues of `Connection` by `PortTable`, one key, as a theorem.
* `AnswersArrive`, `CrashCauses` and `Gapless` when programs connect from both nodes.
