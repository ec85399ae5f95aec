# hyper-rdma in TLA+

hyper-rdma is a pair of programs over libibverbs and librdmacm. `simple_server`
(`simplest_server.cpp`) listens for one RDMA connection and publishes the
addresses of three memory regions; `simple_client` (`simplest_client.cpp`)
connects, learns the addresses and reads the regions with one-sided
operations. This directory holds TLA+ models of both programs, the TLC runs
that check them, and proofs about them that TLAPS checks.

## The system

Each program has three threads that share the members of one object without
locks: the main thread (`start()`, then `main`), a detached `cm_thread` that
takes events of the communication manager (CM), and a detached `cq_thread` that
takes completions. The main thread waits by spinning on a member that one of
the other two sets.

| component | state it keeps | operations | what makes it correct |
|---|---|---|---|
| connection setup | `state` of client and server, `child_cm_id`, the CM's event channels | `bindaddr`, `cm_thread`, first half of `start` | a program that leaves a wait has what it waited for; only an accepted client believes it is connected; states move forward |
| completion thread | completion queue, channel, armed flag, unacknowledged events, two work queues | `cq_thread` | no lost wakeup, no overrun, every completion handled once and in order |
| address exchange | `send_buf`, `recv_buf`, the `GET_…` flags, `…_send_complete`, `class_send_buf`, the sketch's `data_buf` | second half of `start`, `init_class_recv`, `init_sketch_rdma`, `recv_handler`, `server_recv_handler` | each region gets its own address, length and rkey through the shared buffers; published data is ready when its address is known; both sides finish |
| client's one-sided operations | `pendingReads`, `RDMA_READ_COMPLETE`, `RDMA_WRITE_COMPLETE`, local buffers | `rdma_read`, `rdma_write`, `read_class`, `ow_read`, `main` | an operation returns only when its own data is there, and returns |
| server's one-sided operations | `rdma_buf`, `SERVER_GET_REMOTE_ADDR`, the send queue | `rdma_read`, `rdma_write` of the server (not called by `main` yet) | operations that overlap in one buffer do not spoil each other's data; all complete |
| class object | `RdmaTest`, its copy in `class_send_buf`, `class_recv_data`, `class_recv_buf` | constructor, the copies of `init_class_recv`, `read_class`, the loop in `main` | what the client prints is what the server built; the loop stays in its buffer |
| memory regions | the registrations of both sides, what each was told of the other's | `setup_buffer`, every post | every access is inside a region that allows it |
| utilities | static counters | `format_buf`, `verify_buf`, `size_str`, `cnt_str`, `size_to_count`, `do_poll`, `get_rdma_addr`, `create_first_event_channel` (the only one called) | disturbances are noticed; printed sizes keep their order |
| `get_ibinfo` | descriptors and domains; a shared memory object that outlives it | `main` | reads back what was written; releases in order |

How they interact: the CM's events (`cm_thread`) let `start()` create the
queues and connect; `cq_thread` then calls the handlers, which set the flags
on which the second half of `start()` and the one-sided operations spin. The
two programs interact through the connection: two-sided sends with an immediate
for the exchange, one-sided reads and writes afterwards.

What is hard: three threads per process on plain variables; the order of
storing a state and the datum it announces; one send buffer and one receive
buffer reused for several messages; a counter incremented after the post it
counts; completions with an error status, which neither `cq_thread`
recognises; a connection that breaks; CM failures, which nobody handles; a
second client; remote memory that is read while it is written; operations that
do not wait for their completion; lengths that two programs choose and nobody
compares. `PROJECT.json` lists each of these hazards at its line with the
properties that cover it.

## Modules

| module | models | checked by |
|---|---|---|
| `CqThread` | `cq_thread` of both programs, completion queue, channel, work queues | `CqThread_loop` |
| `CompletionService` | what a completion thread promises (abstract) | refined by `CqThread` |
| `CqThreadProofs` | theorems about `CqThread` | TLAPS |
| `Connection` | `bindaddr`, `cm_thread`, `start` up to the connection; the CM | `Connection_setup`, `Connection_child` |
| `ConnectionProofs` | theorems about `Connection` and `Session` | TLAPS |
| `AddrExchange` | `start` from the hello on, both completion handlers | `AddrExchange_handshake`, `AddrExchange_staging` |
| `AddrExchangeProofs` | theorems about `AddrExchange` | TLAPS |
| `OneSided`, `MCOneSided` | the client's four operations, called by `main` | `OneSided_calls` |
| `OneSidedProofs` | theorems about `OneSided` | TLAPS |
| `SyncOperations` | synchronous operations (abstract) | refined by `OneSided` |
| `Publication` | what the exchange promises (abstract) | refined by `AddrExchange` |
| `Session` | `Connection` continued by `AddrExchange` | `Session_whole` |
| `ServerOps` | the server's operations and their completions | `ServerOps_calls`, `ServerOps_second` |
| `ServerOpsProofs` | theorems about `ServerOps` | TLAPS |
| `ClassObject` | building, staging, fetching and printing the class | `ClassObject_fetch` |
| `ClassObjectProofs` | theorems about `ClassObject` | TLAPS |
| `Regions` | registration, what is told, the accesses of every request | `Regions_access` |
| `RegionsProofs` | theorems about `Regions` | TLAPS |
| `TestPattern` | `format_buf`, `verify_buf` | `TestPattern_stream` |
| `TestPatternProofs` | theorems about `TestPattern` | TLAPS |

A definition called `Name_What` preceded by "Mutant:" is a broken variant of
`Name`. It is used by no specification; a property is worth stating only if it
fails when `Name` is replaced by such a variant, and `PROJECT.json` pairs them.

### CqThread

`pc` follows the loop: `get` (`ibv_get_cq_event`), `arm`
(`ibv_req_notify_cq`), `poll`, `ack`. `armed`, `events` and `unacked` are the
state of the notification: an armed queue turns the next completion into one
event and is disarmed by it. `used[k]` counts the slots of a work queue, taken
from the post until the poll of the completion (the rule of verbs providers),
`inflight[k]` those whose request the adapter has not completed. A completion
carries only its kind. Both programs run the same loop; they differ in that
the client's loop tests the result of `ibv_poll_cq` for `== 1` and the
server's for `> 0`, which is the same for a request of one entry. Exits: any
failing verbs call, a full send queue, a receive of the wrong length.

`CompletionService` knows neither channel nor arming: completions are served
once, in order, and in the end, unless a failure stalls the service, and then
until the next completion. `CqThread!Stalled` is the mapping: completions in an
armed queue that nobody is about to poll. Since a stall takes a failure, a
thread that merely armed and polled in the wrong order would not implement the
service.

### Connection

A client's `cstate` is its member `state`, with the values of `enum
ClientState` (note that `ROUTE_RESOLVED` is declared before `ADDR_RESOLVED`);
`cthread = "record"` is the point between `rdma_resolve_route` and the
assignment of `ADDR_RESOLVED`. The server's `sthread` holds a request's id
between the assignments of `state` and of `child_cm_id`. `cpending` is the CM
operation under way for a client. The server's main thread compares its
`state` with `CONNECTED` of the client's enum; the model keeps the numbers. The
CM delivers an event at most once and in order, answers a request only after
`rdma_accept`, and tells the server only after the client's reply was
delivered. `CmMayFail` lets it fail instead, up to that reply.

`start()` reads `child_cm_id` four times while `cm_thread` may store another
request in it, and each read is a step: `OpenDevice` (lines 344 to 356, which
find it assigned or not), `CreateQp` (378), `ReadQp` (380) and `Accept` (399).
Replaced between 378 and 380, the new id has no queue pair: `qp` is null, and
`ibv_post_recv` crashes at 387. Replaced between 380 and 399, an id without a
queue pair is accepted; what `rdma_accept` makes of that is the library's
affair, and `Accept` lets it succeed or fail. A server that crashed or exited
has no threads left, and requests to it fail (`ServerUp`).

`ConnectionIsMade` is a promise to each client that starts: its own resolution
or request fails, or a connection comes about (`ConnectionMade`), or the server
has stopped for one of the causes that `ServerStops` lists: the two crashes,
`rdma_accept` on a replaced or a failed request, and a CM that gives up the
accepted one. Another client's failure excuses nothing.

### AddrExchange

Starts when both sides are connected and each has posted one receive. `spc`
and `cmain` are the main threads, `cpc` the client's handler, whose reads of
`recv_buf` are one step per field. `Deliver` copies the send buffer as it is at
that moment, not as it was when the send was posted. `DeliverHello` is the
adapters' step; the server's handler of the hello is part of `ServerPoll`: it
takes over fields that no later step reads, and sets the flag. A
completion with an error status has a valid `wr_id` only: its opcode is the
one `ibv_wc` held before or zero, which is `IBV_WC_SEND` (`Seen`).
`firstId` is the `wr_id` of the first advertisement, which the program never
assigns. `DoneMeansDelivered` holds whatever it is: with another number than
zero `start()` waits for ever, but does not advertise too early. That it then
waits for ever is why `HandshakeCompletes` and `SessionCompletes` assume zero. On
a link that has broken a flushed send counts as done, and no property says
otherwise.

### OneSided

Starts when `start()` has returned; the other two advertisements are still on
their way. A cell of local memory holds the number of the operation that fetched
it last, so that old data is told from new. The waits of the operations are on
`pendingReads` (`WaitReads`), on `RDMA_READ_COMPLETE` inside a sweep
(`WaitElement`) and on `RDMA_WRITE_COMPLETE` (`WaitWrite`); a completed read sets
the flag and decrements the counter in two steps. A read of the sketch with an
address that is not known yet is refused by the remote adapter, which breaks
the connection; the link may also break by itself at any time.
`SyncOperations` promises synchronous calls until then, and nothing afterwards.

### Publication and Session

`Publication` has three variables: which regions the server has offered, from
which regions the client's description of each region was put together, and
whether the link is lost. The server offers in a fixed order and stays at most
two regions ahead of the client; the client learns in that order, each region
from its own description, and learns all that is offered while the link holds.
`AddrExchange!Publish` maps the fields of `info` and the flags to it.

`Session` extends `Connection` and instantiates `AddrExchange` (as `Exchange`)
over variables of its own. The first half of `start()` belongs to one, the second to the other;
`ServerGoesOn` and `ClientGoesOn` are where a main thread passes from one to the
other, and messages pass only between the accepted client and a queue pair
created on the accepted id (`Linked`). The `cm_thread`s, the CM and the other
clients go on during the exchange. When the queue pair is not on the accepted
id no message passes at all; the flush at the end of the client's retries is
not a step of `Session`, as flushes are in `AddrExchange`.

### ServerOps

`rdma_buf` is a row of cells, so that `strcpy`, the storing of a read's answer
and the gathering of a write's data meet half done. A request is `posted`,
`moving`, `fetched` and `done`; requests start in order and complete in order,
but a read's answer may come after later writes have been gathered and, if a
first answer was lost, after they were executed. `cq_thread` polls a completion
(`Poll`, line 122) and prints `rdma_buf` later and cell by cell (`PrintCell`,
147); it polls nothing meanwhile (`Printing`), but the caller and the adapters go
on. `alone` and `quiet` are history: whether a read was in flight at the call of a
write; whether a write was called while a read was posted or its print under
way. The caller is any thread that has returned from `start()`; `main` has such a
call commented out.

`PrintsWhatWasRead` therefore needs the writer to stay away until the print has
ended, not only until the completion. `ReadsItsWrites` is what unfenced requests
do guarantee: a read behind a write fetches its text, although the read's answer
goes into the memory from which the text is gathered, and although several writes
share that memory. It fails if the request is posted before `strcpy` is done.

### ClassObject

A cell is the object or one word of data; unwritten memory shows some number
(`Junk`) when the client takes it for a size. The server's copy and the
adapter's fetch go cell by cell and interleave. `staged` is history: the copy
was complete when the read was posted. That the client may start earlier is the
finding of `AddrExchange_staging`; here it is the reason for which words may be
missing.

### Regions

Every request carries the set of its accesses: owner, buffer, the buffer whose
key is used, offset, length and the rights needed. `Granted` is the adapters'
test. A message is an access to the sender's `send_buf` and one to the
receiver's `recv_buf`. Lengths are those of the code, with the sizes that a
`main` chooses taken from sets; `setup_buffer` is one step, since no other thread
sees a part of it. Order and timing are left to the other modules.

### TestPattern

Keeps, beside the two static counters, the numbers they would have without the
reduction to eight bits; a buffer is the value of its first byte, its size and a
changed byte.

## Runs

| run | question | bounds |
|---|---|---|
| `CqThread_loop` | lost wakeups, overruns, the inductive invariant; refinement of `CompletionService`, with fairness | 3 send and 2 receive slots, 7 requests, 1 failed poll |
| `Connection_setup` | who believes what, the inductive invariant; does a connection come about? | 3 clients (the listen backlog), CM failures |
| `Connection_child` | is `child_cm_id` stored when the wait ends? violated | 1 client, no failures |
| `AddrExchange_handshake` | shared buffers, wrong `wr_id`, broken link; do both programs finish? refinement of `Publication`, with fairness | `wr_id` zero, equal to another send's, or neither |
| `AddrExchange_staging` | is the class object staged when its address is known? violated | `wr_id` zero |
| `Session_whole` | from the start to the return of `start()`: does a session come about, and what can a late request disturb? | 2 clients, CM failures, `wr_id` zero or another send's |
| `OneSided_calls` | counter and flags; refinement of `SyncOperations`, with fairness | nine operations: those of `main()`, then writes; sweeps of three |
| `ServerOps_calls` | which operations may overlap with each other and with a print? | 4 calls, 3 slots, a buffer of 2 cells |
| `ServerOps_second` | is a read refused only without an address? violated | 3 calls |
| `ClassObject_fetch` | what does the client print? | objects of 0 to 6 words; 3 fetched, room for 5 |
| `Regions_access` | are all accesses granted? the inductive invariant | two sizes of each buffer, sketches of 0, 2 and 3 elements |
| `TestPattern_stream` | which disturbances are noticed? | counters modulo 3, 9 bytes, 4 verifications, 2 buffers on their way |

Where a run checks an inductive invariant (`IInv`, `SetupInv`), the type
invariant is its first conjunct and is not checked again. Those of `TestPattern`
and `Session` (`IInv`, `SessionInv`) are listed in no run: what they are for,
`VerdictIsRight`, `PositionLagsByFailures` and `AddressesMeanConnection`, is
checked, and that they hold is proved.

Why the bounds are enough: the work queues of `CqThread` fill up, drain and
fill again within seven requests, and the proofs cover every depth. One server
serves one client, so two clients show every overlap of an answered and an
unanswered one, and three also let two requests replace `child_cm_id` while the
first is set up. The exchange is finite and not bounded further. In `OneSided`
a step depends on at most the operation before it, so a program that has every
operation after every kind of wait, and a sweep with a first, a middle and a
last element, meets every case; the 1000 elements and ten sweeps of the program
only repeat them. In `ServerOps` four calls overfill a queue of three and
let a read stand between two writes; a second client shows `Session` every late
request, as it does in `Connection`. `ClassObject` has an object without data,
with less and more than is fetched, and with more than the client has room for.
The bounds of `Regions` matter little: its invariants are proved for all sizes.
The counters of `TestPattern` wrap around several times in nine bytes, and a
buffer longer than the modulus is among them.

Three of the runs end in a violation, and are findings about the code:

* `Connection_child`: `simplest_server.cpp:254` announces `REQUEST_GET` before
  line 255 stores the id. The main thread may use `child_cm_id` unassigned.
* `AddrExchange_staging`: `init_class_recv` advertises `class_send_buf`
  (line 481) before it copies the object into it (487, 488).
* `ServerOps_second`: `simplest_server.cpp:169` assigns `false` to
  `SERVER_GET_REMOTE_ADDR` in a condition, so that the second `rdma_read` exits
  with "error" at its first test although the address is known. The same
  assignment is why there is only one read (`OnlyRead` of the invariant).

`PrintsWhatWasBuilt` and `BoundedByTheObject` name when `main` prints
unwritten words or leaves `class_recv_buf`; `RefusedOnlyMisfit` names the sizes
that break the connection; `SessionCompletes` names what keeps a session from
coming about. A comment in `rdma-utils.h:35,44` gives 10M as the size of the
sketch's buffer, which line 43 sets to 1000 elements; no model depends on it.

Deadlock checking is off in all runs: an exited process takes no step, both
programs end in an idle loop, and a program whose wait is never satisfied is a
state of the system (`ConnectionIsMade` and `HandshakeCompletes` say when).

## Fairness

Weak fairness of each thread: the operating system schedules it (the threads
are detached and never joined or cancelled). Weak fairness of each direction of
the connection: the client connects with `retry_count` and `rnr_retry_count` of
7, and an rnr count of 7 means that the adapter retries without limit when no
receive is posted. Weak fairness of the CM: every operation it starts ends in an
event. No fairness is assumed of failures, of a break of the link, of posts, or of
starting a client. `CqThread` assumes fairness of the thread alone; the
adapter need not complete a request. `ServerOps` assumes it of the thread
(which handles the hello, polls and prints), of both adapters together and of the
steps inside a call, not of calls. `Session`
assumes what its parts assume. `ClassObject`, `Regions` and `TestPattern`
have no liveness properties and assume nothing.

`AddrExchange` and `OneSided` take completions in order from a queue without
modelling events; that this is sound is what `CqThread` shows by implementing
`CompletionService`, as long as no poll fails: a failed one stalls the service
until the next completion, and the properties of these two modules that need
progress do not hold on a host whose polls fail.

## What is proved

Every safety invariant and every action property that a passing run checks is
also a theorem about the specification, for every value of the constants that
the named assumptions admit. Each proof has the same shape: an inductive
invariant, which the module states after its properties; a lemma or a case for
each action; and the properties as consequences. The three abstract
specifications (`CompletionService`, `Publication`, `SyncOperations`) are shown
to be implemented step by step; the fairness half of that stays with TLC.

For the four components whose purpose is to finish (setup, exchange, the
client's and the server's operations) two theorems more say why they do.
One says that nobody waits for ever: in every reachable state in which the work
is not done, and no failure ended it, the guard of some fair action holds
(`CanGoOn`, a disjunction of the guards; `StepsAreGuarded` proves that no step but
a failure is taken without one of them). The other gives natural numbers that every such step
lowers. What the two leave out is that an action whose guard holds is enabled,
and that a fair system takes it (see [Only model-checked](#only-model-checked)).
Each `...Proofs` module has them in its section "Nobody waits for ever".

### The completion thread

`CqThreadProofs` proves, for all queue depths with `RqDepth <= SqDepth`
(`DepthAssumption`; 2 and 16 in the programs) and any bound on posts and failed
polls:

* `Invariance`: `Spec => []IInv`;
* `TypeCorrect`, `NoWakeupLost`, `QueueFits`: `TypeOK`, `NoLostWakeup` and
  `CqNeverOverruns` in every reachable state;
* `ServiceSafety`: the initial states and the steps of the thread are those of
  `CompletionService`, or stutters, also when polls fail. The proof needs `IInv`:
  that no step but a failed poll stalls the service follows from
  `OneNotification`.

`NoLostWakeup` is not inductive: it says nothing of the states before the thread
goes to sleep. `IInv` adds that at most one notification is pending, armed or in
the channel, and that one is whenever the thread is not about to rearm
(`OneNotification`), that an armed queue was empty when it was last looked at
(`ArmedMeansDrained`), and that events read and acknowledged balance
(`AcksMatchGets`). `CqNeverOverruns` needs `SlotsAccounted`: a slot is taken
until its completion is polled, so the queue holds no more completions than
there are slots. The lemmas on `Positions` say how `Append` and `Tail` change
the number of completions of a kind; they are proved with a bijection, since
induction over sequences is out of the prover's reach.

### Connection setup and sessions

`ConnectionProofs` proves, for any set of clients:

* `SetupInvariance`: `Spec => []SetupInv`;
* `TypeCorrect`, `OnlyAcceptedConnectsHolds`, `RouteFollowsAddressHolds`,
  `ServerConnectionIsRealHolds`, `QueuePairOnAcceptedHolds`: the invariants of
  `Connection_setup` in every reachable state;
* `ClientStateAdvancesHolds`: the action property `ClientStateAdvances`.

The only assumption is that an unassigned `child_cm_id` is none of the clients'
ids (`ClientAssumption`). None of these properties is inductive: who may take
`ESTABLISHED` depends on what was accepted, on which events are under way and on
how far each main thread is. `SetupInv` is the conjunction of the ways of a
client (`Progressing`, and `Failed` where a CM failure ended them), which tie the
four parts of a client together; `RepliesAreAccepted`; what an event in the
server's channel testifies (`EventsAreTrue`); the same for ids outside the channel
(`IdsAreAsked`); and what the main thread has done at each location
(`ServerProgress`). The proof is split in two: a step `Keeps` of each client its
way and the facts others rely on, and a server part that is preserved by any
step that keeps these (`ServerFactsKept`). `ClientSteps`, `DeliverySteps` and
`ServerSteps` go through the actions.

`SetupNeverHangs` says that from the start of any client on, some thread or the CM
can go on until the right side of `ConnectionIsMade` holds, so that no wait is for
an event that another took or for a state that was passed. It needs
three facts of the states in between (`WaitInv`): a server that has crashed or
exited has one of the causes in `ServerStops` (`StopsHaveCause`); a request it has not yet seen is in the state or in the
channel; and the accepted client waits for the answer or has it. `SetupIsFinite`
cannot add up the steps of an arbitrary set of clients; it says that each step
leaves one client fewer steps to take and the others as many (`ClientLeft`, 13 at
the start), or all clients as many and the server fewer (`ServerLeft`).

For `Session`, with any values of the unassigned `wr_id` (`SessionAssumption`:
zero among them), it proves:

* `SessionSetsUp`: `SessionSpec => Spec`. The exchange takes nothing from the
  setup: a session is a behaviour of `Connection`, with its fairness, so what
  `Connection` guarantees holds in sessions;
* `SessionExchanges`: a session starts and steps as `AddrExchange` does, however
  the other clients and late requests interleave; hence the invariants
  that `AddrExchangeProofs` derives from its initial states and steps hold in
  sessions too. (That last conclusion is not a theorem of its own: this version
  of `tlapm` cannot cite a theorem of an instantiated module);
* `SessionInvariance` and `AddressesMeanConnectionHolds`.

`AddressesMeanConnection` relates the client's last flag to the server's wait of
long before. `SessionInv` follows the evidence on its way: the hello, in each
place it passes through, shows that some client is connected
(`HelloMeansClient`); a send shows that the server is (`SendsMeanServer`); a tag,
in each place it passes through, shows both and that the queue pair is on the
accepted id (`TagMeansSession`). `SetupInv` then says which client it is. One
lemma, `SignsSuffice`, reduces an exchange step to what it adds to the queues;
`ConnectedStays` says that setup takes none of it back.

### The address exchange

`AddrExchangeProofs` proves, for any set of values of the unassigned `wr_id`
(`WrIdsAssumption`), wherever the link breaks:

* `Invariance`: `Spec => []IInv`;
* `InfoMatchesTagHolds`, `SendBufStableHolds`, `RecvBufStableHolds`,
  `SketchReadyWhenKnownHolds`, `DoneMeansDeliveredHolds`;
* `PublishesSafely`: the initial states and steps are those of `Publication`, or
  stutters.

`SendBufStable` holds because the server waits for a completion before it fills
the buffer again, so the invariant must say which completion: `OneSendUnderWay`
ties the server's location to the one send under way, in each of the four
places it may be, and to the flags set so far. On the client's side
`OneReceiveBuffer` says that the receive buffer is posted, or announced by a
completion, or read by `recv_handler`, and never two of these; it also covers
the handler that runs again on a flushed receive, which must find the old
contents with the old tag. `KnownInOrder` and `ParsedSoFar` say what the client
has learnt by then. The two halves need each other only at `Deliver` and
`LinkBreaks`, and are preserved separately elsewhere.

`HandshakeNeverHangs` says that while the connection holds, and if the first
`wr_id` is the one that `cq_thread` looks for, somebody can go on until both
`start()` functions have returned. With another `wr_id` the server may wait for
ever. Beyond `IInv` it needs `ProgressInv`: the
hello is on its way once it was sent, the client has a receive posted or is about
to post one, and the flag that the server waits for is set when nothing is under
way any more. `HandshakeIsFinite` gives the measure, which is 45 at the start.

### The client's operations

`OneSidedProofs` proves, for any program of operations and any number of
elements of a sweep (`ProgramAssumption`, `ElementsAssumption`):

* `Invariance`: `Spec => []IInv`;
* `PendingReadsCountsHolds`, `SweepStartsCleanHolds`,
  `OneRequestAtATimeHolds`;
* `SyncsSafely`: the initial states and steps are those of `SyncOperations`, or
  stutters; so a call returns only with its own data, while the link holds.

`PendingReadsCounts` alone is not inductive: that the decrement of one element
never meets the reset of the next sweep depends on the flag. `FlagMeansComplete`
says that while `main` waits its request is with the adapter, in the completion
queue, or complete, and that the flag is set in the last case only;
`FetchedSoFar` says which data have arrived.

`OperationsNeverHang` says that while the connection holds somebody can go on
until the program of operations is at its end. It needs to know that an
address which `read_class` waits for is still to come, in the completion queue or
with `recv_handler` (`AdvertComes`). `OperationsAreFinite` bounds the steps by
`Len(Program) * (8 * Elements + 3) + 9` and says that each lowers what is left:
the measure charges `main()` for every request it has still to post the steps of
the adapter and of `cq_thread` for it.

### The server's operations

`ServerOpsProofs` proves, for any bounds on calls and slots and a buffer of at
least one cell (`BoundsAssumption`, `CellsAssumption`):

* `Invariance`: `Spec => []IInv`;
* `PrintsWhatWasReadHolds`, `WritesCarryMessageHolds`, `ReadsItsWritesHolds`.

They need the order in which the adapter works (`Ordered`), how far each request
has moved (`CellsMoved`), and what an undisturbed request or print finds in the
shared buffer (`ReadUndisturbed`, `PrintUndisturbed`, `WriteUndisturbed`,
`CopyUndisturbed`). That no second read disturbs the first rests on a flag that
is cleared by mistake (`OnlyRead`). `ReadsItsWrites` holds for requests that were
disturbed too, and has an invariant of its own: until the only read has been
executed nothing but `strcpy` stores into `rdma_buf`, and every write carries the
text (`MessagesFirst`).

`OldestCanGoOn` says that the oldest request is done or can take its next step,
whatever was posted behind it; `RequestsOnlyAdvance` that a request takes at most
`Cells + 2` steps of the adapters, that each of their steps is one of these, that
only a complete request is polled, that the print goes on without waiting, and
that no call sets a request back. The sum
over the queue is left to the reader: it would be an induction over data.

### The class object

`ClassObjectProofs` proves, for objects, segments and buffers of any size
(`WordsAssumption`, `SizesAssumption`) and any contents of unwritten memory
(`JunkAssumption`): `Invariance`, `PrintsWhatWasBuiltHolds` and
`BoundedByTheObjectHolds`. The invariant follows a word from the copy
(`Staging`) through the fetch (`FetchedWhatWasThere`) to the print
(`PrintedWhatWasFetched`).

### Memory regions

`RegionsProofs` proves, for any sizes of any buffers (`SizesAssumption`) and
lengths of which only that an object fits `class_recv_data` and the fetched words
fit both ends is assumed (`BytesAssumption`; 32 and 1000, 100 and 1000 and 5000
in the programs):

* `Invariance`: `Spec => []IInv`;
* `RefusedOnlyMisfitHolds`, `ScatterListsFitHolds`, `TypeCorrect`.

`RefusedOnlyMisfit` is not inductive, since it says nothing of the keys and
lengths that the next request will use. `IInv` adds that each side was told of a
buffer with its own key and its own length, and that a program that has posted a
request has registered its buffers. One lemma per kind of request shows that
it is granted (`MessagesGranted`, `TransferGranted`, `ClassGranted`,
`ElementGranted`), and `RequestIInv` does the rest for all of them.

### The test pattern

`TestPatternProofs` proves, for any modulus of at least 2
(`PatternAssumption`; 256 in the programs), any sizes of buffers and any
sequence of formatting, losing, repeating, changing and verifying:
`Invariance`, `VerdictIsRightHolds` and `PositionLagsByFailuresHolds`. With a
modulus of 1 the first would be false: every byte would match. The comparison
is a `CHOOSE` of the first mismatch; the least-number principle it needs
(`Least`) comes from the library's theorem that strict inclusion of finite sets
is well-founded. The lemmas on remainders (`Division`, `Congruent`, `NextDiffers`
and others) are proved from what the prover knows of `\div` and `%`.

### Only model-checked

Liveness: `ConnectionIsMade`, `HandshakeCompletes`, `SessionCompletes`,
`LateRequestsAreHarmless`, `EveryCallCompletes`, and the fairness half of
`ImplementsService`, `ImplementsPublication` and `ImplementsSync`. TLAPS supports
neither `ENABLED` nor the proof of liveness under fairness. Of `ConnectionIsMade`,
`HandshakeCompletes`, `EveryCallCompletes` and `ImplementsSync` the theorems above
prove what comes before that last step. `SessionCompletes` and
`LateRequestsAreHarmless` would use the theorems about the exchange inside a
session, which this version of `tlapm` cannot cite from an instantiated module.
`ImplementsService` depends on which event wakes the thread, not on a measure; its
safety part is `NoWakeupLost`. The three properties that the code violates are
TLC's counterexamples.

## Not modelled

* The vendored headers `verbs.h` and `rdma_cma.h` (4361 lines) but for the
  enumerations and structures that the models translate, and the generated files
  in `cmake-build-*` (compiler identification, more than half of the other
  lines): they hold declarations of libraries and no behaviour of this
  system. The programs' own code is some 1900 lines, nearly all of which is
  modelled; this is why only a small share of all lines of the tree is mapped.
* `do_poll`, `get_rdma_addr` and the `rs_` macros: wrappers of library calls
  without state that no program calls; `size_str`, `cnt_str` and
  `size_to_count`: pure formatting.
* `get_ibinfo`: a diagnostic program of its own, a straight line of library
  calls that prints what they return.
* The members `a`, `b` and `next` of the class object, which are copied with it;
  `next` is a pointer of the server's that the client never follows.
* `next` of the work requests, which no program assigns, and the optional
  `bad_wr`: following a wild or null pointer has no behaviour to model.
* Failing calls that exit at once, in `Connection`, `AddrExchange` and
  `OneSided`: a process that is gone looks to its peer like a broken link.
  `CqThread` has them.
* Reuse of a stack slot for `ibv_wc` before the first completion: its garbage is
  taken not to be an opcode of the switch.
* Compiler optimisation of the spin loops: `CMakeLists.txt` fixes a Debug build,
  and the models let every spin read the variable again.

## Plan

Done: the completion thread, connection setup, the address exchange, the
client's and the server's operations, the class object, the regions and the
test pattern; the abstract specifications
of the completion thread, of the operations and of the exchange; the composition
of setup and exchange; proofs of every safety property of these, of the
safety half of every refinement, and of the progress of the components that are
to finish.

What could follow, in this order:

1. `Session` extended by `OneSided`, so that a late request or a broken link
   meets the sweeps, with the theorems that its parts have.
2. `ServerOps` beside `OneSided` over one connection: the sketch read while the
   server writes.
3. The exchange's invariants and its progress stated in `Session`, and liveness
   under fairness, once the prover can cite theorems of instances and reason
   about `ENABLED`.
