# A TLA+ model of node-packet-socket

node-packet-socket gives Node.js programs a raw AF_PACKET socket. It is a small
single-threaded program, and what is hard in it is not parallelism but
reentrancy: user code runs in the middle of the native event handler and may
send and close there. Around that stand smaller problems of the same kind: descriptors
and objects that outlive or are outlived by what refers to them, memory that changes
owner, a kernel that counts, frames that are not what was sent. This directory models
all of it, checks it with TLC and proves the safety part with TLAPS.

## 1. Inventory

| Part | Source | State | Operations |
|---|---|---|---|
| JavaScript `Socket` | `socket.js` | `requests` (FIFO), `wrap` | `openSocket`, `send`, `close`, `joinMC`, `leaveMC`; handlers `onRecv`, `onSend`, `onError`; events `message`, `error` |
| native `Wrapper` | `src/wrapper.cc` | static `constructor`; pointers `socket` and `poller`, three persistent callbacks | `Init` (once, when the addon is loaded), constructor and destructor, `Close`, `Send`, `Receive`, `PauseSending`, `ResumeSending`, `AddMembership`, `DropMembership`, three static callbacks for the poller |
| `UvPoller`, `NullPoller` | `src/poller.cc` | `uv_poll` handle, `current_events` | constructor and destructor, `set_events`, `io_event`, `on_close` |
| raw `Socket` | `src/socket.cc` | descriptor, interface index, hardware address | constructor (socket, fcntl, 2 ioctls, bind), destructor, `send_message`, `receive_message`, memberships |
| libuv, Node, the kernel | not in the repository | poll handle state, call stack, receive backlog, pending socket error | modelled from how the code uses them |

How they interact. `send` pushes a request on `requests` and asks the poller,
through `ResumeSending`, to poll for writability too. libuv calls
`UvPoller::io_event`, which calls back into JavaScript: first `onRecv` when the
descriptor is readable, then `onSend` when it is writable. `onRecv` calls
`Receive`, which reads one frame and synchronously calls a function that emits
`message`; `onSend` shifts one request and calls `Send`, which synchronously
calls the user's callback; with an empty queue it calls `PauseSending`. `close`
deletes the `UvPoller` (its handle is closed, libuv frees it later) and puts a
`NullPoller` in its place.

What is hard:

* **reentrancy**: listeners and send callbacks run inside `io_event`, inside
  `Receive` or `Send`, inside a `try` block. They may call `send` and `close`, and
  they may throw. After the outermost callback Node runs jobs and, after a throw
  nothing caught, the `uncaughtException` handler, before `io_event` goes on;
* **deletion under the caller**: `close` in the read callback deletes the object
  whose `io_event` is running and still has a writable event to handle;
* **a cached mask**: `set_events` returns early when the mask it remembers is the
  one asked for, and libuv stops the handle by itself when a poll fails;
* **liveness**: the queue must drain, frames must be read, an idle socket must stop
  asking for writability, a closed handle must be freed;
* **lifetime**: a `Wrapper` is held weakly by V8, may be collected in any allocation, and
  is called by libuv through a bare pointer; three persistent handles decide who holds whom;
* **memory with changing owner**: `Receive` allocates three blocks, resizes one, and gives
  them to Node one by one; every call on that way may fail;
* **values kept by reference**: the address and message of a queued send are the user's
  own Buffers, and the interface's address is read only once;
* **frames that differ from messages**: padding, a buffer that is too short, and a kernel
  that shows outgoing frames too;
* **counted memberships**: one group can be spelled in several ways and joined repeatedly;
* **a descriptor that works before it is ready**: the kernel queues frames from `socket()`
  on, any later call of the constructor may fail, and other threads take freed
  descriptors at any moment.

What makes each part correct: of the `Socket` queue, that requests go out in order,
once, with one lasting verdict each; of the poller, that cached mask and polled mask
agree and that nothing comes from a closed handle; of the wrapper, that every failure
reaches exactly one `catch`; of the raw socket, that the descriptor and what it delivers
belong to the device; of the wrapper's lifetime, that libuv polls only what lives; of
`Receive`, that each block has one owner; of memberships, that `leaveMC` undoes `joinMC`; of
frames and addresses, that what arrives, and where, is what was given to `send`.

`PROJECT.json` lists the parts, the hazards with their lines, and which property
is about which hazard.

## 2. Modules

| Module | Models | Corresponds to |
|---|---|---|
| `Poller` | `UvPoller`, `NullPoller`, the `uv_poll_t` | `alive`: the wrapper's `poller` is the `UvPoller`; `current_events`; `watched`: the mask libuv polls with; `handle`; `todo`: the part of `revents` that the running `io_event` has still to act on |
| `RawSocket` | `send_message`, `receive_message` and the kernel side | `rx`: frames in the backlog; `skerr`: the pending socket error, which a poll reports (EPOLLERR) and `recvmsg` returns and clears, as does a `sendto` that gets as far |
| `Wrapper` | the wrapper's methods on the event path | operations only: each method's ways to end (it calls back, or it throws) |
| `PacketSocket` | the composition, with the JavaScript `Socket` and user code | `requests`; `serving`: the `req` of the running `onSend`; `ctl`: the innermost frame of the call stack; `okCalls`, `errCalls`, `sent`, `late`: what has happened so far, for the properties |
| `SendService` | the abstract specification: what `send` promises | a FIFO of pending requests, one lasting outcome for each, `open`, and the one straggler close may leave |
| `SocketOpen` | the descriptors of several sockets from `socket()` to `close`, with the kernel and the other threads of the process | `step`: the last call of the constructor that succeeded, or open, stopped by a poll error, closed, failed; `fd`: `socket_descriptor`; `table`: the process's descriptor table; `hook`: the interfaces the kernel queues for; `queue`: where waiting frames came in |
| `WrapperLifetime` | several `Wrapper`s on one loop, from `New` to `~Wrapper`, with users, the collector, libuv and other threads | `phase` of the C++ object; `pinned`: its persistent handles are set; `named`: user code refers to it; `poller`; `handle`; `fd` and `table` as in `SocketOpen`; `running`: whose `io_event` is on the stack; `constructor`: `Wrapper::Init` has run |
| `ReceiveBuffers` | `Wrapper::Receive` call by call, the heap, the collector | `pc`; `at`: its three pointers; `owner` and `refs`: whose each block is and how many Buffers it backs; `emptied`: a frame without payload has come |
| `Membership` | `joinMC`, `leaveMC`, `AddMembership`, `DropMembership`, `ParseMembershipArguments`, `manage_membership`, the kernel's list | `mclist`: per socket, the count of each `packet_mreq`; `last`: the last call; `crashed` |
| `MembershipService` | the abstract specification: counted memberships | `members`, `last` |
| `Frames` | the lengths in `send_message` and `receive_message`, a link between two stations or `lo`, and which sockets are shown which frame | `device`; `sent`; `wire`; `rxq`: kernel queues; `got`: the `message` events |
| `FrameService` | the abstract specification: what listeners are promised | `sent`; `stream`: per socket, the events promised to its listeners; `heard`: how many of them they have had |
| `Addresses` | the text form of addresses and `addressToBuffer`, as operators | no state |
| `Addressing` | what becomes of the address and message of a `send`, to the frame, the `message` event and the answer | `content`: the user's arrays and Buffers; `requests`; `hwaddr`, and `hardware_address` read in `openSocket`; `link`; `heard`; `outcome` |
| `MCPacketSocket`, `MCReceiveBuffers`, `MCMembership`, `MCFrames`, `MCAddressing` | symmetry sets, byte values and texts for TLC; `SocketOpen` and `WrapperLifetime` need none | |
| `*Proofs` | theorems about the system of that name | |
| `QueueLemmas` | what `Append` and `Tail` do to the elements of a queue, for the proofs about `Frames` and `Addressing` | |

Each of the seven systems looks at one question and shares no state with the others;
where they meet, one states what another assumes. `SocketOpen` has no `~Socket` because of
the theorem `HoldersNeverDestroyed` about `WrapperLifetime`; `Addressing` leaves order, failure and
callbacks of the queue to `PacketSocket`; `Wrapper!ReceiveCallsBack` and `ReceiveThrows` are the ways
through `ReceiveBuffers`.

`SocketOpen` stands beside `PacketSocket`: it looks at descriptors and at where frames
come from, `PacketSocket` at one open socket and its callbacks. They share no state; what
`PacketSocket` counts in `rx` is the queue of one socket of `SocketOpen`.

`Poller`, `RawSocket` and `Wrapper` give state and operations without a next-state
relation; `PacketSocket` has the actions, one for each entry into the code:

| Action | Code |
|---|---|
| `Send(r)`, `Close` | `Socket.prototype.send`, `close`; possible wherever user code runs |
| `PollReady`, `PollError` | libuv calls `io_event_wrapper` with events, or with an error status (then `ErrorCallback`, `onError`, `emit("error")`) |
| `OnRecv` | the readable half of `io_event`: `ReadReadyCallback`, `onRecv`, `Wrapper::Receive` |
| `OnSendIdle`, `OnSendNext` | the writable half: `WriteReadyCallback`, `onSend`, then `PauseSending`, or `shift` and `Wrapper::Send` |
| `MessageListenerThrows`, `SendCallbackThrows`, `UncaughtThrow`, `UserReturns` | how a user callback ends: caught by `onRecv`, caught by `onSend`, caught by nobody, or normally |
| `DeletedPollerCrashes` | reading the members of a deleted `UvPoller` crashes; the other outcome, the old values being still there, is `OnSendIdle` and `OnSendNext` with `alive` FALSE |
| `Forget(r)` | an answered request is garbage once `onSend` has returned; its name is free for a later call of `send` |
| `IoEventReturns`, `LoopCloses`, `Network` | `io_event` returns; libuv calls `on_close`; frames arrive and the interface goes down |

The actions of `SocketOpen` are `CreateSocket` and `CreateSocketFails` (the `socket` call),
`Proceed` (the two `fcntl` and the two `ioctl` calls; the model looks at three points
between them), `BindSocket`, `ConstructorFails` (`catch(...)`), `Deliver` (`onRecv`), `PollError` (`io_event` with a
status), `Close`,
and `FrameArrives`, `OtherThreadOpens`, `OtherThreadCloses` for the surroundings. JavaScript runs
only when no constructor is under way (`Idle`), since the native constructor is
synchronous. There is no action for `~Socket`: it runs from `~Wrapper` only, and a `Wrapper`
of `socket.js` is never destroyed.

The actions of `WrapperLifetime`: `InitModule` (`Wrapper::Init`, before which nothing can be
constructed; the two constants it exports are `Exported` in `Membership`), `NewRejected`, `NewWithoutSocket`, `NewWithoutPoller`, `New` (the four
ways out of `Wrapper::New`), `Close`, `Collect` (the destructor up to `delete poller`) and
`DeleteSocket` (its end; other threads run in between), `IoEvent`, `IoEventReturns`, `HandleFreed`
(`on_close`), `UserForgets`, `OtherThread`. `Holding` are the wrappers whose callbacks refer to them,
as those of `socket.js` do through `me.wrap`; the others are what direct users of the native
class may build.

Those of `ReceiveBuffers`: `Malloc` and `MallocFails` for each of the three blocks, `ReceiveMessage`,
`ReceiveMessageThrows`, `Realloc` (in place, failing, or moving), `ReallocEmpty`, `NewBuffers`,
`NewBufferFails`, `CallbackReturns`, `Collect`, `OtherThread`.

Those of `Membership`: a call ends in `JoinMC`, `JoinFails`, `LeaveMC`, `LeaveUnknown`, `LeaveFails` or
`NullCall`, by its argument and the kernel's answer. `Calls` are what the arguments come to: an
address is given as text, as an array or as a Buffer, goes through `addressToBuffer`
(`AddressToBuffer`, with `ParseText` and `NewBuffer` of `Addresses`) and `ParseMembershipArguments`
(`Parse`), and is compared with what it spells for a reader (`Spelled`: one or two digits to a byte).
`MembershipService` takes its operations from the unit tests of `AddMembership` and `DropMembership`. A closed socket keeps its memberships,
since `close` does not close the descriptor.

Those of `Frames`: `SendMessage`, `Arrives`, `Lost`, `ReceiveMessage`. When a frame is shown to sockets
(`Enqueue`) the kernel may drop it for any of them whose queue is not empty: its backlog is
full. Those of `Addressing`: `Send`,
`SendThrows`, `Answer` (a listener that answers), `OnSend`, `OnSendRefused`, `OnRecv`, `UserWrites`,
`AddressChanges`, `Lost`.

Assumptions about what is not in the repository: an exception thrown in a function
that `Nan::MakeCallback` calls from a native method propagates to the JavaScript caller
of that method (Node 4 and later); libuv stops a poll handle before it reports an error
status; a closed libuv handle is never called back; AF_PACKET reports an interface going
down as a pending error; `realloc(p, 0)` frees (glibc); `node::Buffer` owns a block from the
moment `NewBuffer` is called with it, whether the Buffer comes to be or not; no AF_PACKET frame
of an Ethernet device or `lo` is shorter than its header; the kernel counts equal
`packet_mreq`s, and drops of unknown ones fail or not by its version; an outgoing frame is
shown to the device's other AF_PACKET sockets with `PACKET_OUTGOING` as its `pkttype`, on `lo` it also comes back to all of them; an
Ethernet device pads to 60 bytes. Return codes of `uv_poll_init_socket` and `uv_poll_start`,
which the code ignores, are taken as success. In `Addresses` a text is a sequence of parts
of hexadecimal digits or other characters; of a number only the low eight bits count, since a
Buffer keeps no more, so a part is parsed by its last two digits. Two things that `parseInt` does
are therefore outside the model: it skips leading white space and takes a sign and the
prefix `0x` (`-1` would be stored as 255), which are none of the modelled characters; and from
2^53 on its numbers lose their low bits, which parts of at most `MaxDigits` = 13 digits do not
reach. The texts of `Membership` have parts of one or two digits, those of `Addressing` any modelled characters.
Frames that a device takes for a group or in promiscuous mode are not in `Addressing`.

Operators whose comment says "faulty variant" are used by no specification: each is a
plausible bug, with which TLC finds the property named for it in `PROJECT.json` violated.

## 3. Runs

| Run | Configuration | Checks | Result |
|---|---|---|---|
| `event_path` | `PacketSocket`, 4 requests alive at a time, backlog 2, `FairSpec` | `NoLostWakeup`, `AnsweredOnce`, `OneStraggler`, `IInv`, `ClosedStaysQuiet`, `PollErrorIsFinal`, `ImplementsSendService`, `SendAnswered`, `FrameRead`, `SendingPauses`, `HandleReclaimed` | hold |
| `err_means_not_sent` | 2 requests | `ErrMeansNotSent` | violated |
| `silent_after_close` | 2 requests | `SilentAfterClose` | violated |
| `every_send_answered` | 2 requests, `FairSpec` | `EverySendAnswered` | violated |
| `open` | 3 sockets, 2 descriptors, 2 interfaces, backlog 2, `FairSpec` | `DescriptorInv`, `OwnDescriptor`, `NoOrphan`, `NoNewStrangers`, `StrangersPass` | hold |
| `lifetime` | 4 wrappers, 2 of them holding, 2 descriptors, `FairSpec` | `LifetimeInv`, `PolledLives`, `PointerMatchesHandle`, `DeadHoldsNothing`, `CalledWrapperLives`, `DestroyedIsReleased` | hold |
| `buffers` | 5 blocks up to symmetry, 2 Buffers on a block | `BuffersInv`, `NothingLeaks`, `OneBufferPerBlock`, `ListenersOwnBuffers` | hold |
| `buffer_has_its_block` | the same kind | `BufferHasItsBlock` | violated |
| `membership` | 2 sockets, 2 groups, each as text, array or Buffer, short, exact and long, every number, no address at all; counts to 2; up to symmetry | `CanonicalEntries`, `ImplementsMembershipService` | hold |
| `bad_argument_is_error` | 1 socket, the same kind | `BadArgumentIsError` | violated |
| `frames` | sockets a and b on one station, c on the other, an Ethernet or `lo` (chosen in `Init`); 2 messages of 0, 45, 46, 1500, 2048, 2049 or 65536 bytes, as far as the device takes them | `FramesInv`, `WholeMessage`, `CutAtBufferOnly`, `OnceInOrder`, `ImplementsFrameService` | hold |
| `addressing` | 2 stations, an array, a Buffer, 3 interface addresses, 3 texts; 1 request and 1 frame at a time | `AddressingInv`, `SentAsGiven`, `AnswersReturn`, `SendersToldApart` | hold |

What the passing runs show:

* `NoLostWakeup`: however sends, pauses, poll errors and close interleave, an open socket
  with something queued has `current_events = RW_EVENT`, and libuv polls with exactly the
  cached mask unless an uncleared socket error stopped the handle.
* `AnsweredOnce`: a callback is called at most once with success and once with an error, and
  not before its request has left the queue.
* `OneStraggler` and `ClosedStaysQuiet`: after close no `io_event` ever begins, and the one
  that was running attempts at most one request.
* `PollErrorIsFinal`: once a poll has reported an error the error is never cleared, and
  nothing is sent or received again.
* `ImplementsSendService`: all of this together implements the abstract service.
* `SendAnswered`, `FrameRead`, `SendingPauses`, `HandleReclaimed`: see section 4.
* `OwnDescriptor` and `NoOrphan`: whatever call of the constructor fails and whatever other
  threads open and close in between, no socket's number names a descriptor of somebody
  else, and a failed constructor leaves none behind.
* `NoNewStrangers` and `StrangersPass`: frames of other interfaces in a socket's queue date
  from before `bind`, and a socket that is neither closed nor stopped by a
  poll error is through with them after finitely many reads.
* `PolledLives`, `PointerMatchesHandle`, `DeadHoldsNothing`: in every order of close, collection,
  loop turns and other threads' opens, libuv polls a living wrapper on its own descriptor
  and nothing else, `uv_close` is called once for each handle, and a destroyed wrapper has
  given everything back. A constructor that fails half-way leaves persistent handles, and
  with a failing `UvPoller` a descriptor too, but never something that is polled.
* `CalledWrapperLives`: the persistent handles keep a wrapper of `socket.js` alive during its
  callbacks, whatever close and the collector do meanwhile. It is about the `Holding` wrappers
  alone: one built directly on the native class, with callbacks that do not refer to it, may be
  destroyed under its own callback. `DestroyedIsReleased`: where a wrapper is destroyed, the
  loop gets round to freeing its handle.
* `NothingLeaks`, `OneBufferPerBlock`, `ListenersOwnBuffers`: on every path through `Receive` each
  block has one owner, the last two as long as every frame had a payload (what happens otherwise is
  the run `buffer_has_its_block`).
* `CanonicalEntries`, `ImplementsMembershipService`: a group spelled as text with one or two
  digits to a byte, as array or as Buffer, with or without bytes behind the six, is the same
  kernel entry, so that `leaveMC` finds what `joinMC` made; and a failed call changes nothing.
* `WholeMessage`, `CutAtBufferOnly`: messages from 46 to 2048 bytes arrive whole, and only a full
  buffer cuts. `OnceInOrder`: a sender is heard in order and once for each way the kernel
  shows its frames: one on an Ethernet, even with two sockets on one station, one of which sees
  the other's frames leave, and two on `lo`. `ImplementsFrameService`: whatever is lost on the link
  or dropped at a full backlog, listeners get what `FrameService` promises. It has neither
  frames nor queues: a message is promised to the others of the sender's station as it is
  sent, and to those it is for later, all at once and never behind a newer one; an event
  differs from its message by padding and by the cut at 2048 bytes alone.
* `SentAsGiven`: a request goes out as it was given unless the user wrote to a Buffer of it
  in between; writing to an array has no effect. `AnswersReturn`: an answer to the text of
  a message goes to the address its sender's socket was opened with, and `SendersToldApart`:
  while no interface has changed its address, to that sender alone.

What the violated ones show (quotations are in `PROJECT.json`):

* a send callback that throws on success is called a second time with that exception as
  its error, since the `try` of `onSend` covers the user's callback (`socket.js:36-42`);
* `close` in a message listener while the same event is also writable: `io_event` reads two
  members of the object it was deleted with (`poller.cc:39-40`) and may send one more packet;
* after a poll error with `RW_EVENT` cached, `set_events` returns early for ever
  (`poller.cc:45`): later sends are queued and never answered;
* a frame without payload: `realloc` to 0 bytes frees the block that `NewBuffer` then gets
  (`wrapper.cc:238-244`), so that a Buffer has memory that may be another's;
* `joinMC(0)`: the number is `PACKET_MR_MULTICAST` and has no address, six bytes are copied
  from NULL (`socket.cc:141`).

The passing properties are as weak as the code makes them. What a reader of the
documentation may miss in them:

* `SendAnswered` says nothing of a closed socket: `close` drops the queue without a callback,
  and a send after close is queued for ever (`socket.js:59`, `poller.cc:54`);
* `NoNewStrangers` lets frames through that another interface received between
  `socket(ETH_P_ALL)` and `bind`: they are emitted as messages of the device (`socket.cc:13`);
* a closed socket keeps its descriptor for ever: its wrapper is never destroyed (theorem
  `HoldersNeverDestroyed`; `wrapper.cc:27-29` and `119-123`), and only `~Socket` closes the
  descriptor. This is a leak, stated as a fact that `SocketOpen` rests on and not as
  something to be wished for; no document says that `close` releases anything. The repair
  has a trap, which the faulty variant `CloseAndForget` shows: with the descriptor closed
  and the number kept, a later `joinMC` would act on whatever got that number;
* `WholeMessage` begins at 46 bytes: a shorter message comes out of an Ethernet with its
  padding (`socket.cc:121`), though the sender had put its length into the header. That
  field (`socket.cc:75`) is left out of `Frames`, since no part of the program reads it: it
  reads as a protocol number from 1536 bytes on and wraps at 65536;
* `OnceInOrder` has two ways on `lo`: there every message is received twice, except by its sender
  (`socket.cc:113`), since the socket takes outgoing frames and `sll_pkttype` is not looked at.

A text that is no address is not refused as long as it has six parts (theorem
`AddressForms`): a part without hexadecimal digits is sent as 0, and one above `ff` loses its high bits (`socket.js:12-13`); no document says what should
happen. `onError` emits libuv's message as a string where `README.md:57` says error object.

One more divergence needs no model: `openSocket` reports a failure with `emit('error')` from
the constructor (`socket.js:54`), when no listener can have been added yet; EventEmitter then
throws, where the documentation of the `error` event (`README.md:57`) promises an event.

Bounds. `PacketSocket`: nothing but the number of requests alive at a time and the backlog
is bounded: `Forget` makes the names of answered requests free again, so that users may
send, and the descriptor be writable, without end. `FrameRead` needs that: an `io_event`
that looked at the writable half first, and at the other only if there is none (the faulty
variant `IoEventWritableFirst`), would read a frame late, but read it, if requests ran out.
Two requests give "one being served, one queued" and sends out of callbacks; four also give
a queue that grows while it is served and the order of three that wait. A backlog of two
distinguishes empty, one and more. `SocketOpen`: three sockets on two descriptors give a
socket that finds the table full, and a descriptor used, freed and taken by another socket
or thread; two interfaces are the device and any other. `WrapperLifetime`: two holding and
two others, on two descriptors, give reuse of a descriptor across both kinds.
`ReceiveBuffers`: five blocks are the three of a call, one that `realloc` moves to, and one
of somebody else. `Membership`: counts to 2 show what is counted and what is not; of one
group there are spellings of every kind, with one digit and two, and with a byte too few and
too many. `Frames`: the lengths are both sides of each limit (46, 1500, 2048), the devices
take 9000 bytes (jumbo frames) and 65536 (`lo`); two messages give order. `Addressing`: one
request and one frame, with writes and address changes at any time, are enough, since
neither depends on another one; the three interface addresses have bytes of one and two
digits, with and without letters, one being another reversed. The theorems of section 5 need
no bounds. `CHECK_DEADLOCK FALSE` is right since the process may end (`ctl = "dead"`, an
uncaught exception or a crash), and then nothing but the network moves; likewise a crash in
`Membership`, and in `WrapperLifetime`, `Frames` and `Addressing` nothing need be left to do
at the bounds. The runs of `SocketOpen` and `ReceiveBuffers` check deadlock.

## 4. Fairness

`FairSpec` assumes weak fairness of the steps of `io_event`, of libuv's closing phase and
of its poll (native code runs on, the loop turns), and of `UserReturns` (a callback
that never returns stops the process). It assumes strong fairness of polls that find the
descriptor writable: the transmit buffer may be full now and again and always drains. It
assumes nothing of users' sends and closes and of the network, and no fairness of throws.
In `SocketOpen` the constructor's calls and `Deliver` are weakly fair, for the same reasons:
a started native constructor runs to its end, and a readable socket is read as long as its
handle is polled. That ends with close and with a poll error, after which the handle may be
stopped for good and whose cause is never cleared (`PollErrorIsFinal`); `StrangersPass` says
nothing of a socket that has left `open` by either.

In `WrapperLifetime` a destructor and an `io_event` end (weak fairness), and `HandleFreed` is strongly
fair: the closing phase is the end of every turn of the loop, however many `io_event`s the
turns are full of. Nothing is assumed of the collector.

Every liveness property leaves a way out for a process that has ended; `SendAnswered` and
`FrameRead` also for a handle that is no longer polled. That this last exception is
needed is what `every_send_answered` shows for a poll error.

## 5. Proofs

`PacketSocketProofs` proves, for every set `Requests`, every `NoRequest` outside it
(`RequestsAssumption`) and every positive `MaxBacklog` (`BacklogAssumption`):

| Theorem | States |
|---|---|
| `Invariant` | `Spec => []IInv` |
| `WakeupSafe`, `AnswersSafe`, `StragglerSafe` | the other three invariants of the `event_path` run |
| `TypeCorrect` | `Spec => []TypeOK`, a conjunct of `IInv` that the run does not repeat |
| `CloseSilences`, `ErrorIsFinal` | its two action properties |
| `Refinement` | `Spec => ImplementsSendService` |

`SocketOpenProofs` proves, for any sockets, descriptors, interfaces and backlog that satisfy
`DescriptorAssumption`:

| Theorem | States |
|---|---|
| `Descriptors`, `DescriptorsOwn`, `DescriptorsNotLost` | `Spec => []DescriptorInv`, and its parts `OwnDescriptor` and `NoOrphan` |
| `NoStrangersAfterBind` | `Spec => NoNewStrangers` |

`WrapperLifetimeProofs`, `ReceiveBuffersProofs`, `MembershipProofs`, `FramesProofs` and `AddressingProofs`
prove, for all values of the constants that satisfy the module's assumption:

| Theorem | States |
|---|---|
| `Lifetimes`, `PolledWrappersLive`, `PointersMatchHandles`, `DestroyedHoldNothing`, `CalledWrappersLive` | `Spec => []LifetimeInv`, and its parts `PolledLives`, `PointerMatchesHandle`, `DeadHoldsNothing`, `CalledWrapperLives` |
| `HoldersNeverDestroyed` | a wrapper whose callbacks hold it is destroyed in no reachable state: the leak of section 3 |
| `Buffers`, `BuffersNotLost`, `BuffersNotShared`, `ListenersSafe` | `Spec => []BuffersInv`, and `NothingLeaks`, `OneBufferPerBlock`, `ListenersOwnBuffers` |
| `Entries`, `EntriesCanonical` | `Spec => []MembershipInv` (a type invariant that no run needs to repeat), and `CanonicalEntries` |
| `MembershipRefinement` | `Spec => ImplementsMembershipService` |
| `FramesProofs!Invariant`, `WholeMessages`, `CutOnlyByBuffer`, `HeardInOrder` | `Spec => []FramesInv`, and `WholeMessage`, `CutAtBufferOnly`, `OnceInOrder` |
| `FrameRefinement` | `Spec => ImplementsFrameService` |
| `AddressingProofs!Invariant`, `GivenIsSent`, `AnswersGoBack`, `TellsSendersApart` | `Spec => []AddressingInv`, and `SentAsGiven`, `AnswersReturn`, `SendersToldApart` |
| `AddressForms` | `FormatAddress` and `ParseText` are inverse to each other between addresses and texts of six parts with two digits each, and every text of six parts of the modelled characters is read as an address |

The argument for `PacketSocket` is one inductive invariant, `IInv`: `TypeOK`, the three
properties and what makes them inductive.

* `NoLostWakeup` needs that a poll error never stops the handle under a running `io_event`
  (`todo # {}` implies `watched = current_events`): `Receive` and `Send` may clear the socket
  error that would excuse a stopped handle.
* `AnsweredOnce` needs `VerdictMatchesWire` (the requests answered with success are those in
  `sent`), that a success callback runs only for a request in `sent` with no error
  call yet, and that the queue holds no request twice (`IsInjective(requests)`): a request
  that was shifted is not queued any more.
* `OneStraggler` needs that a straggler has used up the event (`late # {}` implies
  `todo = {}` and a deleted poller), and that a deleted poller's handle polls for nothing.

There is one lemma for each action or group of actions that touch the same state, and the
queue lemmas (`PushElements`, `ShiftElements`, `PushInjective`, `ShiftInjective`) say what
`push` and `shift` do to its elements. `Refinement` uses `IInv` for the four steps that move
the service: `Send` is `Submit`, `OnSendNext` is `Attempt`, `Forget` is `Forget`, the first `Close` is
`Close`, every other step is a stutter; a callback that throws after success changes no outcome, since its
request is in `sent`.

For `SocketOpen`, `OwnDescriptor` and `NoOrphan` carry each other: freeing a descriptor in the
catch block disturbs no other socket since no two remember the same one.
`NoStrangersAfterBind` adds `HookInv` (a bound socket is hooked to the device alone) and three
lemmas on the number of strangers in a sequence, its tail, and with a frame appended.

For `WrapperLifetime`, `LifetimeInv` adds to its named parts that a descriptor's owner remembers
that descriptor, that a living wrapper is pinned and has its descriptor, and that a dying
one has neither handle polled nor pins; `HoldersNeverDestroyed` follows, since a pinned holder is
reachable. For `ReceiveBuffers`, `BuffersInv` adds which pointers hold a block at each `pc` and that they
differ; the count of Buffers per block needs the cardinality of the pointers to it, which
is at most one then. For `Membership`, the refinement uses that equal entries are equal
memberships: `Entry` is injective, and an argument that is not refused makes the entry
of what it names. For the latter the proof shows that what is parsed is what is spelled: a
part of one or two digits is read as a whole (`AllDigits`, `WrittenPart`), hence every text
(`SpelledText`), and a Buffer made of an array of bytes has these bytes (`SpelledArray`).

For `Frames`, `FramesInv` says of every frame and event what the device has made of its message
(`FrameOK`, `EventOK`, `ShownTo`), and of every socket that what it has heard, what the kernel
queues for it and what is on the wire to it are in order, for each `pkttype` by itself
(`InOrder`, `Before`). `OnceInOrder` follows, since numbers that increase do not repeat, and
since over an Ethernet a socket is shown one sender's frames by one way only. Nothing in the
proof depends on what a device's limits are.

`FrameRefinement` maps `stream` to what a socket's listeners have had followed by the events of
the frames in its queue (`Stream`), and `heard` to the number of the former. It needs `FramesInv`
for two things: the event of a queued frame is the one promised for its message (its bytes
are those `FrameOK` says, whichever way it came; `OutgoingEvent`, `ArrivingEvent`), and a frame on the
wire is newer than all that its sockets have been shown (`Before`), which is the guard of
`Carry`. Then `SendMessage` is `Send`, `Arrives` is `Carry`, and `Lost` is a stutter. `ReceiveMessage`
is `Hear`: moving the head of the queue to the end of `got` leaves the stream as it is
(`StreamSteps`), which is where a frame read twice, or read out of turn, would break the proof.

For `Addressing`, `AddressingInv` says that a queued request still means what it meant in the call
of `send` unless one of its Buffers was written to, that a frame carries its socket's address,
and that a listener's text is the address its sender's socket was opened with.
`AnswersReturn` rests on `AddressRoundTrip`: parsing what was formatted gives the address back,
for all six-byte addresses. `AddressForms` adds the other direction, and that no text of six parts
fails the length checks of `Wrapper::Send` and `ParseMembershipArguments`, whatever modelled characters stand
between its colons. `HexPrefix` chooses the longest run of digits, whose existence is
the least-element lemma `LeastNatural`; the library proves that by induction, which the
provers at hand cannot apply, so here it follows from strict inclusion being
well-founded on finite sets.

Liveness is only model-checked: it rests on fairness and ENABLED, which are out of the
prover's reach.

## 6. Not modelled

* Unit tests, mocks and build files are not part of the running program.
* Details that no property is about: the `ether_type` of a frame, the wording of errors, the number and type checks of
  arguments that `socket.js` never gets wrong, device names, the interface index, and
  `msg_control` of the `msghdr`, which `receive_message` does not set and does not use.

What could be added: sockets opened while others send, as a composition of `PacketSocket` with
`SocketOpen`; frames to groups, as a composition of `Membership` with `Frames`.
