# WSocket: a verification project

TLA+ models, model-checking runs and machine-checked proofs for WSocket, a header-only C++ library
with a WebSocket-like protocol: frames over a stream socket, a handshake that agrees on a compression
codec, text and binary messages, a closing handshake and keep-alive pings. The sources are under
`src/`; file names below are relative to `src/include/` unless they start with `src/`.

## 1. Inventory

### Components

| component | source | state | operations |
|---|---|---|---|
| `WSocketContext` | `WSocketContext.hpp` 89-471 | `state_` (Init, Connecting, Connected, Closing, Closed, Error), `compress_context_` | `Handshake`, `Close`, `SendText`, `SendBinary`, `Ping`, `Pong`; `Feed` and `CommitWrite`, which run `ParseProcess`; a handler for each frame type |
| `FrameParser` | `WSocketContext.hpp` 36-93 | its `SlidingBuffer` | `Feed`, `PrepareWrite`, `CommitWrite`, `ParseOne` |
| `SlidingBuffer` | `SlidingBuffer.hpp` | the memory, `buffer_size_`, `buffer_used_` | `Feed`, `PrepareWrite`, `CommitWrite`, `Resize`, `Consume` |
| `FrameHeader` | `Frame.hpp` | flag byte, length byte, `payload_length_` | `Length` (set, get), `HeaderLength`, `Type`, `Finished` |
| `CompressManager` | `compress/CompressManager.hpp`, `compress/Compress.hpp` | the codecs registered at start-up | names offered, names understood, create a context |
| `ZstdContext` | `compress/Zstd.hpp` | zstd streams, output buffers | `Create`, `Open`, `Compress`, `Decompress` |
| `KeepAliveManager` | `ASIO_KeepAliveManager.hpp` | two timers, two periods | `Start`, `Flush`, `Stop`, two timer handlers |
| `WSocketBase` | `ASIO_WSocket.hpp` | socket, a context, a manager | connects the parts: receive loop, send handler, keep-alive handlers, `OnPing` |
| `Error` | `Error.h` | none | names of error codes |
| tests | `src/test.cpp` | | two contexts linked by their send handlers |

### How they interact

The application calls a context. A context turns a call into a frame and hands its bytes to its
*send handler* (the socket, or in the tests the other context's `Feed`). Received bytes go
to `Feed` or `CommitWrite`; `ParseProcess` takes frames from the buffer one at a time, and `OnFrame`
runs the frame's handler, which may change `state_`, answer with a frame and call the *listener*
(`OnHandshake`, `OnConnected`, `OnText`, `OnBinary`, `OnPing`, `OnPong`, `OnClose`, `OnError`). A
listener may call the context back. `WSocketBase` is the listener of a context, where it answers
`OnPing` with a Pong, and of a `KeepAliveManager`: when the *expired* timer fires it sets both timers
again and pings; when the *timeout* timer, three times as long, fires, it closes the context and shuts
the socket down. Nothing that arrives from the peer reaches the manager.

There are no threads in the library: a context is used from one event loop. Concurrency is
that of two peers whose frames cross, of timer handlers that are queued behind other work, and of
callbacks that send: on a link without a queue, such as the one the tests build, a send runs the
peer's `Feed` on the sender's stack.

A `WSocketBase` session is kept alive by its application and by the handler of the operation
outstanding on its socket (the connect, then one receive after another). The handlers of its timers hold
plain pointers; the destructor of the manager cancels their waits.

### What is hard

* Both sides may start the handshake, close, or do one while the other does the other. Each handler
  runs in the state the crossing left behind, and two of them (`OnSystemFrame`, `OnCloseFrame`) decide
  whether to answer by that state.
* One side knows the codec agreed on a message earlier than the other, and either side may fail to
  create it.
* A close must not lose the texts sent before it, or leave one side waiting.
* A stream is cut anywhere; the buffer has stale bytes behind its data, and grows only in `Feed`.
* The boundaries of three length encodings, two sizes of length field.
* Timers are cancelled and set again while their handlers may be queued already.
* Callbacks that re-enter `Feed` while `ParseOne` holds a pointer into the buffer and has not consumed
  the frame yet.
* The end of a session: the closing handshake, the end of the data, a timeout, a failed connect and an
  application that lets go come in any order, and each leaves something outstanding.

### What makes each part correct

* A **pair of contexts** opens once on each side, on one codec; gives over every text once,
  in order and undamaged; and when one side closes, both end closed, after the last text, having told
  each application once. On an application that goes by its callbacks no assert fires.
* The **parser** is a FIFO channel of frames, however the bytes are cut.
* The **header** says the length the payload has.
* **Keep-alive** pings come at the set period, and a peer that no longer answers is found out.
* On a **synchronous link** every call returns, with every frame handled once and both sides agreed.
* A **session** that is destroyed leaves nothing that would still call it, one whose connection is gone
  is destroyed in the end, and a side that gives up on a connection says so.

## 2. Modules

| module | what it is |
|---|---|
| `WSocketContext` | two contexts over channels of frames: the core |
| `DuplexStream` | abstract: two streams of texts, opened once and closed after their last text |
| `WSocketContextProofs` | theorems about `WSocketContext`: its inductive invariant and what follows |
| `StreamProofs` | theorem: `WSocketContext` implements `DuplexStream` |
| `CodecProofs` | theorem: both sides of a `WSocketContext` pair agree on a codec |
| `SynchronousPair` | two contexts that feed each other on one stack |
| `SynchronousPairProofs` | theorems about `SynchronousPair` |
| `FrameHeader` | the header as bytes: length encodings |
| `FrameHeaderProofs` | theorem: the header reads back what was written; induction, powers, digits |
| `FrameParser` | one direction of a connection as bytes; extends `FrameHeader` |
| `FrameParserProofs` | theorems about `FrameParser`: its invariants, and that it implements `FrameChannel` |
| `FrameChannel` | abstract: a reliable FIFO channel of frames |
| `KeepAliveManager` | both timers, their handlers and the event loop, in ticks of time |
| `KeepAliveManagerProofs` | theorems about `KeepAliveManager` |
| `Session` | two `WSocketBase` sessions: socket, receive loop, timers, lifetime |
| `SessionProofs` | theorems about `Session` |
| `MC...` | constants for the runs |

`FrameParser` implements `FrameChannel`, and `WSocketContext` is written over such channels (`net`):
the two layers meet there. `WSocketContext` implements `DuplexStream`. `SynchronousPair` and `Session`
are two ways to put contexts to use: the link of the tests, and sockets with timers. Each keeps of the
context the states, and of the frames those its own question depends on.

### `WSocketContext`

One action per call and per frame handler; a handler is a whole iteration of the `ParseProcess` loop,
from its test of `state_` through `OnFrame` to `Consume`, with the answer it sends. Variables:

* `state`, `codec`: `state_`, and the type of `compress_context_` (`None` for a null pointer).
* `net[n]`: the frames on their way to `n`; `sent[n][t]`: how many frames of type `t` `n` sent.
* `opened`, `closed`, `got`, `bad`, `quit`: what the application of each side has been told, and whether
  it has called `Close`.
* `lost`: the side took no codec on a System frame that named one it has, in a state in which it sends
  no answer. No frame tells the peer of that.

A frame keeps the type, the FIN bit, the codec names of a System frame, and for data the codec that
encoded the payload and the number of the text. Names are a set: splitting and joining with `;`
is abstracted. `Decompress` fails, or gives something else, exactly on what the same codec has
not written; so `bad` collects the data that arrives as `DecompressError` or altered.

*The application.* The guards `MayHandshake`, `MaySend` and `MayClose` are what an application knows
from its callbacks: it starts at most one handshake, on a fresh connection; it sends between
`OnConnected` and its own `Close` or `OnClose`; it closes until `OnClose`. The code's asserts are *not*
guards; `AssertsHold` says they follow. The listener's answer to `OnHandshake`
is any acceptable codec of the request, as in the tests, or `None`. Calls at the end of a callback
are calls right after the frame; the one callback whose position matters, `OnHandshake`, which runs in
the middle of `OnSystemFrame`, has an action of its own for `Close` (`OnSystemFrameRejected`). `Adopt` is what both make of the codec;
creating it may fail on the contexts in `OpenMayFail`, each time or not.

`SendTextFails` is the branch of `SendText` in which `Compress` fails. A `Close` whose reason is too
long reports it and closes with the standard code: one frame either way.

`SendOther` is no call of this library: a peer of another make sends a frame that `OnFrame` has no handler for
(an unknown opcode, a Close of fewer than two bytes, on which `OnCloseFrame` returns early), and
`OnOtherFrame` skips it. `src/ReadMe.md` 153-155 has another answer to an unknown opcode; see section 5.

`StreamSpec` is about texts and is no statement of that answer: in `DuplexStream` either side may stop at
any time (`Stop`), so it holds of the code, which skips the frame, stays open and delivers later texts, and would
hold of a context that closes on it. That the run `context_live` passes says that such a frame loses
no text and holds up no close, not that skipping it is what the protocol asks for.

Left out: the finish flag of data frames and empty messages (refused with `MessageEmpty` before
anything changes).

### `FrameHeader` and `FrameParser`

Bytes are numbers below `Radix`, and `payload_length_` has `Wide` bytes. In the code they are 256 and 8.
With 4 and 6 the boundary between the first two encodings is at 2 and the next at 16, so both
are crossed by payloads a model checker can hold. What is kept of the code's numbers: the two marks
are the largest two byte values, the narrow field has two bytes, the basic header two bytes, and sums of
sizes are modulo the width of `size_t`. The definitions have the code's two header sizes exchanged
as the code has them (`Frame.hpp` 107-109), so a medium frame has a header of `Basic + Wide` bytes.

`Power` and `Value` are recursive functions, not folds, so that they can be proved about; `Value` reads a
number from its first digit on.

`buffer` is the whole memory, `used` the number of bytes that are data; what lies behind them is stale and
stays, as `Consume` leaves it. `Length` reads memory, not data, and may read stale bytes. `Receive` takes
any non-empty part of the stream, by `Feed` or, when `inPlace`, by `PrepareWrite`/`CommitWrite` into the
room left; with no room the receive completes with no bytes. `ParseOne` and `NeedMore` are the two ways
an iteration of the loop ends.

### `KeepAliveManager`

Time in ticks. A timer has a wait (`waiting`) with `left` ticks to go. An expired wait can still be
cancelled until the event loop has queued its handler (`Poll`); a queued handler (`ready`) runs with
no error whatever `cancel` does later. The loop may leave due work undone for up to `MaxLag`
ticks (a busy handler, a suspended process); `late` records that it once did so for two periods.
`OnExpiredTimerTimeout` and `OnTimeoutTimerTimeout` are the handlers through `WSocketBase` to their last
call; the context is not part of this module, so that `Close` asserts on a Closed one, and that the session ends
after the shutdown, is in `Session`. Handlers of cancelled waits return at once and are left out.

### `SynchronousPair`

`test_WSocketContext` gives each context a send handler that calls the other's `Feed`. `stack` holds the
calls of `ParseProcess` that are running, the innermost first; each has a context, the frame it is in
the middle of, and what it does next: look for a frame (`parse`), go on in `OnFrame` after the answer
(`notify`), or consume the frame (`consume`). `SendFrame` appends to the peer's `buffer` and pushes a
call. So `ParseOne` of a context that is fed again finds the frame that is being handled
still in front, and the outer `Consume` then reads a header that is not the one it has handled;
with an empty buffer the length wraps around (`corrupt`). Calls of the applications (`Handshake`,
`SendText`, `Ping`, `Pong`, `Close`) start on an empty stack.

Which frame a listener sends from which callback is the constant function `react`, chosen in `Init`
among the *safe* ones: what one side sends from a callback the other takes in silence, and the caller of
`Handshake` sends nothing from `OnConnected`, which runs on top of the other side's answer. A Ping is answered
with a Pong like this, and a Pong with nothing. The listeners of `test_WSocketContext` are safe. Two
listeners that answer texts with texts are not. Callbacks that call `Close`, as the asio tests' listener does
from `OnText` (`src/test.cpp` 354-357, on a socket), are outside the policies.

### `Session`

Two sessions, a client that connects and a server that accepts. `socket` is the stage of each side's
socket; `net` what it has yet to receive, with `Eof` at the end of the peer's data; `recv` says a receive
is outstanding; `ref` that the application holds the session; `life` whether it exists. `Destroy` is the
destructor and happens in the action that ends the last hold on a session: `Release` by the application,
or the receive or connect handler that starts no other. `room` is what is left of the receive buffer once the
context is Closed and nothing is parsed any more; `Full` is the receive of length zero that completes
at once for ever. `waiting` and `queued` are the timers as in `KeepAliveManager` with time left out: the
expiry comes first, and the timeout is queued behind it if the loop is late enough. `Abort` is a failing
assert. `CanSend` models that `send` blocks on a full socket: the handler that sends waits for room. In the code its
whole event loop waits; in the model the other handlers of that side may run first, which allows more
orders than the code has. `Full` needs a Closed context because the frames of this module are short: a buffer that a
frame too long for it fills before the close is finding 4, in `FrameParser`.

The frames are those that change the context or keep the link busy: System, Close, Ping, Pong. Texts
are the concern of `WSocketContext`.

## 3. Runs

All runs take two contexts, one stream, one manager or two sessions; TLC visits every state. Deadlock is
not checked (`CHECK_DEADLOCK FALSE`): an application may have nothing more to say, and calls are bounded,
so every model really stops.

| run | expected | states | what it shows |
|---|---|---|---|
| `context_open` | pass | 543206 | either or both sides start the handshake and may fail to create the codec; texts, binary messages, pings and two closes a side cross: asserts hold, callbacks come once, no half-closed connection, no text lost, none misread but where a codec was lost without a frame to say so |
| `context_live` | pass | 23792 | every handshake and every close ends on both sides, also when the code skips a frame; the pair implements `DuplexStream`, liveness included |
| `context_close_twice` | violation of `OneCloseFrame` | | finding 1 |
| `context_binary` | violation of `BinaryIntact` | | finding 2 |
| `sync` | pass | 281282 | with every safe policy: no re-entry, every frame handled once, every call returns, each step nearer to it, and both sides agree when it does |
| `parser_stream` | pass | 30133 | short and medium frames come out as a FIFO channel by either way in; no byte lost, repeated or misplaced |
| `parser_large` | violation of `FramesIntact` | | finding 3 |
| `parser_full` | violation of `FramesArrive` | | finding 4 |
| `keepalive_late` | pass | 2288 | on a loop that may stall beyond the timeout: only a loop that was two periods late times out, pings are the period in force apart (or, if the application set the timers while one was queued, some period) and go on for ever |
| `keepalive_dead` | violation of `DeadPeerDetected` | | finding 6 |
| `session` | pass | 152746 | nothing that would call a session outlives it but queued timer handlers; a timeout tells the peer; a session whose connection is gone is destroyed unless its buffer has filled up |
| `session_close` | violation of `ConnectionsClose` | | finding 5 |

### Bounds, and why they are enough

* `MaxSent` bounds what an application sends, for each side and type (handshakes bound themselves; answers
  are not bounded). One text before and one after each of the other events is enough to be lost, overtaken
  or misread; two in `context_live` let one be on its way while another is handled. A second `Close` is there
  since an application may call it twice, and because a context reopened by a crossing handshake
  sends another. The theorems remove these bounds.
* One codec, `Zstd`, is what the library has. Both sides may fail to create it in `context_open`, so that
  each can also end up without.
* `sync`: four calls of the applications are a handshake, two of anything, and a close; the theorems
  hold for any number. All safe policies are initial states of the one run.
* `parser_stream`: three frames, so that one is handled, one cut and one behind it; payloads of zero,
  one, two (the boundary) and four bytes, the last of which just fills the buffer of 12; payload
  bytes that look like marks. `parser_large`: 15 and 16, both sides of the second boundary. `parser_full`:
  one byte more than fits.
* `keepalive_late`: periods of 2 and 3 ticks; `MaxLag` 6 is as long as the shortest timeout, so that both
  handlers are queued together. Three calls of the application suffice to start, change and set again;
  `Horizon` 4 is above every period.
* `session`: `Room` 1 and `MaxNet` 2: a buffer that still takes a frame after the close and then is full, a
  socket that holds a frame and its answer and then blocks. The theorems hold for any.

Each property of a passing run has a mutant, a plausible bug in the code (comments beginning
`Mutant:`), that the run's own configuration finds.

### Fairness

* `WSocketContext`: `WF(OnFrame(n))`: the transport delivers and the loop reads. There is none on calls: no
  application has to answer, send or close. That is all the library relies on.
* `SynchronousPair`: `WF(ParseProcess)`: code that is running goes on. None on calls.
* `FrameParser`: weak fairness of receiving and of the parse loop. None on sending.
* `KeepAliveManager`: time passes and the loop polls and runs what it queued. None on calls.
* `Session`: a connect ends, the server accepts, data is received, timers expire and queued handlers
  run. None on `Close` and `Release`: an application may keep its session.

## 4. Proofs

All proofs are checked by TLAPS from the named assumptions on the constants (`NodePair`,
`ConstantTypes`, `SynchronousConstants`, `KeepAliveConstants`, `SessionConstants`, `HeaderConstants`,
`ParserConstants`).

`WSocketContextProofs`, for every pair of nodes, every choice of initiators, codecs and listeners, codecs that
fail to open on either side, and every bound:

* `TypeCorrect`: `Spec => []TypeOK`.
* `Inductive`: `Spec => []IInv`, with `IInv == TypeOK /\ \A n : Local(n) /\ Link(n)`.
* `AssertsHoldAlways`, `CallbacksOnceAlways`, `CloseReachesPeerAlways`, `CloseFlushesTextsAlways`: the
  four invariants of `context_open` that do not depend on codecs, each a consequence of `IInv`.

None of the four is inductive alone. `CallbacksOnce` needs that at most one System frame is ever on
its way to a side, and only while that side has not been opened: this in turn needs that a context sends
at most one, though `OnSystemFrame` can leave any state. `CloseFlushesTexts` needs that no text
follows a Close in a channel, that the texts in a channel are exactly those sent and not handled, in
order, and that a side that has sent Close sends no text (`quit`). `CloseReachesPeer` needs that a Close sent
is still in the channel until the other side is closed. `Local` has the part of this that one context knows
of itself, `Link` the part about a channel and the counters of both its ends. The proof shows
that sending (`SendKeepsLink`), taking (`TakeKeepsLink`) and standing still (`QuietKeepsLink`) preserve
`Link` for each kind of frame, and that each action is one of `SendStep`, `TakeStep`, `ReplyStep`.

`StreamProofs`: `ImplementsStream`, `Spec => Stream!Spec`, the safety half of the refinement, for the same
constants. `IInv` is not enough for it: a text may be handed over only after `OnConnected`, so the
invariant `Opens` adds that before a text in the channel of a side that has not been opened there is
a System frame. Each action is then an `Open`, `Send`, `Deliver`, `Stop` or `Finish` of the stream, or
leaves what the applications see alone (`Stutters`).

`CodecProofs`: `TextIntactAlways`, for the same constants. `Agree` says that, unless some side has lost its
codec, two opened sides have the same one; that a text on its way was encoded with its sender's;
and that a System frame on its way is a request with all the codecs of its sender, as long as the sender
has not been opened, and afterwards an answer that leaves the receiver exactly the codec the sender took. The
hard step is a side that takes a System frame (`AdoptAgrees`): its own request may still be on its
way, and must then mean to the peer what the peer's request meant to it.

`SynchronousPairProofs`, for any number of calls and all safe policies: `TypeCorrect`, `NoReentryAlways`,
`HandledOnceAlways`, `SettledAlways`, `StepsRunOutAlways`, `CallsAreShort`. The invariant `DInv` says that the stack is at most two calls deep
and names the shapes it can have: nothing (`Quiet`), one call before, in the middle of or after its
frame (`Outer`), or that call with the peer's on top, which handles its answer or what its callback has sent
(`Inner`), with the states of both contexts and what is in both buffers. `HandledOnce` then counts
the frames that are held. `StepsRunOut` says that a variant, the steps that the running calls have
left (`Ahead`), falls with every step of `ParseProcess`, and `CallsAreShort` that it is never above twelve. Together they are
`CallsReturn` without fairness: a call returns after at most twelve steps, if the code that is
running goes on. The shapes are what makes it true: the inner call neither answers nor sends, since the
frame it handles is an answer, or one that its listener takes in silence.

`KeepAliveManagerProofs`, for any set of periods, any lag and any calls:

* `TypeCorrect`.
* `TimeoutNeedsLateLoop`: `Spec => []TimesOutOnlyLate`. `KInv` has the four states of the timers on a loop
  that has not been late; in each in which the expiry is due, what is left of the timeout and the lag so
  far come to at least two periods (`Behind`).
* `PingsKeepDistance`: `Spec => PingSpacing`, from an invariant (`Spaced`) that ties `sincePing`
  to what is left of the expiry and to whether its handler is queued. The distance is the period in force; only
  when the application sets the timers while the handler is queued, which nothing recalls, may it be another one of the periods.

`SessionProofs`, for any `Room` and `MaxNet`: `TypeCorrect`; `NothingIsOutstanding`, from `Stages`: what each
stage of a session's life can have outstanding; and `TimeoutIsTold`, from `Order`: no end of the data is on
its way from a side that has not ended it, and while one side has shut down and the other has not, the
other is Closed or has a Close to receive before the end (`Told`).

`FrameHeaderProofs`, for any radix above 2 and any field of more than 2 bytes:

* `HeaderRoundTrip`: `Length()` of the header that `Length(len)` wrote is `len`, for every `len` below the
  size of the field. It rests on `ValueBigEndian`: the digits that `BigEndian` writes have the value
  they were made from, since reading the first `i` of `w` digits gives `k \div Power[w - i]`.
* `ReadableHeader`: memory that begins with the header `SendFrame` wrote, cut to `HeaderLength()`, says
  the length, whatever bytes follow, as long as the frame is `Sendable`: its length takes one of the first two forms.

`Power` and `Value` are defined by recursion. The provers know of such a function only that it was chosen to satisfy its
equation, so `Recursion` first shows that there is one, by an induction over a *set* of numbers
(`NatSet`, from the well-foundedness of `<` and `WFMin` of the library).

`FrameParserProofs`, for any set of frames, any number of them, any size of the buffer, both ways of taking
bytes and every cut of the stream, under the hypothesis `Medium` that no frame is longer than `Max16`
(65535 in the code). Longer ones are what finding 3 is about: they are lost, and `HeaderLength() + Length()` may then wrap around,
so without `Medium` all of the following would be false.

* `TypeCorrect`, `BytesConservedAlways`, `FramesIntactAlways`: `TypeOK` and `BytesConserved` of `parser_stream`, and
  `FramesIntact`, which `parser_large` violates with a frame one byte too long.
* `ImplementsChannel`: `Spec => Channel!Spec`, the safety half of the refinement.
* `ParseLoopEnds`: a frame that `ParseOne` takes out always leaves less data than there was.

The invariant is `Inv == TypeOK /\ InOrder /\ BytesConserved`. None of its parts is inductive alone: what
`ParseOne` hands to `OnFrame` is a frame, and `Consume` stays within the data, only because the data begin with the encoding
of the first frame on its way, and that this frame is the next one sent is `InOrder`. `Parsed` is the step that
matters: once two bytes are there the first says which header follows, once the header is there
`Length` reads no stale byte, and then the tests of `ParseOne` pass exactly when the whole frame is in the
buffer. The lemmas `FlattenAppend` and `FlattenFirst` say what a frame sent and a frame handled do to the flattened
frames on their way; `WrittenData` and `ResizeData` what the buffer makes of its memory.

Every invariant was checked with TLC on the runs' constants before it was proved.

Only model-checked: the liveness properties (of `CallsReturn` the bound is proved), and the fairness half of both
refinements. Fairness and `ENABLED`
are out of the prover's reach. `BinaryIntact`, `OneCloseFrame` and the other properties of the runs that expect a
violation do not hold.

## 5. Findings

Each has a run whose counterexample shows it.

1. **A handshake reopens a closing context** (`WSocketContext.hpp` 298). A System frame that crosses
   a Close sets the closing context back to Connected and calls `OnConnected` after the application's
   `Close`; the peer's acknowledgement is then taken for a new close and acknowledged in turn.
   `src/ReadMe.md` 127-129 has one Close and one acknowledgement. Both sides do end closed.
2. **Binary is sent raw and decompressed** (`WSocketContext.hpp` 222, 400). After a codec is agreed on, every
   binary message arrives as `DecompressError` or altered.
3. **Header sizes exchanged** (`Frame.hpp` 107-109). A payload above 65535 bytes goes out with two of its
   eight length bytes. Medium frames carry six bytes of padding, on which both sides agree.
4. **The receive buffer does not grow** (`ASIO_WSocket.hpp` 198). A frame longer than 8 KiB is never
   complete, and the socket is read with no room for ever.
5. **Nobody closes the connection** (`ASIO_WSocket.hpp` 112). `src/ReadMe.md` 131 ends the closing
   handshake with both sides closing the connection ("双方关闭底层连接"). After both contexts are Closed the
   receive loops and the pings go on, and only the end of a session closes its socket.
6. **A dead peer is never found out** (`ASIO_WSocket.hpp` 175). Each ping sets the timeout back, answered or
   not; `TimeoutNeedsLateLoop` is the general form.

Seen while modelling and in the models, without a run of their own:

* A late timeout on a Closed context calls `Close`, which asserts (`ASIO_WSocket.hpp` 184, action
  `OnKeepAliveTimeout_Asserts`). So does the `Handshake` of a connect that completes after the application
  has called `Close` (line 107, action `OnSocketConnected_Asserts`).
* A timer handler that was queued before its session was destroyed runs on a freed manager
  (`ASIO_KeepAliveManager.hpp` 77, action `StaleHandler`): `cancel` does not recall a queued handler.
  For the same reason a timeout queued behind an expiry runs right after the `Flush` that put it off.
* After the close, what arrives stays in the receive buffer; when that is full each receive has length zero and
  completes at once, the loop spins, and the end of the connection is never seen. This is the exception in
  `Reclaimed`.
* A side that cannot create the codec, or whose listener refuses it, after it has asked for it or while both ask,
  has no frame left to say so: texts then arrive unreadable (`lost`, the exception in `TextIntact`).
* **Violations of the protocol are not answered.** `src/ReadMe.md` 153 ("遇到以下情况应发送关闭帧(1002)并终止连接") asks for
  Close(1002) and the end of the connection on
  * a frame with an unknown opcode (155, "接收到未知操作码的帧"). The switch of `OnFrame`
    (`WSocketContext.hpp` 262-281) has no default: `ParseOne` consumes the frame and the connection goes on
    (`OnOtherFrame`);
  * a control frame with FIN=0 (157, "控制帧分片(FIN=0)"). Nothing on the receiving side reads the bit of a control frame, and
    `Pong()` (236-244) itself never calls `Finished(true)`, so that each Pong of this
    library is such a frame (`PongFrame`);
  * a control frame that is too long (159) or whose length is wrong (161). Neither is tested for.

  The only Close(1002) in the code is that of the keep-alive timeout (`ASIO_WSocket.hpp` 184).
* A Close of fewer than two bytes is not acknowledged (`WSocketContext.hpp` 311-313), against `src/ReadMe.md` 129.
* On a synchronous link a listener outside the safe policies has frames handled twice and bytes consumed that
  were not handled.

## 6. Not modelled

* `Error.h`: names. `ZstdContext`'s compression level, checksum and thread settings, and its buffers: they
  touch no protocol state.
* `SlidingBuffer::Consume(start, len)`: only a test calls it. `SendFrames`: nothing calls it.
* Close codes and reasons, which are passed through; the finish flag; the text of messages.
* Joining and splitting codec names with `;`: there is one codec, so no name is ever joined to another.
* The reactions to a violation of the protocol that `src/ReadMe.md` 153-161 describes: the code has none (section 5).
* A `send` that writes a part of a frame. Nothing sends the rest, so the stream has no frame boundaries from
  then on; there is no behaviour to state a property about. A send that fails is in `Session`.
* A connection that is reset and loses data already sent. Sockets in `Session` deliver what was
  sent before their end.
* An `io_context` run by several threads: accepted sockets have no strand, and nothing in the code is
  meant for it. Builds with `NDEBUG`, in which the asserts do nothing.

## 7. What could come next

1. Texts in `Session`, to state what an application can still send and receive around a timeout.
2. Policies in `SynchronousPair` in which a callback closes, and what exactly goes wrong outside the
   safe ones.
