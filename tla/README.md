# A TLA+ verification of sockfetch

sockfetch gives a guest program sockets that are really `fetch`. This directory
models the parts of it that are hard to test - two threads sharing a window of
memory, a response pulled while other calls run, hosts waiting on callbacks,
messages cut at any byte, handlers that call back - checks them with TLC, and
proves with TLAPS, for every bound, the safety of the channel, of the two
threads on it, of both halves of a net, of the two parsers, of the table of
names and of the socket class.

Source paths below are relative to `src/src/` of the repository.

## The system

| Component | State | Operations | Talks to |
|---|---|---|---|
| `channel.mjs` | four control words and a data window in shared memory | `write` `chunk` `end`; `read` `readAll` `cancel` `cancelAndDrain` | both threads, by `Atomics.wait`/`notify` |
| `backend-atomics.mjs` | two channels, `dead`, a `done` flag per response | `fetch`, `read`, `cancel`, `close` | core above, fetcher below |
| `fetcher.worker.mjs` | the request it serves | `serve`, `handle`, `refuse`, `cancel` | both channels, `exchange` |
| `exchange.mjs` | one deadline, the buffered prefix | `beginExchange`, `arm`, `disarm` | the platform's `fetch` |
| `backend-direct.mjs` | a queue, `done`, `stopped` per response | `fetchDirect`, `ready`, `pull`, `read`, `cancel` | core above, `exchange` below |
| `core.mjs` | a connection table; per connection a parser, queue of requests, outbox, response, hup, error | `connect` `send` `recv` `readyAsync` `poll` `close` | a backend, policy, codec, serve |
| `serve.mjs` | listeners, inbound connections, taken addresses, watchers | `listen` `accept` `deliver` `send` `recv` `close` `onPort` | core (shared handles), the host's `onResponse` |
| `codec.mjs` | two push parsers | `push` `take` `finish`, serializers | core, serve |
| `policy.mjs` | a name table | `resolve` `nameOf` `urlFor` `headersFor` | core |
| `websocket.mjs` | one adapter over a net | `send` `close`, events | core |
| `wasi.mjs`, `index.mjs` | none | renaming | core |

A guest that cannot suspend reads through the *blocking door*: its thread
writes a request on one channel, parks on the other, and the fetcher's thread
does the awaiting. A guest that can suspend uses the *awaited door*: core calls
`readyAsync` before a read. The inbound half turns round: the host delivers a
request, a guest accepts and answers it, and the host hears through a callback
run inside the guest's own calls.

What makes each correct, and where it is hard:

- **channel**: a frame is never torn or lost, a cancel leaves nothing behind,
  neither thread sleeps through its wake-up. There is no lock but the `FULL`
  word, and `CANCEL` can be stored between any two operations of the writer.
- **the blocking door**: every request gets exactly one head and one body end,
  or every later exchange reads a frame too early. Four outcomes, a cancel at
  any moment, a thread that may die, a deadline on each await.
- **core**: one exchange per connection, bytes exact at any read size, an end
  of file only at the end, though a response may be mid-await.
- **serve**: each host is told once and none is forgotten, whichever of four
  paths settles it; addresses and queues stay consistent through closes.
- **codec**: a message ends where it ends, however it is cut.
- **policy**: an address stands for one name, or, if the embedder's resolver
  shares it, for the name it was answered for last.

`PROJECT.json` lists the hazards line by line with the properties that cover
each, and says which are not covered yet.

## The modules

### Channel, FrameChannel, ChannelInvariant, ChannelProofs

`Channel` is `channel.mjs` with one action per Atomics operation. `full`, `len`,
`last`, `cancel` and `data` are the shared words and window; `wpc` and `rpc` say
which operation each thread executes next, `put` holds the arguments of `put()`
and `rlen`, `rlast`, `rbytes` are `read()`'s locals. The threads run the
protocol of `handle()` and `fetch()` over it: a head, then a body of chunks
with a terminator, which the reader may cancel. `late` is a history variable.
Atomics operations are sequentially consistent, and `data` is plain memory that
`WindowExclusion` shows to be used by one thread at a time, so modelling its
reads and writes as steps is sound. `Atomics.wait` compares and parks in one
step, and `SpuriousWakes` lets it return for no reason.

`FrameChannel` is the abstract channel: a slot, and frames that go in and out
in one step. `Frames == INSTANCE FrameChannel WITH slot <- Slot, ...` maps the
words to it (the slot holds a frame exactly while `full = 1`).

### AtomicsDoor, BlockingDoor, AtomicsDoorInvariant, AtomicsDoorProofs

`backend-atomics.mjs`, `fetcher.worker.mjs`, `exchange.mjs` and what
`core.mjs`'s `deliver()` does with a head, over two slots - the channel of
`FrameChannel`, with a message of one `write()` as one frame. `gpc` is the call
the guest's thread is in, `fpc` where `handle()` is. The origin produces chunks,
ends, fails or says nothing; `alarm` is the deadline's timer. A chunk that
finds `cancel` clear and then the slot full checks again when it wakes
(`ChunkRechecked`), so the one frame that passes a cancel is there too.

`read()` gives the bytes of any frame that has some, a last one included
(`TakeChunk`). Such a frame is not always the response's own. With A open, all
its chunks read and its terminator on the channel, `fetch(B)` takes that
terminator for its head and is reset; B's head then goes into the slot, and a
read of A gives it as more of A's body. A is `spent` from there: its `done` is
set, so the next read is null (`ReadSpent`) and a close drains nothing
(`CloseSpent`). With one response open at a time this cannot happen.

`BlockingDoor` is what `core.mjs` relies on when it calls a backend that blocks,
with no second thread in sight: each request is answered once, by a head of its
own, a refusal or a redirect, or is reset; a head that is kept is read chunk by
chunk to an end that agrees with the length told, or let go. A guest that keeps
several responses open (`Shared`) is promised less: one of them may give, after
its whole body and as the last thing it gives, the answer of a later request
that was reset (`Stray`). The contract says nothing of whether a call returns.
`Door == INSTANCE BlockingDoor WITH gone <- dead, Shared <- OpenLimit > 1` keeps
the guest's variables and forgets the fetcher's: a call takes effect in the step
that takes its frame.

### Connection, AnswerStream, ConnectionInvariant, ConnectionBytes and their Proofs

The outbound half of `core.mjs` over both doors. JavaScript runs a turn at a
time, so a call is one step; `readyAsync` is a start (`ReadyFetch`,
`ReadyPull`) and a later settlement (`FetchSettles`, `PullChunk`, `PullEnd`)
with other calls in between. `conn[c]` is the connection's record with the
source's field names; `queue`, `done` and `stopped` are the closure variables
of `fetchDirect`. A piece of an answer is two bytes, so a read can stop inside
one. The blocking door is a call that returns: how it can fail to is
`AtomicsDoor`'s subject.

`clock[r]` is the deadline of an awaited exchange: `TimerFires` may come at any
moment it is set, and records whether anybody was awaiting the origin then. A
guest makes no call but `close()` on a handle its own `readyAsync` awaits, which
is how the one caller, `recvAsync` of `wasi.mjs`, uses it; a connection closed
then leaves a record that the awaiting call still writes to, and a response
nobody holds (`orphans`).

`AnswerStream` is what a guest relies on, with no queue, door or deadline in
sight: a connection is one stream, the answer to the first request written on
it. Reads give that answer from its first byte and never ahead of its origin;
the end of file comes when all of it is given and the origin has no more;
nothing is written, asked or given after it. `Stream == INSTANCE AnswerStream`
keeps what the guest sees (`table`, `got`, `eof`) with the history of its
requests and of the origin, and forgets the records, the responses and the
clock. A read on the blocking door is several things at once - the request goes
out, the origin goes on, bytes are given - so it is one `Read` of the stream.

### Ports, Inbound, PortsInvariant, PortsProofs

The inbound half, `serve.mjs`. The maps are functions of a handle, `kind` says
which map a handle is in, and `fds` is what the guest holds (what `listen` and
`accept` returned and `close` has not taken back). A callback that throws
leaves `close()` where it stands: `CloseConn(h, TRUE)` and
`CloseListenerThrown`. `stranded` and `wanted` are history variables: the
connections such a throw left behind, and the address each request asked for.

`Inbound` is what a host and a guest may rely on, told of requests and addresses
alone. A request is new, waiting, held by the guest, or over. It goes to the
server at the address it asks for, or to the longest serving of those that will
do; each server's requests are accepted in the order they came; a host is
answered at most once, by the guest that holds its request or by the end of the
server that took it; an address is free once its server has stopped, and the
guest keeps what it held. Only `StopThrown`, an exception out of an answer,
leaves requests to wait for nobody. `Contract == INSTANCE Inbound` reads these
variables off the handles: `Stage` off what the guest holds, `Clients` off the
owners of connections, and `taken` is when each server began, as handles are
given out in order.

### Wire, WireInvariant, WireProofs

`codec.mjs` between what a guest writes and what it means. The wire is a
sequence of tokens: CR, LF, a byte of a body, or the text of one line, so a
write can stop inside a CRLF and a body can hold what looks like the end of a
head. `buf`, `head`, `needed`, `mode` and `body` are the fields of the parsers;
each pass of a loop of `take()` is a step, and `pc` says whether the guest's
call has returned. On the `client` side it is the request parser under `send()`
of `core.mjs`, with the table of names of `policy.mjs` (`ResolveGiven`,
`ResolveAlias`, `NameOf`) and the host `plan()` then picks; on the `server` side
the response parser under `send()` and `close()` of `serve.mjs`, where
`finish()` decides what a response cut short is. The embedder's resolver may
answer any name with any address of `Given`: one it has given another name,
one that an alias has too, or one a guest writes as such. `names` then has the
name resolved last, as in the code, and a request without a `Host` header on a
connection made for an earlier one goes to that name. `StandsFor` says which
hosts an address may so stand for, and `RightOrigin` that a request goes to no
other.

A guest writes two messages, one after the other. `First` and `Second` say
which: requests with and without a host, a target and a length, with a folded
header, and five that are to be refused; responses by length, in chunks (with
and without a length beside them), to the close, without a body by their
status, and four that make no sense. What they carry is a constant, `Bodies`:
any sequences of body bytes, CRs and LFs, a body that looks like the end of a
head among them.

### Socket, SocketInvariant, SocketProofs

`websocket.mjs`: one socket of the class. A handler runs inside the class's own
loops and may call the socket back, so the state is a stack of frames: a drain
about to call `recv()`, a `_fail()` with its close still to come, a handler. The
net is what `recv()` and `send()` show of it. `_fail()` and `_hangup()` leave
the net's handle, `close()` drops it, as in the code.

## What the runs check

| Run | Bounds | States | Shows |
|---|---|---|---|
| `channel` | 3 exchanges, 3 chunks, spurious wakes | 10816 | the properties of `Channel`, and that it implements `FrameChannel` |
| `door` | 2 requests, 3 chunks, threshold 1, GET and POST, mortal fetcher | 72559 | a guest with one response open: heads found, no answer to another request, lengths true, channels clean, threads never stuck, calls return |
| `door_any` | 3 requests, 3 chunks, threshold 1, GET and HEAD, fetches with a response open, mortal fetcher | 677182 | any use: the body served last is whole, deadline on every wait for the origin's bytes, and the door implements `BlockingDoor` |
| `door_head` | with HEAD | violation | `HeadParses` fails |
| `door_two` | two responses open | violation | `NeverBothParked` fails |
| `door_dead` | backend closed or dead | violation | `NeverParkedOnDead` fails |
| `ports` | 4 handles, 2 requests, 2 addresses | 880628 | all properties of `Ports`, callbacks that throw set aside, and that it implements `Inbound`, those callbacks included |
| `ports_thrown` | 3 handles, 2 requests | violation | `ListenerSettlesAll` fails |
| `connection` | 2 connections, 2 requests, 2 chunks, both doors | 263859 | the properties of `Connection` but `OnlySilenceCuts` and `HangupFinal` (which is proved), and that it implements `AnswerStream`, with closes during waits and a deadline that may fire at any time |
| `connection_slow` | 1 connection, 1 request | violation | `OnlySilenceCuts` fails |
| `wire` | 3 names, 2 values to an alias part, 1 address of the resolver's for all names, 4 bodies, 2 messages | 666019 | all properties of `Wire` |
| `socket` | 3 pieces, 10 frames, 9 events | 46860 | all properties of `Socket` |

Why the bounds are enough. *channel*: what an exchange can leave for another is
a frame, a flag or a thread in a wrong place, which the second exchange would
meet; the third comes after both ways an exchange can end. Three chunks give a
first, a middle and a last one. *door*: one request leaves things behind and
the next meets them; three chunks past a threshold of one give a body that
fits it, one whose last chunk crosses it and one that goes on streaming.
*connection*: two requests can be on one connection (one queued behind the
other) or on two. *ports*: four handles allow two listeners with one connection
each, one with three handed-out handles, and an address closed and listened on
again. *wire*: every cut of a message followed by another, over messages of
every framing, legal and not; with 2 values to a part, three names use up the
aliases and carry into the second part; one address the resolver answers is
enough for two names to share it, and for one written as such to be overwritten
(sharing with an alias is in the theorem, which is for any `Given`). *socket*:
three pieces keep a drain looping while handlers call in, and ten frames hold
three drains with a handler each and a failure on top.

The violation runs are disagreements between the code and what its comments or
the repository's README say; `PROJECT.json` quotes both sides:

1. a HEAD over the blocking door leaves its body's terminator in the channel:
   the next request is reset, its own answer stays on the channel, and the
   request after that one parks both threads for ever;
2. two connections whose bodies are both wanted can park both threads for ever;
3. a connection read after the fetcher is known dead parks for ever - the
   check is in `fetch` only;
4. one throwing `onResponse` leaves a closing listener's other hosts unanswered;
5. a guest that pauses between two reads has its body cut by the deadline,
   which runs on though nobody is waiting, and is told the body is whole.

The passing runs of the door keep to what those exclude (in `door` no HEAD and
one open response), so that their properties say what holds everywhere else.
`AnswerIsMine` and `LengthHonest` belong there too: with two responses open
neither is true, for the reason given under `TakeChunk` above. `door_any` says
what holds in spite of the first three: a session may stop, a connection may be
reset, and with several responses open one may be given the answer of a request
that was reset, behind its own body, but nothing else of another's.
`NothingDropped` speaks of the exchange the fetcher served last, while the
fetcher waits for the next, and of no earlier one.

Deadlock is checked in `channel` only: in the others a guest may stop for good,
parked in the door runs, with its handles, requests, messages or events used up
in the rest.

### Fairness

- `Channel`: each thread's own steps are weakly fair (a thread that is not
  parked runs). A guest's decision to make a call (`Ask`, `Read`,
  `StoreCancel`) and a spurious wake have none.
- `AtomicsDoor`: the same for both threads, and for the deadline: while the
  timer is set, what the fetcher awaits is eventually rejected. The origin has
  no fairness at all, so `CallsReturn` rests on the deadline alone, which is
  why a timeout of 0 is outside it. A thread that dies ends the claim. One await
  is under no deadline, in the code and here: the `cancel()` of a body that is
  let go of, which a redirect does after its disarm (`Discarded`) and a refused
  chunk does (`Abandon`). That such a `cancel()` settles is assumed of the
  platform's streams: it asks nothing of the origin.
- `Connection`: a timer that is set fires, an exchange it aborted settles, and a
  guest goes on reading (a redirect's exchange settles as above). The origin
  owes nothing. The last is an assumption on
  the guest: `AnswerEnds` says that reading on is enough. `OrphansEnd` needs the
  first two only.
- `Ports`: the server goes on accepting and closes what it accepted. It need
  not answer, and a listener need not be closed.
- `Wire` and `Socket` state no liveness.

## What is proved

Each proof rests on one assumption, the types of its module's constants
(`ChannelAssumption`, `AtomicsDoorAssumption`, `PortsAssumption`,
`ConnectionAssumption`, `WireAssumption`, `SocketAssumption`), and holds for every value they allow. None of the
properties is inductive alone, so each module has an `...Invariant` that states
the strengthening `IInv` in named parts, and its `...Proofs` shows that `Init`
implies it, that every action preserves it, one step per action, and that the
properties follow.

**The channel** (`ChannelProofs`), for every number of exchanges and chunks,
with or without spurious wakes: `TypeCorrect`, `WindowSafe`, `MessagesIntact`,
`LeftClean`, `HeadsPass`, `CancelIsPrompt`, `NoMutualWait`, one for each safety
property of `Channel`, and `RefinesFrames`: `Spec => FramesSpec`, the channel
implements the slot. Whether the reader may touch the window depends on what
the writer has stored, what the frame in it is depends on where both threads
stand, and whether a parked thread will be woken depends on the other's next
step:

- `HandoverInv`: who holds the window (`FULL` and the two program counters),
  what the writer has already stored of its frame and the reader loaded, and
  that a parked thread is owed a notify;
- `ThreadsInv`: the arguments of `put()` fit the message, and each counter fits
  the phase;
- `ReplyInv`: with the slot empty the writer is exactly as far as the reader,
  with a frame in it one further; `CANCEL` is set exactly during a drain.

`RefinesStep` shows that `SetFull` is the put of the slot, `ClearFull` the take,
`StoreCancel` and `Uncancel` the two ends of a drain, and every other operation
a stutter, or a decision of one thread. `AtomicsDoor` relies on it when it uses
a slot for a channel. That a cancel is prompt (`CancelStops`) is part of
`FrameChannel`, so the run checks it there.

**The blocking door** (`AtomicsDoorProofs`), for every number of requests and
chunks and every threshold. First for any use, however many responses the guest
leaves open, HEAD and a dying fetcher included: `TypeCorrect`, `NoneDropped`,
`DeadlinesCover`, and of what a guest is given `AnswersAreKept` and
`LengthsAreKept`: its own head, its own chunks from the first in order and as
many as it was told, then at most one answer that is a later request's, which
was reset. With one response open (`OpenLimit = 1`) there is no such answer
(`Alone`), and with that come `AnswersMine` and `LengthsHonest`. The two threads
may lose step here, so the invariant cannot say that they agree; it says whose
frame is in the slot all the same:

- `Guest` and `Asking`: what each call is for, and that requests are taken
  once and in order, so the fetcher is at the guest's request or before it;
- `Slot` and `Awaited`: a head or a chunk in the slot is of the exchange the
  fetcher is in, and a guest that awaits a head is not met by a chunk of the
  body before; what it may be met by is that body's end, which resets it;
- `Opened`: a response that is open is the one the fetcher serves, and the
  guest has all that was sent but the frame in the slot (`Serving`), or one it
  has left, whose next frame is never a chunk (`Left`);
- `Counters`, `Complete`, `Heads`: a length is announced of a whole body only,
  and a message that was neither cancelled nor cut ends with all of it sent;
- a head in the slot is of a request that is still asked, or was reset (the last
  part of `Slot`), so what a read gives beyond a response's own chunks is of a
  reset request; and with one response open (`Single`) there is no response left
  for such a read.

`RefinesDoor` says it as one contract: `Spec => DoorSpec`, again for any use,
with `Stray` allowed by the contract exactly when `OpenLimit > 1`.
Of the door's steps only those in which a call takes a
frame, is made, or finds the fetcher gone change what the guest has, and each
is one that `BlockingDoor` allows. It needs one fact more (`Replied`): a call
has its head in hand exactly while it reads the empty body behind it.

Then for a guest that has one response open at a time and makes no HEAD
(`OpenLimit = 1`, `"HEAD" \notin Methods`: the two habits that findings 1 and 2
are about), the threads stay in step (`KeepsStep`), and with that come
`HeadsParse`, `LeftClean` and `NeitherParked`. `InStep` adds to the invariant
that nothing is on either channel when a request is about to be made (`Quiet`),
that a guest awaiting a head never finds an end there, and that an open response
is the one being served. The run `door` has these hypotheses as its constants.

**The inbound half** (`PortsProofs`), for every number of handles and requests
and every set of addresses, callbacks that throw included: `TypeCorrect`,
`ToldAtMostOnce`, `TakenExact`, `QueuesExact`, `NoneOrphaned`, `NoneForgotten`,
one for each safety property of `Ports`. That a host is told once needs to know
that its request is on one handle (`Carried`) and that being told and being
marked answered go together (`Accounts`); that none is orphaned needs to know
which handles exist (`Allotted`, `Unused`), what the guest holds, and that a
connection it does not hold is owned by a listener it does (`Held`).

`RefinesInbound` says it as one contract: `Spec => InboundSpec`. One fact more
is needed, that requests and the handles that carry them are in one order
(`InOrder`): the contract's oldest request is then the head of the queue, and
the requests before the one whose callback throws are the connections the loop
of `close()` came by first. `Mapping` reads the contract's variables off the one
handle that carries each request, and there is one lemma for each call of
`serve.mjs`.

**The outbound half** (`ConnectionProofs`), for every number of connections,
requests and chunks: `OneExchangeEach`, `HangupsFinal`, `NoneLeftAdrift`
(`HangupFinal` is part of the invariant; what a guest sees of it is in
`AnswerStream`, which the run checks). One
exchange each needs to know that a connection that has asked is in its exchange
or past it, so that `idle()` never holds again, and that one that has not has
its first request at the head of its queue (`First`, in `Once`); that it waits
for one thing at a time (`Alone`) and for nothing written on another (`Own`).
`NoneAdrift` needs `Accounted`: what is known to be over was ended or cancelled,
and a flight whose connection is gone is an orphan.

`ConnectionBytesProofs` goes on from there, with a second invariant `BInv` over
`IInv`: `BytesAreExact`, `EndIsHonest` and `TypeCorrect`. That the bytes given
are the answer from its first one on (`Given`) needs to know where the next ones
are: the piece in hand goes on where the guest is, its offset into it included,
and the chunks of the queue go on where that piece ends (`Going`). At the end
of file nothing is in hand and the origin is over (`Ended`), and no response has
bytes before its exchange is asked (`Opened`).

`ConnectionStreamProofs` draws it together: `RefinesStream`, that is
`Spec => StreamSpec`. `BInv` before and after a step says what was given, so a
read is shown to be the stream's by the number of bytes alone. What remains to
be known (`SInv`) is that a connection which has given or holds a byte is in its
response or past its end (`Held`), and that no origin is over while a pull or
the blocking door still asks it (`Ending`, `Unended`).

**The parsers** (`WireProofs`), for every set of bodies, of any length, and
however the writes are cut: `RequestsRight` and `ResponsesRight`, the two
properties of the parsers, from `ParsersInvariance`. The invariant says where
the parser is on the wire: `Buffered`, that the buffer is what has been written
past a place in the stream and nothing else, and what that place is. For the
request parser (`CInv`) it is the beginning of the message after the last
request made, or the end of that message's head if the head is in hand, and
then `needed` is the length of its body (`HeadKnown`). For the response parser
(`SInv`) it is as far into the body as has been kept: `InSized` and `InClose`
are that the kept bytes are the first of the body, or all that followed the
head; `InChunks` that they are the chunks before the one being read and so much
of that one, with its size line, its bytes or its end of line next
(`SizeDue`, `InChunk`). `ClientWaits` and `ServerWaits` add that a call which
has returned left nothing that it could have taken, which is why nothing whole
is ever waited on.

The proof has two layers. The first says what each scan returns on a stretch of
the stream: the end of the head is the first blank line, whatever follows it
(`HeadEnds`: a head's lines are neither CR nor LF, so no blank line begins
inside one; that the *first* is taken is what keeps a body that looks like the
end of a head from being cut), its lines are those that were written
(`LinesOf`), and a size line or a blank line is found where it is due
(`FirstLine`, `FirstBlank`). The second has a lemma for each kind of message,
with what the parser makes of its head (`ClientMessages`, `ServerMessages`), and
one for each action. The forms of the heads are those `First` and `Second`
list, so heads are covered as far as that list goes, and bodies, chunks and
cuts in full.

**The names** (`WireProofs`), for every number of names, every size of the
alias range and every set of addresses the embedder's resolver may answer:
`AddressesStand`, that `nameOf()` of an address given out is the name it was
given for, for ever after, and `OriginsRight`, that a request goes to the host
it names or to the one meant by the address (`RightOrigin`). Both are without
exception for an address the resolver has never answered. For one it has, they
say what the table can: a name that the address was given for, the one meant if
it was given for no other, and possibly a later one if it was. That a request
asks for the host its sender wrote (`HostsParsed`) comes from `CInv`. The table
is right because every entry was given (`Entries`), because two names have one
address only if the resolver answered it (`Unshared`), and because aliases are
taken in order and no two numbers of the range have one alias (`AliasApart`,
where the two parts are the digits of the number in base 256).

**The socket class** (`SocketProofs`), for every depth and number of events:
`EventsInOrder` and `NothingLeftBehind`, the properties of `Socket`. Both are
about a guest at rest, so the invariant says what the frames still to run will
do: a `_fail()` under way has marked the socket and is on top of the stack
(`Failing`), what the guest has heard agrees with the mark once those frames
have run (`Heard`), with no call from a handler there is one drain (`Plain`),
and what there is to read has a drain still to ask for it (`Reading`). Of the
net it needs the ranges of its variables only (`NetRanges`).

Only model-checked: liveness (`DrainEnds`, `HeadArrives`, `CallsReturn`,
`FetcherReturns`, `EveryHostAnswered`, `AnswerEnds`, `OrphansEnd`), which the
prover does not reach. Every other property of a passing run is a theorem.

## Mutants

Operators marked *mutant* are the definition that follows them with a plausible
bug: a wait dropped, a flag not cleared, a callback without its mark. With the
mutant in place of the definition TLC finds the property `PROJECT.json` pairs
it with violated.

## Not modelled, and the plan

Done: A `Channel`, B `AtomicsDoor`, C `Connection` with the deadlines of the
awaited door, D `Ports`, E `Wire`, F `Socket`, the contracts `FrameChannel` (a
channel's), `BlockingDoor` (a backend's), `AnswerStream` (a connection's) and
`Inbound` (the inbound half's), and the proofs of all of them.
What is left, in this order:

1. **Ports with watchers**: `onPort()` and callbacks that call back into the
   net from inside `listen()`, `close()` and `send()`.
2. **Net**: core and serve over one handle space, and `recvAsync` on an
   inbound handle, which `readyAsync()` does not find.
3. **Connection without a deadline**: a timeout of 0, and overlapping calls on
   a handle that is awaited, which `wasi.mjs` never makes but the interface
   allows.

Details left out of a modelled part: a `Content-Length` that is not whole, an
origin's chunk of no bytes (a hazard of `PROJECT.json`), `on()` and
`removeEventListener()` (named there under `websocket`).

Left out for good: `wasi.mjs` and `index.mjs` (no state), the serializers of
`codec.mjs` and the header filter of `policy.mjs` (formatting), `started()` (a
one-time handshake), real time (a timer may fire whenever it is set), and the
bytes themselves, which are tags throughout.
