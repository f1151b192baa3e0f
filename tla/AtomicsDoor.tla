---------------------------- MODULE AtomicsDoor ----------------------------
(***************************************************************************)
(* The blocking door of sockfetch: a guest's thread that may only park,    *)
(* and a fetcher's thread that may await, joined by two channels.          *)
(*                                                                         *)
(*   backend-atomics.mjs  fetch(), read(), cancel(), close(), `dead'       *)
(*   fetcher.worker.mjs   serve(), handle(), refuse()                      *)
(*   exchange.mjs         beginExchange(): the four outcomes, the buffered *)
(*                        prefix, the deadline                             *)
(*   core.mjs             deliver(): what the guest's side does with a     *)
(*                        head, and that it drops the one of a HEAD        *)
(*                                                                         *)
(* A channel is a slot of one frame handed over in a single step, which    *)
(* ChannelProofs shows channel.mjs to implement.  A message of one write() *)
(* is one frame; a body is a frame per chunk and a terminator.             *)
(***************************************************************************)
EXTENDS Naturals, Sequences, FiniteSets

CONSTANTS
  Requests,   \* bound: fetches the guest makes
  MaxChunks,  \* bound: chunks of a response body
  Threshold,  \* chunks of a body buffered before its length is given up
  Methods,    \* the methods the guest uses
  OpenLimit,  \* connections the guest lets wait with a body unread
  Mortal      \* whether the fetcher's thread may end, or be closed

ASSUME AtomicsDoorAssumption ==
  /\ Requests \in Nat /\ MaxChunks \in Nat /\ Threshold \in Nat
  /\ Methods \subseteq {"GET", "HEAD", "POST"}
  /\ OpenLimit \in Nat \ {0}
  /\ Mortal \in BOOLEAN

Ids == 1..Requests
Unknown == MaxChunks + 1      \* contentLength: null

(* The frames of the response channel: n is the length a head announces,   *)
(* or the position of a chunk in its body.                                 *)
Frame == [x : Ids, kind : {"head", "error", "redirect", "chunk", "end"},
          n : 0..Unknown]
F(x, kind, n) == [x |-> x, kind |-> kind, n |-> n]

(* A channel: a slot for one of S.  A frame of the request channel. *)
AtMostOne(S) == {<<>>} \cup {<<s>> : s \in S}
Asked == [x : Ids, kind : {"request", "body"}]

(* Every frame but a chunk ends its message. *)
Last(f) == f.kind # "chunk"
IsHead(f) == f.kind \in {"head", "error", "redirect"}

VARIABLES
  up,      \* the request channel: <<>> or one frame [x, kind]
  down,    \* the response channel: <<>> or one Frame
  cancel,  \* CANCEL of the response channel
  dead,    \* backend-atomics' `dead': the guest's side knows
  gpc,     \* the guest's thread: run, or the channel operation it is in
  cur,     \* the request that operation is for
  joined,  \* readAll has taken a frame that did not end the message
  asked,   \* fetches made
  method,  \* of each request
  resp,    \* of each request: what became of its response object; "spent"
           \* is an open one that read() has seen the last frame of
  head,    \* of each request: the head frame fetch() parsed, or <<>>
  got,     \* of each request: the frames read() returned
  fpc,     \* the fetcher's thread
  fx,      \* the request it serves
  made,    \* chunks its origin has produced
  sent,    \* chunks of them past out.chunk()
  complete,\* the body was over before the head went out
  alarm,   \* whether the deadline's timer is set
  cut      \* history: the requests whose origin failed inside the body

wires == <<up, down, cancel>>
guest == <<dead, gpc, cur, joined, asked, method, resp, head, got>>
fetcher == <<fpc, fx, made, sent, complete, alarm, cut>>
vars == <<wires, guest, fetcher>>

Init ==
  /\ up = <<>> /\ down = <<>> /\ cancel = FALSE
  /\ dead = FALSE /\ gpc = "run" /\ cur = 0 /\ joined = FALSE /\ asked = 0
  /\ method = [x \in Ids |-> "none"]
  /\ resp = [x \in Ids |-> "none"]
  /\ head = [x \in Ids |-> <<>>] /\ got = [x \in Ids |-> <<>>]
  /\ fpc = "request" /\ fx = 0 /\ made = 0 /\ sent = 0
  /\ complete = FALSE /\ alarm = FALSE /\ cut = {}

Open == {x \in Ids : resp[x] = "open"}

-----------------------------------------------------------------------------
(* The guest's thread: core.mjs over backend-atomics.mjs. *)

(* pump(): the next connection's request goes out through fetch(). *)
Fetch(m) ==
  /\ gpc = "run" /\ ~dead /\ asked < Requests
  /\ Cardinality(Open) < OpenLimit
  /\ asked' = asked + 1 /\ cur' = asked + 1
  /\ method' = [method EXCEPT ![asked + 1] = m]
  /\ resp' = [resp EXCEPT ![asked + 1] = "asking"]
  /\ gpc' = "request" /\ joined' = FALSE
  /\ UNCHANGED <<dead, head, got>> /\ UNCHANGED wires /\ UNCHANGED fetcher

(* fetch() on a fetcher known to be gone: answered, not attempted. *)
FetchDead(m) ==
  /\ gpc = "run" /\ dead /\ asked < Requests
  /\ asked' = asked + 1
  /\ method' = [method EXCEPT ![asked + 1] = m]
  /\ resp' = [resp EXCEPT ![asked + 1] = "failed"]
  /\ UNCHANGED <<dead, gpc, cur, joined, head, got>>
  /\ UNCHANGED wires /\ UNCHANGED fetcher

(* out.write(request), then out.write(body): each parks while the fetcher  *)
(* has not taken the one before.                                           *)
WriteRequestAlone ==  \* mutant: a GET has no body message
  /\ gpc = "request" /\ up = <<>>
  /\ up' = <<[x |-> cur, kind |-> "request"]>>
  /\ gpc' = IF method[cur] = "GET" THEN "head" ELSE "body"
  /\ UNCHANGED <<down, cancel, dead, cur, joined, asked, method>>
  /\ UNCHANGED <<resp, head, got>> /\ UNCHANGED fetcher

WriteRequest ==
  /\ gpc = "request" /\ up = <<>>
  /\ up' = <<[x |-> cur, kind |-> "request"]>> /\ gpc' = "body"
  /\ UNCHANGED <<down, cancel, dead, cur, joined, asked, method>>
  /\ UNCHANGED <<resp, head, got>> /\ UNCHANGED fetcher

WriteBody ==
  /\ gpc = "body" /\ up = <<>>
  /\ up' = <<[x |-> cur, kind |-> "body"]>> /\ gpc' = "head"
  /\ UNCHANGED <<down, cancel, dead, cur, joined, asked, method>>
  /\ UNCHANGED <<resp, head, got>> /\ UNCHANGED fetcher

(* JSON.parse(readAll()): anything but a lone head frame throws, and       *)
(* pump() turns that into ECONNRESET on the connection.                    *)
Parses(f) == ~joined /\ IsHead(f)

DeliveredRedirect(f) ==  \* mutant: only an error's empty body is read
  IF f.kind = "error" THEN "asking"
  ELSE IF method[cur] = "HEAD" THEN "dropped" ELSE "open"

(* deliver(): an error or a redirect has its empty body read at once; the  *)
(* response to a HEAD is dropped; any other is left open.                  *)
Delivered(f) == IF f.kind # "head" THEN "asking"
                ELSE IF method[cur] = "HEAD" THEN "dropped" ELSE "open"

ReadHead ==
  /\ gpc = "head" /\ down # <<>>
  /\ down' = <<>>
  /\ LET f == down[1] IN
       CASE ~Last(f) ->
              joined' = TRUE /\ UNCHANGED <<gpc, resp, head>>
         [] Last(f) /\ ~Parses(f) ->
              /\ gpc' = "run" /\ joined' = FALSE
              /\ resp' = [resp EXCEPT ![cur] = "garbled"]
              /\ UNCHANGED head
         [] Last(f) /\ Parses(f) ->
              /\ gpc' = IF f.kind = "head" THEN "run" ELSE "empty"
              /\ head' = [head EXCEPT ![cur] = <<f>>]
              /\ resp' = [resp EXCEPT ![cur] = Delivered(f)]
              /\ UNCHANGED joined
  /\ UNCHANGED <<up, cancel, dead, cur, asked, method, got>>
  /\ UNCHANGED fetcher

(* back.readAll(): the empty body of an error or a redirect. *)
ReadEmpty ==
  /\ gpc = "empty" /\ down # <<>>
  /\ down' = <<>>
  /\ IF Last(down[1])
       THEN gpc' = "run" /\ resp' = [resp EXCEPT ![cur] = "failed"]
       ELSE UNCHANGED <<gpc, resp>>
  /\ UNCHANGED <<up, cancel, dead, cur, joined, asked, method, head, got>>
  /\ UNCHANGED fetcher

(* recv() on a connection with a response: read() parks for one frame. *)
Read(x) ==
  /\ gpc = "run" /\ resp[x] = "open"
  /\ gpc' = "read" /\ cur' = x
  /\ UNCHANGED <<dead, joined, asked, method, resp, head, got>>
  /\ UNCHANGED wires /\ UNCHANGED fetcher

(* A last frame sets `done', and its bytes are given all the same when it  *)
(* has any: a terminator has none, but the head of a later request, which  *)
(* is in the slot when that request's fetch() took this response's         *)
(* terminator for it, has.                                                 *)
TakeChunk ==
  /\ gpc = "read" /\ down # <<>>
  /\ down' = <<>> /\ gpc' = "run"
  /\ got' = IF down[1].kind = "end" THEN got
            ELSE [got EXCEPT ![cur] = Append(@, down[1])]
  /\ resp' = IF ~Last(down[1]) THEN resp
             ELSE [resp EXCEPT ![cur] = IF down[1].kind = "end" THEN "ended"
                                        ELSE "spent"]
  /\ UNCHANGED <<up, cancel, dead, cur, joined, asked, method, head>>
  /\ UNCHANGED fetcher

(* Once `done' is set read() gives null, *)
ReadSpent(x) ==
  /\ gpc = "run" /\ resp[x] = "spent"
  /\ resp' = [resp EXCEPT ![x] = "ended"]
  /\ UNCHANGED <<dead, gpc, cur, joined, asked, method, head, got>>
  /\ UNCHANGED wires /\ UNCHANGED fetcher

(* and cancel() returns with no flag raised and nothing drained. *)
CloseSpent(x) ==
  /\ gpc = "run" /\ resp[x] = "spent"
  /\ resp' = [resp EXCEPT ![x] = "closed"]
  /\ UNCHANGED <<dead, gpc, cur, joined, asked, method, head, got>>
  /\ UNCHANGED wires /\ UNCHANGED fetcher

(* close() on it: cancel() raises the flag and drains to the terminator. *)
Close(x) ==
  /\ gpc = "run" /\ resp[x] = "open"
  /\ gpc' = "drain" /\ cur' = x /\ cancel' = TRUE
  /\ UNCHANGED <<up, down, dead, joined, asked, method, resp, head, got>>
  /\ UNCHANGED fetcher

DrainOnce ==  \* mutant: one frame taken for the terminator
  /\ gpc = "drain" /\ down # <<>>
  /\ down' = <<>> /\ gpc' = "run" /\ cancel' = FALSE
  /\ resp' = [resp EXCEPT ![cur] = "closed"]
  /\ UNCHANGED <<up, dead, cur, joined, asked, method, head, got>>
  /\ UNCHANGED fetcher

Drain ==
  /\ gpc = "drain" /\ down # <<>>
  /\ down' = <<>>
  /\ IF Last(down[1])
       THEN /\ gpc' = "run" /\ cancel' = FALSE
            /\ resp' = [resp EXCEPT ![cur] = "closed"]
       ELSE UNCHANGED <<gpc, cancel, resp>>
  /\ UNCHANGED <<up, dead, cur, joined, asked, method, head, got>>
  /\ UNCHANGED fetcher

(* backend.close(): from here the fetcher is dead to every fetch(). *)
CloseBackend ==
  /\ Mortal /\ gpc = "run"
  /\ dead' = TRUE /\ cancel' = TRUE
  /\ UNCHANGED <<up, down, gpc, cur, joined, asked, method, resp, head, got>>
  /\ UNCHANGED fetcher

(* The worker's error or exit event, seen when this thread's event loop    *)
(* runs, which is never while it is parked.                                *)
Notice ==
  /\ fpc = "gone" /\ gpc = "run" /\ ~dead
  /\ dead' = TRUE
  /\ UNCHANGED <<gpc, cur, joined, asked, method, resp, head, got>>
  /\ UNCHANGED wires /\ UNCHANGED fetcher

(* The steps of a call already made. *)
GuestStep == \/ WriteRequest \/ WriteBody \/ ReadHead \/ ReadEmpty
             \/ TakeChunk \/ Drain

-----------------------------------------------------------------------------
(* The fetcher's thread: serve() and handle() over beginExchange(). *)

FetcherReads(from, to) ==
  /\ fpc = from /\ fpc' = to /\ up # <<>> /\ up' = <<>>
  /\ UNCHANGED <<down, cancel>> /\ UNCHANGED guest

TakeRequest == /\ FetcherReads("request", "body")
               /\ fx' = up[1].x
               /\ UNCHANGED <<made, sent, complete, alarm, cut>>

(* beginExchange(): the deadline is armed and fetch() is awaited. *)
TakeBody == /\ FetcherReads("body", "fetch")
            /\ made' = 0 /\ sent' = 0 /\ complete' = FALSE /\ alarm' = TRUE
            /\ UNCHANGED <<fx, cut>>

FetcherAwaits(from, to) ==
  /\ fpc = from /\ fpc' = to
  /\ UNCHANGED wires /\ UNCHANGED guest

(* fetch() rejects: nothing was reached, or the deadline went first. *)
FetchFails == /\ FetcherAwaits("fetch", "refuse")
              /\ alarm' = FALSE
              /\ UNCHANGED <<fx, made, sent, complete, cut>>

(* A redirect the guest is to hear about: the deadline is disarmed, and    *)
(* then the body let go of, an await that nothing times.                   *)
Redirected == /\ FetcherAwaits("fetch", "discard")
              /\ method[fx] \in {"GET", "HEAD"}
              /\ alarm' = FALSE
              /\ UNCHANGED <<fx, made, sent, complete, cut>>

Discarded == /\ FetcherAwaits("discard", "redirect")
             /\ UNCHANGED <<fx, made, sent, complete, alarm, cut>>

(* A response with no body to read: its length is known to be nothing. *)
NoStream == /\ FetcherAwaits("fetch", "head")
            /\ complete' = TRUE
            /\ UNCHANGED <<fx, made, sent, alarm, cut>>

HasStream == /\ FetcherAwaits("fetch", "buffer")
             /\ method[fx] # "HEAD"
             /\ UNCHANGED <<fx, made, sent, complete, alarm, cut>>

(* while (stream && total <= threshold): one chunk more, or the end. *)
Buffering(total) == total <= Threshold

BufferChunk ==
  /\ made < MaxChunks
  /\ made' = made + 1 /\ alarm' = TRUE
  /\ FetcherAwaits("buffer", IF Buffering(made + 1) THEN "buffer" ELSE "head")
  /\ UNCHANGED <<fx, sent, complete, cut>>

BufferDone == /\ FetcherAwaits("buffer", "head")
              /\ complete' = TRUE /\ alarm' = TRUE
              /\ UNCHANGED <<fx, made, sent, cut>>

(* Cut short before the head went out: still reportable as a failure. *)
BufferFails == /\ FetcherAwaits("buffer", "refuse")
               /\ alarm' = FALSE
               /\ UNCHANGED <<fx, made, sent, complete, cut>>

AnnouncedHeld == made  \* mutant: the length of what is buffered so far
Announced == IF complete THEN made ELSE Unknown

(* The one frame of each message written before the body. *)
Leading(pc) == CASE pc = "refuse"   -> F(fx, "error", 0)
                 [] pc = "redirect" -> F(fx, "redirect", 0)
                 [] pc = "head"     -> F(fx, "head", Announced)

(* After a head come the chunks held, after any other reply end(). *)
AfterLeading(pc) == IF pc = "head" THEN "sending" ELSE "end"

WriteLeading ==
  /\ fpc \in {"refuse", "redirect", "head"} /\ ~cancel /\ down = <<>>
  /\ down' = <<Leading(fpc)>>
  /\ fpc' = AfterLeading(fpc)
  /\ UNCHANGED <<up, cancel, fx, made, sent, complete, alarm, cut>>
  /\ UNCHANGED guest

(* write() refused under a cancel: its result is ignored. *)
LeadingRefused ==
  /\ fpc \in {"refuse", "redirect", "head"} /\ cancel
  /\ fpc' = AfterLeading(fpc)
  /\ UNCHANGED <<fx, made, sent, complete, alarm, cut>>
  /\ UNCHANGED wires /\ UNCHANGED guest

(* What handle() does next once the head is out: a chunk it holds, the end *)
(* of a body it has whole, or the next read of the stream.                 *)
ContinueTooFar ==  \* mutant: one chunk more than it holds
  /\ FetcherAwaits("sending", CASE sent <= made            -> "chunk"
                              [] sent > made /\ complete  -> "end"
                              [] sent > made /\ ~complete -> "read")
  /\ UNCHANGED <<fx, made, sent, complete, alarm, cut>>

ContinueUnheld ==  \* mutant: the chunks buffered behind a head are not sent
  /\ FetcherAwaits("sending", IF complete THEN "end" ELSE "read")
  /\ UNCHANGED <<fx, made, sent, complete, alarm, cut>>

Continue ==
  /\ FetcherAwaits("sending", CASE sent < made          -> "chunk"
                              [] sent = made /\ complete  -> "end"
                              [] sent = made /\ ~complete -> "read")
  /\ UNCHANGED <<fx, made, sent, complete, alarm, cut>>

StreamChunk == /\ made < MaxChunks
               /\ FetcherAwaits("read", "chunk")
               /\ made' = made + 1 /\ alarm' = TRUE
               /\ UNCHANGED <<fx, sent, complete, cut>>

StreamDone == /\ FetcherAwaits("read", "end")
              /\ alarm' = TRUE
              /\ UNCHANGED <<fx, made, sent, complete, cut>>

(* stream.read() rejects, the deadline's abort included: the catch ends    *)
(* the message, and finally will disarm.                                   *)
StreamFails == /\ FetcherAwaits("read", "end")
               /\ cut' = cut \cup {fx}
               /\ UNCHANGED <<fx, made, sent, complete, alarm>>

(* put() of a chunk: CANCEL is checked, then FULL; a cancel that lands in  *)
(* between lets this one frame through if the slot is empty, and is seen   *)
(* on the wake otherwise.                                                  *)
ChunkAdmitted == /\ ~cancel
                 /\ FetcherAwaits("chunk", "put")
                 /\ UNCHANGED <<fx, made, sent, complete, alarm, cut>>

ChunkRefused == /\ cancel
                /\ FetcherAwaits("chunk", "abandon")
                /\ UNCHANGED <<fx, made, sent, complete, alarm, cut>>

ChunkRechecked == /\ cancel /\ down # <<>>
                  /\ FetcherAwaits("put", "chunk")
                  /\ UNCHANGED <<fx, made, sent, complete, alarm, cut>>

PutNewest ==  \* mutant: the newest chunk held, not the next
  /\ fpc = "put" /\ down = <<>>
  /\ down' = <<F(fx, "chunk", made)>>
  /\ sent' = sent + 1 /\ fpc' = "sending"
  /\ UNCHANGED <<up, cancel, fx, made, complete, alarm, cut>>
  /\ UNCHANGED guest

PutChunk ==
  /\ fpc = "put" /\ down = <<>>
  /\ down' = <<F(fx, "chunk", sent + 1)>>
  /\ sent' = sent + 1 /\ fpc' = "sending"
  /\ UNCHANGED <<up, cancel, fx, made, complete, alarm, cut>>
  /\ UNCHANGED guest

(* await cancel(stream) after a refused chunk. *)
Abandon == /\ FetcherAwaits("abandon", "end")
           /\ UNCHANGED <<fx, made, sent, complete, alarm, cut>>

(* Mutants: end() refused under a cancel, and no disarm after it. *)
EndUnforced ==
  /\ fpc = "end" /\ down = <<>> /\ ~cancel
  /\ down' = <<F(fx, "end", 0)>>
  /\ fpc' = "request" /\ alarm' = FALSE
  /\ UNCHANGED <<up, cancel, fx, made, sent, complete, cut>>
  /\ UNCHANGED guest

EndArmed ==
  /\ fpc = "end" /\ down = <<>>
  /\ down' = <<F(fx, "end", 0)>> /\ fpc' = "request"
  /\ UNCHANGED <<up, cancel, fx, made, sent, complete, alarm, cut>>
  /\ UNCHANGED guest

(* out.end(), which a cancel does not refuse; then finally disarms. *)
End ==
  /\ fpc = "end" /\ down = <<>>
  /\ down' = <<F(fx, "end", 0)>>
  /\ fpc' = "request" /\ alarm' = FALSE
  /\ UNCHANGED <<up, cancel, fx, made, sent, complete, cut>>
  /\ UNCHANGED guest

(* The thread ends: terminated, out of memory, or given up on. *)
Die == /\ Mortal /\ fpc # "gone"
       /\ fpc' = "gone" /\ alarm' = FALSE
       /\ UNCHANGED <<fx, made, sent, complete, cut>>
       /\ UNCHANGED wires /\ UNCHANGED guest

(* The origin answers when it likes; the deadline does not wait for it. *)
OriginStep == \/ Redirected \/ NoStream \/ HasStream
              \/ BufferChunk \/ BufferDone \/ StreamChunk \/ StreamDone
DeadlineStep == alarm /\ (FetchFails \/ BufferFails \/ StreamFails)
FetcherStep == \/ TakeRequest \/ TakeBody \/ Discarded
               \/ WriteLeading \/ LeadingRefused
               \/ Continue \/ ChunkAdmitted \/ ChunkRefused \/ ChunkRechecked
               \/ PutChunk \/ Abandon \/ End

Finished == /\ gpc = "run" /\ asked = Requests /\ Open = {}
            /\ UNCHANGED vars

Next == \/ \E m \in Methods : Fetch(m) \/ FetchDead(m)
        \/ \E x \in Ids : \/ Read(x) \/ Close(x)
                          \/ ReadSpent(x) \/ CloseSpent(x)
        \/ CloseBackend \/ Notice
        \/ GuestStep
        \/ FetcherStep \/ OriginStep
        \/ FetchFails \/ BufferFails \/ StreamFails
        \/ Die
        \/ Finished

Spec == Init /\ [][Next]_vars

(* Threads run.  The guest owes no further call, the origin no answer, but *)
(* the deadline rejects whatever the fetcher awaits while it is armed.     *)
(* Letting go of a body is the one await outside it (Discarded, Abandon):  *)
(* a cancel() of a stream, which asks nothing of the origin, settles.      *)
Fairness == WF_vars(GuestStep) /\ WF_vars(FetcherStep) /\ WF_vars(DeadlineStep)
FairSpec == Spec /\ Fairness

-----------------------------------------------------------------------------
TypeOK ==
  /\ up \in AtMostOne(Asked) /\ down \in AtMostOne(Frame)
  /\ cancel \in BOOLEAN /\ dead \in BOOLEAN /\ joined \in BOOLEAN
  /\ gpc \in {"run", "request", "body", "head", "empty", "read", "drain"}
  /\ cur \in 0..Requests /\ asked \in 0..Requests
  /\ method \in [Ids -> {"none", "GET", "HEAD", "POST"}]
  /\ resp \in [Ids -> {"none", "asking", "open", "spent", "dropped",
                       "failed", "garbled", "ended", "closed"}]
  /\ head \in [Ids -> AtMostOne(Frame)]
  /\ got \in [Ids -> Seq(Frame)]
  /\ fpc \in {"request", "body", "fetch", "discard", "buffer", "refuse",
              "redirect", "head", "sending", "read", "chunk", "put",
              "abandon", "end", "gone"}
  /\ fx \in 0..Requests /\ made \in 0..MaxChunks /\ sent \in 0..MaxChunks
  /\ complete \in BOOLEAN /\ alarm \in BOOLEAN /\ cut \subseteq Ids

(* Every fetch() finds a head where it looks for one: never a terminator   *)
(* or a chunk of a body, however the exchanges before it ended.            *)
HeadParses == \A x \in Ids : resp[x] # "garbled"

(* What a connection is given is the answer to its own request: the head,  *)
(* and the chunks of the body from the first, in order.  It is for a guest *)
(* with one response open at a time (any Methods, so a HEAD too).  With    *)
(* several, read() may also give the head of a later request that was      *)
(* reset: see DoorSpec, and AnswersKept in AtomicsDoorInvariant.           *)
AnswerIsMine ==
  \A x \in Ids : /\ head[x] # <<>> => head[x][1].x = x
                 /\ \A k \in 1..Len(got[x]) : got[x][k] = F(x, "chunk", k)

(* A Content-Length the guest was given is the length of the body it then  *)
(* reads to the end: beginExchange() announces one only for a body it has  *)
(* whole, and nothing but closing the backend can shorten it after that.   *)
(* With several responses open a foreign head may come after it.           *)
LengthHonest ==
  ~dead => \A x \in Ids :
    resp[x] = "ended" /\ head[x][1].n # Unknown => Len(got[x]) = head[x][1].n

(* Of the exchange the fetcher served last, while it waits for the next    *)
(* request, and of no other: a close-delimited body is only ever short     *)
(* because its origin failed.  A guest that has read it to the end has     *)
(* every chunk the origin produced.                                        *)
NothingDropped ==
  ~dead /\ fpc = "request" /\ fx \in Ids \ cut =>
    (resp[fx] = "ended" => Len(got[fx]) = made)

(* With no response open the two threads agree there is no exchange: both  *)
(* channels empty, no flag set, no timer running, the fetcher waiting.     *)
CleanBetweenExchanges ==
  gpc = "run" /\ Open = {} /\ ~dead /\ fpc # "gone" =>
    /\ up = <<>> /\ down = <<>> /\ ~cancel
    /\ fpc = "request" /\ ~alarm

GuestParked ==
  \/ gpc \in {"request", "body"} /\ up # <<>>
  \/ gpc \in {"head", "empty", "read", "drain"} /\ down = <<>>
FetcherParked ==
  \/ fpc \in {"request", "body"} /\ up = <<>>
  \/ fpc \in {"refuse", "redirect", "head", "end"} /\ down # <<>> /\ ~cancel
  \/ fpc = "put" /\ down # <<>> /\ ~cancel

(* The guest and the fetcher are never both parked on the channels: one of *)
(* them always has the frame, or the room, the other waits for.            *)
NeverBothParked == ~(GuestParked /\ FetcherParked)

(* A guest that knows its fetcher is gone does not park on it again: calls *)
(* are refused instead of swallowed.                                       *)
NeverParkedOnDead == ~(dead /\ fpc = "gone" /\ GuestParked)

(* Every wait for what the origin sends is under the deadline, and no      *)
(* timer outlives its exchange, whichever way the exchange went.           *)
DeadlineCovers ==
  /\ fpc \in {"fetch", "buffer", "read"} => alarm
  /\ fpc \in {"request", "body", "gone"} => ~alarm

(* The contract that core.mjs relies on: what the guest is given is what   *)
(* BlockingDoor says, though a fetcher's thread and its channels are in    *)
(* between and may have lost step.  A guest that opens several responses   *)
(* at once shares the one pair of channels between them.                   *)
Door == INSTANCE BlockingDoor WITH gone <- dead, Shared <- OpenLimit > 1
DoorSpec == Door!Spec

(* Every call returns while the fetcher's thread is alive: a request is    *)
(* answered, a read gives a chunk or the end, and a close comes back, with *)
(* an origin that may say nothing at all.                                  *)
CallsReturn == gpc # "run" ~> (gpc = "run" \/ fpc = "gone")

(* The fetcher comes back for the next request once the guest has let go   *)
(* of a response in the middle of its body.                                *)
FetcherReturns == gpc = "drain" ~> (fpc \in {"request", "gone"})
=============================================================================
