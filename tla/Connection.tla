----------------------------- MODULE Connection -----------------------------
(***************************************************************************)
(* src/src/core.mjs: the outbound half of a net, over both doors.          *)
(*                                                                         *)
(* A guest connects, writes requests and reads answers.  A request goes    *)
(* out when the guest reads: from recv() through the blocking door         *)
(* (pump), or from readyAsync() through the awaited one (pumpAsync).  JS   *)
(* runs one turn at a time, so every call is one step, except that         *)
(* readyAsync() is suspended while the network works; what runs meanwhile  *)
(* is calls on other handles, a close() of this one, and the deadline's    *)
(* timer.                                                                  *)
(*                                                                         *)
(* The blocking door answers at once; what two responses open on it do to  *)
(* each other is AtomicsDoor's subject.  The awaited one is the response   *)
(* object of backend-direct.mjs: a queue, pull(), read(), ready(),         *)
(* cancel().  Parsing is left out: a write holds so many whole requests    *)
(* and then perhaps something malformed.                                   *)
(***************************************************************************)
EXTENDS Integers, Sequences

CONSTANTS Conns,      \* the guest's connections, by handle
          Requests,   \* bound: requests it writes are 1..Requests
          MaxChunks,  \* bound: chunks of a response body
          Methods     \* the methods it uses

ASSUME ConnectionAssumption ==
  /\ Conns \subseteq Nat /\ Conns # {}
  /\ Requests \in Nat /\ MaxChunks \in Nat
  /\ Methods \subseteq {"GET", "HEAD", "POST"}

Request == 1..Requests
None == 0

(* A piece of an answer is two bytes: piece 0 is the head, i the i-th      *)
(* chunk of the body.                                                      *)
Byte == [r : Request, i : 0..MaxChunks, u : 1..2]
Piece(r, i) == <<[r |-> r, i |-> i, u |-> 1], [r |-> r, i |-> i, u |-> 2]>>

VARIABLES
  table,      \* of each connection: new, open or closed
  conn,       \* of each connection: its record in core.mjs
  sent,       \* requests the guest has written
  from,       \* of each request: the connection it was written on
  method,     \* of each request
  door,       \* of each request: none, or the door its response came by
  queue,      \* of each awaited response: chunks pulled and not read
  done,       \* the awaited responses whose end is known
  stopped,    \* the awaited responses cancelled
  clock,      \* of each request: its deadline, see Clock
  flights,    \* the requests whose fetchAsync() is awaited
  pulls,      \* the requests whose response.pull() is awaited
  asked,      \* history: requests dispatched on each connection, in order
  orphans,    \* history: requests whose connection closed in their flight
  made,       \* history: chunks each origin has produced
  over,       \* history: the requests whose origin has no more to say
  got,        \* history: bytes recv() gave the guest on each connection
  eof         \* history: connections on which it said end of file

network == <<door, queue, done, stopped, clock, flights, pulls, orphans,
             made, over>>
writing == <<sent, from, method>>
vars == <<table, conn, writing, network, asked, got, eof>>

(* The deadline of an exchange: its timer is off or set, or it has fired   *)
(* and aborted the exchange, with somebody awaiting its origin ("silent")  *)
(* or while its body waited to be pulled ("idle").                         *)
Clock == {"off", "set", "silent", "idle"}
Aborted(r) == clock[r] \in {"silent", "idle"}
Armed(r) == clock' = [clock EXCEPT ![r] = "set"]
Disarmed(r) == clock' = [clock EXCEPT ![r] = IF @ = "set" THEN "off" ELSE @]

Fresh == [pending |-> <<>>, outbox |-> <<>>, offset |-> 0,
          response |-> None, hup |-> FALSE, error |-> FALSE]

Init ==
  /\ table = [c \in Conns |-> "new"] /\ conn = [c \in Conns |-> Fresh]
  /\ sent = 0
  /\ from \in [Request -> {CHOOSE c \in Conns : TRUE}]
  /\ method = [r \in Request |-> "none"]
  /\ door = [r \in Request |-> "none"]
  /\ queue = [r \in Request |-> <<>>]
  /\ done = {} /\ stopped = {} /\ flights = {} /\ pulls = {}
  /\ clock = [r \in Request |-> "off"] /\ orphans = {}
  /\ asked = [c \in Conns |-> <<>>]
  /\ made = [r \in Request |-> 0] /\ over = {}
  /\ got = [c \in Conns |-> <<>>] /\ eof = [c \in Conns |-> FALSE]

(* A readyAsync() on c has not returned: its caller makes no other call.   *)
Waiting(c) == \E r \in flights \cup pulls : from[r] = c
Usable(c) == table[c] = "open" /\ ~Waiting(c)

-----------------------------------------------------------------------------
(* core.mjs's helpers, on a connection record k. *)

IdleAnyway(k) ==  \* mutant: a response under way does not count
  k.pending # <<>> /\ k.outbox = <<>> /\ ~k.error /\ ~k.hup

Idle(k) == /\ k.pending # <<>> /\ k.response = None /\ k.outbox = <<>>
           /\ ~k.error /\ ~k.hup

Due(k) == Head(k.pending)
Shifted(k) == [k EXCEPT !.pending = Tail(@)]
Queued(k, bytes) == [k EXCEPT !.outbox = Append(@, bytes)]
SpentOpen(k) == [k EXCEPT !.pending = <<>>]  \* mutant: a write may follow
Spent(k) == [k EXCEPT !.hup = TRUE, !.pending = <<>>]

(* What a dispatch can come to: refused before anything is asked (plan),   *)
(* thrown by the door, or one of the three shapes of beginExchange().      *)
Outcomes == {"refused", "thrown", "error", "redirect", "head"}
Failing == {"refused", "thrown", "error"}
Possible(r, outcome) == outcome = "redirect" => method[r] \in {"GET", "HEAD"}

(* deliver(): the record after request r came to this. *)
Delivered(k, r, outcome) ==
  CASE outcome \in Failing    -> [k EXCEPT !.error = TRUE]
    [] outcome = "redirect"   -> Spent(Queued(k, Piece(r, 0)))
    [] outcome = "head"       ->
         IF method[r] = "HEAD" THEN Spent(Queued(k, Piece(r, 0)))
         ELSE [Queued(k, Piece(r, 0)) EXCEPT !.response = r]

Opens(r, outcome) == outcome = "head" /\ method[r] # "HEAD"

(* ready() of an awaited response; one of the blocking door has none. *)
ReadyAlways(r) == TRUE  \* mutant: nothing buffered is taken for the end
Ready(r) == door[r] = "sync" \/ queue[r] # <<>> \/ r \in done

-----------------------------------------------------------------------------
(* connect(): handles are given out in order. *)
Connect(c) ==
  /\ table[c] = "new" /\ \A d \in Conns : d < c => table[d] # "new"
  /\ table' = [table EXCEPT ![c] = "open"]
  /\ UNCHANGED <<conn, writing, network, asked, got, eof>>

(* send(): the whole requests of one write, queued in order, and what is   *)
(* malformed behind them poisons the connection.                           *)
Send(c, ms, bad) ==
  /\ Usable(c) /\ ~conn[c].error /\ ~conn[c].hup
  /\ sent + Len(ms) <= Requests
  /\ LET ids == [i \in 1..Len(ms) |-> sent + i] IN
       conn' = [conn EXCEPT ![c].pending = @ \o ids, ![c].error = bad]
  /\ sent' = sent + Len(ms)
  /\ from' = [r \in Request |-> IF r \in sent + 1..sent + Len(ms) THEN c
                                ELSE from[r]]
  /\ method' = [r \in Request |->
                  IF r \in sent + 1..sent + Len(ms) THEN ms[r - sent]
                  ELSE method[r]]
  /\ UNCHANGED <<table, network, asked, got, eof>>

(* pump(): what recv() finds after sending the next request, if it is due. *)
Pumped(c, outcome) ==
  IF Idle(conn[c])
    THEN Delivered(Shifted(conn[c]), Due(conn[c]), outcome)
    ELSE conn[c]

(* What it comes to.  The blocking door may throw: that of a net on the    *)
(* direct backend always does, the other when what it read is no head.     *)
PumpComesTo(c, outcome) ==
  IF Idle(conn[c]) THEN Possible(Due(conn[c]), outcome)
                   ELSE outcome = "refused"

PumpEffects(c, outcome) ==
  LET r == Due(conn[c]) IN
  IF Idle(conn[c])
    THEN /\ asked' = [asked EXCEPT ![c] =
                        IF outcome = "refused" THEN @ ELSE Append(@, r)]
         /\ door' = [door EXCEPT ![r] =
                       IF Opens(r, outcome) THEN "sync" ELSE @]
    ELSE UNCHANGED <<asked, door>>

(* recv() with bytes in hand. *)
RecvOutbox(c, max, outcome) ==
  /\ Usable(c) /\ PumpComesTo(c, outcome)
  /\ LET k == Pumped(c, outcome)
         piece == Head(k.outbox)
         upto == IF k.offset + max < Len(piece) THEN k.offset + max
                                                ELSE Len(piece)
     IN /\ k.outbox # <<>>
        /\ conn' = [conn EXCEPT ![c] =
             IF upto = Len(piece)
               THEN [k EXCEPT !.outbox = Tail(@), !.offset = 0]
               ELSE [k EXCEPT !.offset = upto]]
        /\ got' = [got EXCEPT ![c] = @ \o SubSeq(piece, k.offset + 1, upto)]
  /\ PumpEffects(c, outcome)
  /\ UNCHANGED <<table, writing, queue, done, stopped, clock>>
  /\ UNCHANGED <<flights, pulls, orphans, made, over, eof>>

(* recv() that dispatches a request and raises what came of it. *)
RecvError(c, outcome) ==
  /\ Usable(c) /\ Idle(conn[c]) /\ PumpComesTo(c, outcome)
  /\ outcome \in Failing
  /\ conn' = [conn EXCEPT ![c] = Pumped(c, outcome)]
  /\ PumpEffects(c, outcome)
  /\ UNCHANGED <<table, writing, queue, done, stopped, clock>>
  /\ UNCHANGED <<flights, pulls, orphans, made, over, got, eof>>

(* recv() on a response that can be read: what is past max is kept. *)
Readable(c) == /\ Usable(c) /\ conn[c].outbox = <<>> /\ ~conn[c].error
               /\ conn[c].response # None /\ Ready(conn[c].response)

TakenPiece(c, piece, max) ==
  /\ conn' = IF max < Len(piece)
               THEN [conn EXCEPT ![c] =
                       Queued(@, SubSeq(piece, max + 1, Len(piece)))]
               ELSE conn
  /\ got' = [got EXCEPT ![c] =
               @ \o (IF max < Len(piece) THEN SubSeq(piece, 1, max) ELSE piece)]
  /\ UNCHANGED <<table, writing, door, done, stopped, clock>>
  /\ UNCHANGED <<flights, pulls, orphans, over, asked, eof>>

RecvBlocking(c, max) ==
  LET r == conn[c].response IN
  /\ Readable(c) /\ door[r] = "sync" /\ made[r] < MaxChunks
  /\ made' = [made EXCEPT ![r] = @ + 1]
  /\ UNCHANGED queue
  /\ TakenPiece(c, Piece(r, made[r] + 1), max)

RecvAwaitedNewest(c, max) ==  \* mutant: the queue read from its other end
  LET r == conn[c].response
      n == Len(queue[r]) IN
  /\ Readable(c) /\ door[r] = "async" /\ n > 0
  /\ queue' = [queue EXCEPT ![r] = SubSeq(@, 1, n - 1)]
  /\ UNCHANGED made
  /\ TakenPiece(c, Piece(r, queue[r][n]), max)

RecvAwaited(c, max) ==
  LET r == conn[c].response IN
  /\ Readable(c) /\ door[r] = "async" /\ queue[r] # <<>>
  /\ queue' = [queue EXCEPT ![r] = Tail(@)]
  /\ UNCHANGED made
  /\ TakenPiece(c, Piece(r, Head(queue[r])), max)

(* recv() whose read() says null: the end of the body, of its origin's     *)
(* making on the blocking door and already known on the other.             *)
RecvEnd(c) ==
  LET r == conn[c].response IN
  /\ Readable(c) /\ queue[r] = <<>>
  /\ conn' = [conn EXCEPT ![c] = Spent([@ EXCEPT !.response = None])]
  /\ eof' = [eof EXCEPT ![c] = TRUE]
  /\ over' = IF door[r] = "sync" THEN over \cup {r} ELSE over
  /\ UNCHANGED <<table, writing, door, queue, done, stopped>>
  /\ UNCHANGED <<clock, flights, pulls, orphans, made, asked, got>>

(* recv() after the hangup. *)
RecvHup(c) ==
  /\ Usable(c) /\ conn[c].hup /\ conn[c].outbox = <<>> /\ ~conn[c].error
  /\ conn[c].response = None
  /\ eof' = [eof EXCEPT ![c] = TRUE]
  /\ UNCHANGED <<table, conn, writing, network, asked, got>>

(* readyAsync(): the request goes out, under its deadline from the start,  *)
(* or the policy refuses it.                                               *)
ReadyFetch(c) ==
  LET r == Due(conn[c]) IN
  /\ Usable(c) /\ Idle(conn[c])
  /\ conn' = [conn EXCEPT ![c] = Shifted(@)]
  /\ flights' = flights \cup {r} /\ Armed(r)
  /\ asked' = [asked EXCEPT ![c] = Append(@, r)]
  /\ UNCHANGED <<table, writing, door, queue, done, stopped, pulls>>
  /\ UNCHANGED <<orphans, made, over, got, eof>>

ReadyRefused(c) ==
  /\ Usable(c) /\ Idle(conn[c])
  /\ conn' = [conn EXCEPT ![c] = [Shifted(@) EXCEPT !.error = TRUE]]
  /\ UNCHANGED <<table, writing, network, asked, got, eof>>

(* readyAsync() on a body with nothing buffered. *)
ReadyPull(c) ==
  LET r == conn[c].response IN
  /\ Usable(c) /\ ~Idle(conn[c]) /\ r # None /\ ~Ready(r)
  /\ r \notin pulls
  /\ pulls' = pulls \cup {r}
  /\ UNCHANGED <<table, conn, writing, door, queue, done, stopped>>
  /\ UNCHANGED <<clock, flights, orphans, made, over, asked, got, eof>>

(* beginExchange()'s exits: a failure and a redirect disarm; a head leaves *)
(* the timer of its last chunk running, whether or not the body is whole.  *)
HeadDisarms(r, outcome) == Disarmed(r)  \* mutant: a clock on the head alone
SettledClock(r, outcome) ==
  IF outcome = "head" THEN UNCHANGED clock ELSE Disarmed(r)

(* fetchAsync() settles: the head, with what was buffered behind it.  A    *)
(* body not over was buffered past the threshold.  An exchange aborted can *)
(* only fail.  The record may be gone from the table by now; it is written *)
(* to all the same.  Then readyAsync() would go on to pull, but ready()    *)
(* holds: there is a chunk in hand or the body is over.                    *)
FetchSettles(r, outcome, held, whole) ==
  /\ r \in flights /\ Possible(r, outcome)
  /\ outcome \in {"error", "redirect", "head"}
  /\ Aborted(r) => outcome = "error"
  /\ Opens(r, outcome) \/ (held = 0 /\ whole)
  /\ ~whole => held > 0
  /\ flights' = flights \ {r}
  /\ SettledClock(r, outcome)
  /\ conn' = [conn EXCEPT ![from[r]] = Delivered(@, r, outcome)]
  /\ IF Opens(r, outcome)
       THEN /\ door' = [door EXCEPT ![r] = "async"]
            /\ queue' = [queue EXCEPT ![r] = [i \in 1..held |-> i]]
            /\ made' = [made EXCEPT ![r] = held]
            /\ done' = IF whole THEN done \cup {r} ELSE done
            /\ over' = IF whole THEN over \cup {r} ELSE over
       ELSE UNCHANGED <<door, queue, made, done, over>>
  /\ UNCHANGED <<table, writing, stopped, pulls, orphans, asked>>
  /\ UNCHANGED <<got, eof>>

(* stream.read() settles inside pull(): a chunk, which re-arms.  It may    *)
(* have arrived when a cancel() came, and is then queued all the same.     *)
PullChunk(r) ==
  /\ r \in pulls /\ made[r] < MaxChunks /\ ~Aborted(r)
  /\ pulls' = pulls \ {r} /\ Armed(r)
  /\ queue' = [queue EXCEPT ![r] = Append(@, made[r] + 1)]
  /\ made' = [made EXCEPT ![r] = @ + 1]
  /\ UNCHANGED <<table, conn, writing, door, done, stopped>>
  /\ UNCHANGED <<flights, orphans, over, asked, got, eof>>

(* Or the end, which is also how a failure, an abort and a cancelled       *)
(* stream look: finish().                                                  *)
PullEnd(r) ==
  /\ r \in pulls
  /\ pulls' = pulls \ {r} /\ Disarmed(r)
  /\ done' = done \cup {r} /\ over' = over \cup {r}
  /\ UNCHANGED <<table, conn, writing, door, queue, stopped>>
  /\ UNCHANGED <<flights, orphans, made, asked, got, eof>>

(* The timer runs out: clock.abort() fails whatever awaits the origin, or  *)
(* the next pull() to try.  An exchange that is over does not feel it.     *)
Unpulled(r) == door[r] = "async" /\ r \notin done
TimerFires(r) ==
  /\ clock[r] = "set"
  /\ clock' = [clock EXCEPT ![r] = CASE r \in flights \cup pulls -> "silent"
                                     [] Unpulled(r) -> "idle"
                                     [] OTHER -> "off"]
  /\ UNCHANGED <<table, conn, writing, door, queue, done, stopped>>
  /\ UNCHANGED <<flights, pulls, orphans, made, over, asked, got, eof>>

(* cancel() of an awaited response. *)
StoppedUndone(r) ==  \* mutant: the flag pull() looks at is not set
  stopped' = stopped \cup {r} /\ Disarmed(r) /\ UNCHANGED <<done, queue>>
StoppedNever(r) ==   \* mutant: the stream is left running
  UNCHANGED <<stopped, done, queue, clock>>
Stopped(r) == /\ stopped' = stopped \cup {r} /\ done' = done \cup {r}
              /\ queue' = [queue EXCEPT ![r] = <<>>]
              /\ Disarmed(r)

(* close(): the response is cancelled and the record dropped; a            *)
(* readyAsync() under way still holds it.  A response in its flight is not *)
(* there to be cancelled.                                                  *)
Close(c) ==
  LET r == conn[c].response IN
  /\ table[c] = "open"
  /\ table' = [table EXCEPT ![c] = "closed"]
  /\ orphans' = orphans \cup {q \in flights : from[q] = c}
  /\ IF r = None THEN UNCHANGED <<stopped, done, queue, clock, over>>
     ELSE IF door[r] = "sync" THEN over' = over \cup {r}
                                   /\ UNCHANGED <<stopped, done, queue, clock>>
     ELSE Stopped(r) /\ UNCHANGED over
  /\ conn' = IF Waiting(c) THEN conn ELSE [conn EXCEPT ![c] = Fresh]
  /\ UNCHANGED <<writing, door, flights, pulls, made>>
  /\ UNCHANGED <<asked, got, eof>>

Writes == {<<>>} \cup {<<m>> : m \in Methods} \cup
          {<<m, n>> : m \in Methods, n \in Methods}

Recv(c) ==
  \/ \E max \in 1..2 :
       \/ \E outcome \in Outcomes : RecvOutbox(c, max, outcome)
       \/ RecvBlocking(c, max)
       \/ RecvAwaited(c, max)
  \/ \E outcome \in Outcomes : RecvError(c, outcome)
  \/ RecvEnd(c) \/ RecvHup(c)

ReadyAsync(c) == ReadyFetch(c) \/ ReadyRefused(c) \/ ReadyPull(c)

Settle(r) ==
  \/ \E outcome \in Outcomes, held \in 0..MaxChunks, whole \in BOOLEAN :
       FetchSettles(r, outcome, held, whole)
  \/ PullChunk(r) \/ PullEnd(r)

Next == \/ \E c \in Conns :
             \/ Connect(c) \/ Close(c)
             \/ \E ms \in Writes, bad \in BOOLEAN : Send(c, ms, bad)
             \/ Recv(c) \/ ReadyAsync(c)
        \/ \E r \in Request : Settle(r) \/ TimerFires(r)

Spec == Init /\ [][Next]_vars

(* The origin owes nothing.  A timer that is set fires, what it aborted    *)
(* settles, and the guest goes on reading, waiting first when it can.      *)
GuestReads == \E c \in Conns : Recv(c) \/ ReadyAsync(c)
Fairness == /\ WF_vars(\E r \in Request : TimerFires(r))
            /\ WF_vars(\E r \in Request : Aborted(r) /\ Settle(r))
            /\ WF_vars(GuestReads)
FairSpec == Spec /\ Fairness

-----------------------------------------------------------------------------
TypeOK ==
  /\ table \in [Conns -> {"new", "open", "closed"}]
  /\ \A c \in Conns :
       /\ \A i \in 1..Len(conn[c].pending) : conn[c].pending[i] \in Request
       /\ \A i \in 1..Len(conn[c].outbox) :
            \A j \in 1..Len(conn[c].outbox[i]) : conn[c].outbox[i][j] \in Byte
       /\ conn[c].offset \in 0..1
       /\ conn[c].response \in Request \cup {None}
       /\ conn[c].hup \in BOOLEAN /\ conn[c].error \in BOOLEAN
       /\ \A i \in 1..Len(got[c]) : got[c][i] \in Byte
  /\ sent \in 0..Requests
  /\ from \in [Request -> Conns]
  /\ method \in [Request -> {"none", "GET", "HEAD", "POST"}]
  /\ door \in [Request -> {"none", "sync", "async"}]
  /\ made \in [Request -> 0..MaxChunks]
  /\ done \subseteq Request /\ stopped \subseteq done /\ over \subseteq Request
  /\ flights \subseteq Request /\ pulls \subseteq Request
  /\ clock \in [Request -> Clock] /\ orphans \subseteq Request
  /\ asked \in [Conns -> Seq(Request)] /\ eof \in [Conns -> BOOLEAN]

(* One exchange per connection, and it is the first request the guest     *)
(* wrote on it, however the reads and the waits fall: what is queued       *)
(* behind it never goes out, then or in place of a later one.              *)
OneExchange ==
  \A c \in Conns : asked[c] # <<>> =>
    /\ Len(asked[c]) = 1
    /\ \A r \in Request : r <= sent /\ from[r] = c => asked[c][1] <= r

(* The bytes recv() has given, whatever the guest's buffer: the head of    *)
(* the answer to that request and its body, in order, none lost, repeated  *)
(* or another's.                                                           *)
BytesExact ==
  \A c \in Conns : \A k \in 1..Len(got[c]) :
    /\ asked[c] # <<>>
    /\ got[c][k] = [r |-> asked[c][1], i |-> (k - 1) \div 2,
                    u |-> ((k - 1) % 2) + 1]

(* End of file is the end: everything the origin produced has been handed  *)
(* over, and the origin is not still producing.                            *)
EofHonest ==
  \A c \in Conns : eof[c] =>
    /\ asked[c] # <<>>
    /\ LET r == asked[c][1] IN
         /\ Len(got[c]) = 2 * (made[r] + 1)
         /\ door[r] # "none" => r \in over

(* Every response still being produced is the one a live connection holds, *)
(* unless its connection closed before it came: none else is left running  *)
(* with nobody to read or to cancel it.                                    *)
NoneAdrift ==
  \A r \in Request :
    door[r] # "none" /\ r \notin over \cup stopped \cup orphans =>
      table[from[r]] = "open" /\ conn[from[r]].response = r

(* The deadline is on silence: a body the guest is given the end of was    *)
(* not cut by a timer that ran out while nobody was asking its origin for  *)
(* anything.                                                               *)
OnlySilenceCuts ==
  \A c \in Conns : eof[c] => clock[asked[c][1]] # "idle"

(* A hangup is final: nothing is queued behind it and no response is open, *)
(* so nothing can be answered on the connection later.                     *)
HangupFinal ==
  \A c \in Conns : conn[c].hup =>
    /\ conn[c].pending = <<>> /\ conn[c].response = None
    /\ ~Waiting(c)

(* However the calls, the answers and the deadlines interleave, on either  *)
(* door, each connection is a stream of one answer.                        *)
Stream == INSTANCE AnswerStream
StreamSpec == Stream!Spec

(* A guest that keeps reading hears the end of what it asked, or why not. *)
AnswerEnds ==
  \A c \in Conns :
    asked[c] # <<>> ~> (eof[c] \/ conn[c].error \/ table[c] = "closed")

(* A response that comes to a connection already closed is ended by its    *)
(* deadline: nothing else will, close() having found nothing to cancel.    *)
OrphansEnd ==
  \A r \in Request :
    r \in orphans ~> (r \notin flights /\ (Unpulled(r) => Aborted(r)))
=============================================================================
