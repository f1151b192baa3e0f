------------------------------- MODULE Socket -------------------------------
(***************************************************************************)
(* src/src/websocket.mjs: one socket of the class Emscripten's SOCKFS is   *)
(* given, over the connection of the net it wraps.                         *)
(*                                                                         *)
(* Everything happens inside the guest's calls: send() hands the bytes to  *)
(* the net and then drains it, each piece a message event.  An event runs  *)
(* the guest's handler there and then, and the handler may call the socket *)
(* back, so what the class is in the middle of is a stack of frames:       *)
(*                                                                         *)
(*   drain    in _drain()'s loop, about to call recv()                     *)
(*   close    in _fail(), the error emitted and the close still to come    *)
(*   handler  in the guest's code, called from the frame below             *)
(*                                                                         *)
(* The net is what recv() and send() show of it: pieces to read and what   *)
(* comes after them.  It works inside recv(); here it is done as the send  *)
(* that asks for it, since the recv that does it is the next to run.       *)
(***************************************************************************)
EXTENDS Integers, Sequences

CONSTANTS Pieces,  \* bound: what one answer, or one request, is read in
          Depth,   \* bound: frames
          Events   \* bound: a guest told so many events calls no more

ASSUME SocketAssumption == Pieces \in Nat \ {0} /\ {Depth, Events} \subseteq Nat

VARIABLES
  kind,    \* dialled by the guest, or accepted from a listener
  closed,  \* _closed, and readyState with it
  stack,   \* the frames, innermost last
  live,    \* whether the net still has the handle
  ready,   \* pieces recv() has to give
  fate,    \* and what it says after them: again, end or error
  events,  \* history: what the guest has been told, in order
  pumped,  \* history: whether everything there is was ever asked for
  nested,  \* history: a handler called back from inside a drain
  late,    \* history: a socket already closed was pumped
  thrown   \* history: the net threw out of close()

net == <<live, ready, fate>>
past == <<pumped, nested, late, thrown>>
vars == <<kind, closed, stack, net, events, past>>

(* The constructor and acceptedSocket(): open from the start.  An accepted *)
(* connection has its request to read, and never an end.                   *)
Init ==
  /\ kind \in {"dialled", "accepted"}
  /\ closed = FALSE /\ stack = <<>> /\ events = <<>>
  /\ live = TRUE /\ fate = "again"
  /\ ready \in IF kind = "accepted" THEN 1..Pieces ELSE {0}
  /\ pumped = (kind = "dialled")
  /\ nested = FALSE /\ late = FALSE /\ thrown = FALSE

Has(frame) == \E i \in 1..Len(stack) : stack[i] = frame
Below == SubSeq(stack, 1, Len(stack) - 1)
On(frame) == stack # <<>> /\ stack[Len(stack)] = frame

-----------------------------------------------------------------------------
(* _emit(): the guest is told, and its handler runs on top of what the     *)
(* class goes on with.                                                     *)
Emit(event, rest) ==
  events' = Append(events, event) /\ stack' = Append(rest, "handler")

FailOpen(rest) ==  \* mutant: the mark is left to the handlers
  Emit("error", Append(rest, "close")) /\ UNCHANGED closed
Fail(rest) == closed' = TRUE /\ Emit("error", Append(rest, "close"))
Hangup(rest) == closed' = TRUE /\ Emit("close", rest)

DeliverOnce(rest) == Emit("message", rest)  \* mutant: one piece, not a loop
Deliver(rest) == Emit("message", Append(rest, "drain"))

(* A call the guest makes, from its own code or from a handler. *)
Calls == /\ stack = <<>> \/ On("handler")
         /\ Len(stack) < Depth /\ Len(events) < Events
         /\ nested' = (nested \/ Has("drain"))

-----------------------------------------------------------------------------
(* send() the net takes: an answer behind it if the request is complete,   *)
(* or an error; nothing if it is not, if the connection already has its    *)
(* one exchange, or if it is a server's.                                   *)
Send ==
  /\ Calls /\ ~closed
  /\ stack' = Append(stack, "drain")
  /\ \/ UNCHANGED net
     \/ /\ kind = "dialled" /\ fate = "again" /\ UNCHANGED live
        /\ \/ ready' \in 1..Pieces /\ fate' = "end"
           \/ ready' = 0 /\ fate' = "error"
  /\ UNCHANGED <<kind, closed, events, pumped, late, thrown>>

(* send() it throws out of.  A server's: the host's callback threw.  A     *)
(* client's: what it wrote is malformed, which loses the body being read   *)
(* but for the piece in hand, or the connection has hung up.               *)
SendThrows ==
  /\ Calls /\ ~closed
  /\ \/ UNCHANGED net /\ (kind = "accepted" \/ fate = "end")
     \/ kind = "dialled" /\ ready' \in 0..ready /\ fate' = "error"
        /\ UNCHANGED live
  /\ Fail(stack)
  /\ UNCHANGED <<kind, pumped, late, thrown>>

(* pump(): a drain, whether or not the socket is closed. *)
Pump ==
  /\ Calls
  /\ stack' = Append(stack, "drain")
  /\ pumped' = TRUE /\ late' = (late \/ closed)
  /\ UNCHANGED <<kind, closed, net, events, thrown>>

(* close() drops the net's handle; the others that end a socket keep it.   *)
(* Closing an accepted one may run a host's callback, which may throw: to  *)
(* whoever called, or through every handler and drain under way.           *)
Close ==
  /\ Calls /\ ~closed
  /\ live' = FALSE /\ Hangup(stack)
  /\ UNCHANGED <<kind, ready, fate, pumped, late, thrown>>

CloseThrows ==
  /\ Calls /\ ~closed /\ kind = "accepted"
  /\ closed' = TRUE /\ thrown' = TRUE /\ stack' \in {stack, <<>>}
  /\ UNCHANGED <<kind, net, events, pumped, late>>

(* _drain()'s loop, by what recv() does. *)
Drain ==
  /\ On("drain")
  /\ CASE ~live                                 -> Fail(Below)
       [] live /\ ready > 0                     -> Deliver(Below) /\ UNCHANGED closed
       [] live /\ ready = 0 /\ fate = "end"     -> Hangup(Below)
       [] live /\ ready = 0 /\ fate = "error"   -> Fail(Below)
       [] live /\ ready = 0 /\ fate = "again"   ->
            stack' = Below /\ UNCHANGED <<closed, events>>
  /\ ready' = IF live /\ ready > 0 THEN ready - 1 ELSE ready
  /\ UNCHANGED <<kind, live, fate, past>>

(* _fail() goes on to the close. *)
FailCloses == /\ On("close") /\ Emit("close", Below)
              /\ UNCHANGED <<kind, closed, net, past>>

HandlerReturns == /\ On("handler") /\ stack' = Below
                  /\ UNCHANGED <<kind, closed, net, events, past>>

Next == \/ Send \/ SendThrows \/ Pump \/ Close \/ CloseThrows
        \/ Drain \/ FailCloses \/ HandlerReturns

Spec == Init /\ [][Next]_vars

-----------------------------------------------------------------------------
(* A guest at rest has been told the truth: the socket is closed exactly   *)
(* when it heard a close (unless the net threw out of its own close), an   *)
(* error always has its close behind it, and, if no handler called back    *)
(* into a drain, it heard one close and nothing after it.                  *)
EventsOrdered ==
  stack = <<>> /\ ~late =>
    LET closes == {i \in 1..Len(events) : events[i] = "close"} IN
    /\ closes # {} => closed
    /\ closed /\ closes = {} => thrown
    /\ \A i \in 1..Len(events) : events[i] = "error" => i + 1 \in closes
    /\ ~nested => closes \subseteq {Len(events)}

(* A guest at rest on an open socket has been handed everything there was  *)
(* to read: what a drain leaves behind it can never ask for.               *)
NothingLeft ==
  stack = <<>> /\ ~closed /\ pumped => ready = 0 /\ fate = "again"
=============================================================================
