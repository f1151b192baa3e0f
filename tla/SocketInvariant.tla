-------------------------- MODULE SocketInvariant --------------------------
(***************************************************************************)
(* The inductive invariant of Socket, as conjunctions of named parts.      *)
(* SocketProofs proves that every step preserves it and that it implies    *)
(* the properties of Socket.                                               *)
(***************************************************************************)
EXTENDS Socket

(* What the net shows of the connection. *)
NetRanges ==
  live \in BOOLEAN /\ ready \in Nat /\ fate \in {"again", "end", "error"}

Ranges ==
  /\ stack \in Seq({"drain", "close", "handler"})
  /\ events \in Seq({"message", "error", "close"})
  /\ closed \in BOOLEAN /\ pumped \in BOOLEAN
  /\ nested \in BOOLEAN /\ late \in BOOLEAN /\ thrown \in BOOLEAN

(* A _fail() under way has marked the socket.  Until somebody pumps a      *)
(* closed socket it is the innermost frame but for the error's handler,    *)
(* and the error is the last thing the guest heard.                        *)
Failing ==
  \A i \in 1..Len(stack) : stack[i] = "close" =>
    /\ closed
    /\ ~late => /\ \/ i = Len(stack)
                   \/ i + 1 = Len(stack) /\ stack[i + 1] = "handler"
                /\ events # <<>> /\ events[Len(events)] = "error"

(* What the guest has heard agrees with the mark, frames still to run      *)
(* taken into account.                                                     *)
Heard ==
  /\ \A i \in 1..Len(events) : events[i] = "close" => closed
  /\ closed => \/ thrown \/ Has("close")
               \/ \E i \in 1..Len(events) : events[i] = "close"
  /\ ~late => \A i \in 1..Len(events) : events[i] = "error" =>
       \/ i + 1 \in 1..Len(events) /\ events[i + 1] = "close"
       \/ i = Len(events) /\ Has("close")

(* While no handler has called into a drain there is one drain at most,    *)
(* of an open socket, and a close is the last thing heard.                 *)
Plain ==
  ~nested /\ ~late =>
    /\ \A i, j \in 1..Len(stack) :
         stack[i] = "drain" /\ stack[j] = "drain" => i = j
    /\ closed => ~Has("drain")
    /\ \A i \in 1..Len(events) : events[i] = "close" => i = Len(events)

(* What there is to read has a drain still to ask for it. *)
Reading ==
  ~closed /\ pumped => Has("drain") \/ (ready = 0 /\ fate = "again")

(* The class's part, which needs of the net no more than NetRanges. *)
IInv == Ranges /\ Failing /\ Heard /\ Plain /\ Reading
=============================================================================
