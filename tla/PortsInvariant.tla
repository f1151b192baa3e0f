--------------------------- MODULE PortsInvariant ---------------------------
(***************************************************************************)
(* The inductive invariant of Ports, as conjunctions of named parts.       *)
(* PortsProofs proves that every step preserves it and that it implies the *)
(* safety properties of Ports.                                             *)
(***************************************************************************)
EXTENDS Ports

(* onResponse is called at most once, by whichever of the four paths comes *)
(* first: the response complete, the connection closed, its listener       *)
(* closed, or bytes that are no response.                                  *)
ToldOnce == \A r \in Request : Len(host[r]) <= 1

(* Handles are given out in order and none is used before. *)
Allotted ==
  \A h \in Handle :
    /\ kind[h] = "free" <=> h > next
    /\ kind[h] \in {"free", "listener"} => request[h] = None
    /\ kind[h] = "conn" => request[h] # None

(* None not yet given out has a queue or a connection.                     *)
Unused == \A h \in Handle :
            owner[h] <= next /\ (h > next => pending[h] = <<>>)

(* A request is carried by one handle, answered or live.                   *)
Carried ==
  /\ \A h, k \in Handle : request[h] # None /\ request[h] = request[k] => h = k
  /\ \A h \in Handle : h \in answered => request[h] # None
  /\ \A h \in Handle :
       request[h] # None /\ h \notin answered => kind[h] = "conn"

(* Its host has been told once if that handle is answered, and not before. *)
Accounts ==
  /\ \A h \in Handle : request[h] # None =>
       Len(host[request[h]]) = IF h \in answered THEN 1 ELSE 0
  /\ \A r \in Request \ Delivered : host[r] = <<>>

(* What the guest holds, and who answers for what it does not.             *)
Held ==
  /\ Listeners \subseteq fds
  /\ fds \subseteq Listeners \cup Conns
  /\ \A h \in Conns \ (fds \cup stranded) : owner[h] \in Listeners

(* Requests come in order, and each takes the next handle.                 *)
InOrder ==
  /\ \A h, k \in Handle :
       request[h] # None /\ request[k] # None /\ h < k => request[h] < request[k]
  /\ \A r \in Delivered, q \in Request : q < r => q \in Delivered

(* What IInv makes of the contract's variables: a request is where the one *)
(* handle that carries it is.                                              *)
StageOf(h) ==
  IF h \in fds THEN "held" ELSE IF h \in Conns THEN "waiting" ELSE "over"
Serves(h, a) == owner[h] = taken[a] /\ taken[a] # None
Mapped ==
  /\ \A r \in Request \ Delivered :
       Stage[r] = "new" /\ \A a \in Addresses : r \notin Clients[a]
  /\ \A h \in Handle : request[h] # None =>
       /\ Stage[request[h]] = StageOf(h)
       /\ \A a \in Addresses : request[h] \in Clients[a] <=> Serves(h, a)
       /\ host[request[h]] = <<>> <=> h \notin answered

IInv == /\ TypeOK /\ Allotted /\ Unused /\ Carried /\ Accounts
        /\ TakenMatches /\ Held /\ QueueExact /\ InOrder
=============================================================================
