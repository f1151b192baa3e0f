------------------------------- MODULE Ports -------------------------------
(***************************************************************************)
(* src/src/serve.mjs: the inbound half of a net.                           *)
(*                                                                         *)
(* A guest listens; the host delivers requests to whatever listens; the    *)
(* guest accepts connections, reads the request, writes a response and     *)
(* closes.  The host is answered through a callback the guest's own calls  *)
(* run synchronously, and which may throw into them.                       *)
(*                                                                         *)
(* Handles come from one counter and are never used again.  A response is  *)
(* what its parser makes of it: how much of it has been written, and       *)
(* whether a close is a legal end.                                         *)
(***************************************************************************)
EXTENDS Integers, Sequences, FiniteSets

CONSTANTS Handles,      \* bound: handles ever allocated are 1..Handles
          Requests,     \* bound: requests the host delivers are 1..Requests
          Addresses,    \* what a server may bind to
          Wildcards,    \* those that mean anywhere: 0.0.0.0 and ::
          NoAddress     \* what a request that names none asks for

ASSUME PortsAssumption == /\ Handles \in Nat
                          /\ Requests \in Nat
                          /\ Addresses # {}
                          /\ Wildcards \subseteq Addresses
                          /\ NoAddress \notin Addresses

Handle == 1..Handles
Request == 1..Requests
None == 0

(* What a response parser has seen: no whole head, part of a body whose    *)
(* end is announced, or a body that runs to the close.                     *)
Parsed == {"nothing", "part", "toclose"}

(* What the host was told: a whole response, or an error. *)
Answer == {"response", "error"}

VARIABLES
  next,      \* handles allocated
  kind,      \* of each handle: free, listener, conn or gone
  address,   \* of each listener: what it is bound to
  pending,   \* of each listener: connections nobody has accepted
  taken,     \* of each address: the listener bound to it, or None
  owner,     \* of each connection: its listener
  request,   \* of each connection: the host's request it carries
  wanted,    \* history: of each request, the address it asked for
  unread,    \* of each connection: parts of the request still in its outbox
  parser,    \* of each connection: what its response parser has seen
  answered,  \* the connections settled
  fds,       \* the handles the guest holds
  host,      \* of each request: what its host has been told, in order
  stranded   \* history: connections a throwing callback left behind

listening == <<address, pending, taken>>
carrying == <<owner, request, wanted>>
serving == <<carrying, unread, parser, answered>>
vars == <<next, kind, listening, serving, fds, host, stranded>>

Init ==
  /\ next = 0
  /\ kind = [h \in Handle |-> "free"]
  /\ address = [h \in Handle |-> CHOOSE a \in Addresses : TRUE]
  /\ pending = [h \in Handle |-> <<>>]
  /\ taken = [a \in Addresses |-> None]
  /\ owner = [h \in Handle |-> None]
  /\ request = [h \in Handle |-> None]
  /\ wanted = [r \in Request |-> NoAddress]
  /\ unread = [h \in Handle |-> 0]
  /\ parser = [h \in Handle |-> "nothing"]
  /\ answered = {}
  /\ fds = {}
  /\ host = [r \in Request |-> <<>>]
  /\ stranded = {}

Listeners == {h \in Handle : kind[h] = "listener"}
Conns == {h \in Handle : kind[h] = "conn"}
Queued(l) == {pending[l][i] : i \in 1..Len(pending[l])}

(* The requests some listener took: their hosts wait for a callback. *)
Delivered == {r \in Request : \E h \in Handle : request[h] = r}
Owed == {r \in Delivered : host[r] = <<>>}

-----------------------------------------------------------------------------
(* listen(): EADDRINUSE leaves everything as it was. *)
Listen(a) ==
  /\ next < Handles /\ taken[a] = None
  /\ next' = next + 1
  /\ kind' = [kind EXCEPT ![next + 1] = "listener"]
  /\ address' = [address EXCEPT ![next + 1] = a]
  /\ taken' = [taken EXCEPT ![a] = next + 1]
  /\ fds' = fds \cup {next + 1}
  /\ UNCHANGED <<pending, serving, host, stranded>>

(* listenerFor(): the listener bound to the address asked for, else the    *)
(* first made of those bound to any.  Asking for no address takes the      *)
(* first made of all.                                                      *)
Candidates(a) ==
  IF a # NoAddress /\ taken[a] # None THEN {taken[a]}
  ELSE {h \in Listeners : address[h] \in Wildcards \/ a = NoAddress}
Routed(a) == {h \in Candidates(a) : \A k \in Candidates(a) : h <= k}

(* deliver(): a connection on that listener's queue.  A request with a     *)
(* body is two reads of the outbox.                                        *)
Deliver(r, a, parts) ==
  /\ next < Handles /\ r \notin Delivered
  /\ \A q \in Request : q < r => q \in Delivered
  /\ \E l \in Routed(a) :
       /\ next' = next + 1
       /\ kind' = [kind EXCEPT ![next + 1] = "conn"]
       /\ owner' = [owner EXCEPT ![next + 1] = l]
       /\ request' = [request EXCEPT ![next + 1] = r]
       /\ wanted' = [wanted EXCEPT ![r] = a]
       /\ unread' = [unread EXCEPT ![next + 1] = parts]
       /\ pending' = [pending EXCEPT ![l] = Append(@, next + 1)]
  /\ UNCHANGED <<address, taken, parser, answered, fds, host, stranded>>

(* accept(): the oldest connection becomes the guest's descriptor. *)
AcceptKeeps(l) ==  \* mutant: it stays on the queue
  /\ l \in Listeners /\ pending[l] # <<>>
  /\ fds' = fds \cup {Head(pending[l])}
  /\ UNCHANGED <<next, kind, listening, serving, host, stranded>>

AcceptNewest(l) ==  \* mutant: the connection that came last
  /\ l \in Listeners /\ pending[l] # <<>>
  /\ pending' = [pending EXCEPT ![l] = SubSeq(@, 1, Len(@) - 1)]
  /\ fds' = fds \cup {pending[l][Len(pending[l])]}
  /\ UNCHANGED <<next, kind, address, taken, serving, host, stranded>>

Accept(l) ==
  /\ l \in Listeners /\ pending[l] # <<>>
  /\ pending' = [pending EXCEPT ![l] = Tail(@)]
  /\ fds' = fds \cup {Head(pending[l])}
  /\ UNCHANGED <<next, kind, address, taken, serving, host, stranded>>

(* recv() empties one part of the outbox; once it is empty it is AGAIN. *)
RecvPastEnd(h) ==  \* mutant: it reads an outbox that is empty
  /\ h \in Conns \cap fds /\ unread[h] >= 0
  /\ unread' = [unread EXCEPT ![h] = @ - 1]
  /\ UNCHANGED <<next, kind, listening, carrying, parser, answered>>
  /\ UNCHANGED <<fds, host, stranded>>

Recv(h) ==
  /\ h \in Conns \cap fds /\ unread[h] > 0
  /\ unread' = [unread EXCEPT ![h] = @ - 1]
  /\ UNCHANGED <<next, kind, listening, carrying, parser, answered>>
  /\ UNCHANGED <<fds, host, stranded>>

(* settle(): the mark first, then the callback, which hears it once. *)
Settled(S) == answered \cup S
Told(S, answer) ==
  [r \in Request |->
     IF \E h \in S \ answered : request[h] = r
       THEN Append(host[r], answer) ELSE host[r]]

(* send(): bytes that leave the response incomplete. *)
SendPart(h, p) ==
  /\ h \in (Conns \cap fds) \ answered
  /\ parser[h] = "nothing" \/ parser[h] = p
  /\ parser' = [parser EXCEPT ![h] = p]
  /\ UNCHANGED <<next, kind, listening, carrying, unread, answered>>
  /\ UNCHANGED <<fds, host, stranded>>

(* send(): bytes that complete it, or that no parser can make sense of.    *)
(* The connection stays the guest's.  A response that runs to the close    *)
(* cannot end here.                                                        *)
SendLast(h, answer) ==
  /\ h \in (Conns \cap fds) \ answered /\ parser[h] # "toclose"
  /\ answered' = Settled({h})
  /\ host' = Told({h}, answer)
  /\ UNCHANGED <<next, kind, listening, carrying, unread, parser, fds>>
  /\ UNCHANGED stranded

(* What finish() says of a response the guest has stopped writing. *)
Finish(p) == IF p = "toclose" THEN "response" ELSE "error"

(* close() of a connection: a callback that throws leaves the record and   *)
(* the descriptor, for the guest to close again.                           *)
CloseConnQuietly(h, throws) ==  \* mutant: only a begun response is settled
  /\ h \in Conns \cap fds
  /\ throws => h \notin answered
  /\ IF parser[h] = "nothing" THEN UNCHANGED <<answered, host>>
     ELSE answered' = Settled({h}) /\ host' = Told({h}, Finish(parser[h]))
  /\ IF throws THEN UNCHANGED <<kind, fds>>
     ELSE kind' = [kind EXCEPT ![h] = "gone"] /\ fds' = fds \ {h}
  /\ UNCHANGED <<next, listening, carrying, unread, parser, stranded>>

CloseConn(h, throws) ==
  /\ h \in Conns \cap fds
  /\ throws => h \notin answered
  /\ answered' = Settled({h})
  /\ host' = Told({h}, Finish(parser[h]))
  /\ IF throws THEN UNCHANGED <<kind, fds>>
     ELSE kind' = [kind EXCEPT ![h] = "gone"] /\ fds' = fds \ {h}
  /\ UNCHANGED <<next, listening, carrying, unread, parser, stranded>>

(* close() of a listener, from its first lines: the port is free.          *)
UnlistenHolding(l) ==  \* mutant: the port stays taken
  /\ l \in Listeners \cap fds
  /\ fds' = fds \ {l}
  /\ UNCHANGED <<next, address, taken, carrying, unread, parser>>

Unlisten(l) ==
  /\ l \in Listeners \cap fds
  /\ taken' = [taken EXCEPT ![address[l]] = None]
  /\ fds' = fds \ {l}
  /\ UNCHANGED <<next, address, carrying, unread, parser>>

Children(l) == {h \in Conns : owner[h] = l}

(* Then every connection it made is told, and the ones nobody accepted are *)
(* dropped, having no descriptor to be closed by.                          *)
CloseListenerKeeping(l) ==  \* mutant: what was never accepted is kept
  /\ Unlisten(l)
  /\ answered' = Settled(Children(l))
  /\ host' = Told(Children(l), "error")
  /\ kind' = [kind EXCEPT ![l] = "gone"]
  /\ pending' = [pending EXCEPT ![l] = <<>>]
  /\ UNCHANGED stranded

CloseListener(l) ==
  /\ Unlisten(l)
  /\ answered' = Settled(Children(l))
  /\ host' = Told(Children(l), "error")
  /\ kind' = [h \in Handle |->
                IF h = l \/ h \in Children(l) \cap Queued(l)
                  THEN "gone" ELSE kind[h]]
  /\ pending' = [pending EXCEPT ![l] = <<>>]
  /\ UNCHANGED stranded

(* The same, when the callback of connection t throws: the exception       *)
(* leaves the loop, and with it close().                                   *)
CloseListenerThrown(l, t) ==
  /\ Unlisten(l)
  /\ t \in Children(l) \ answered
  /\ LET before == {h \in Children(l) : h < t} IN
       /\ answered' = Settled(before \cup {t})
       /\ host' = Told(before \cup {t}, "error")
       /\ kind' = [h \in Handle |-> IF h = l \/ h \in before \cap Queued(l)
                                      THEN "gone" ELSE kind[h]]
       /\ stranded' = stranded \cup (Children(l) \ before)
  /\ UNCHANGED pending

Next == \/ \E a \in Addresses : Listen(a)
        \/ \E r \in Request, a \in Addresses \cup {NoAddress}, parts \in 1..2 :
             Deliver(r, a, parts)
        \/ \E h \in Handle :
             \/ Accept(h)
             \/ Recv(h)
             \/ \E p \in {"part", "toclose"} : SendPart(h, p)
             \/ \E answer \in Answer : SendLast(h, answer)
             \/ \E t \in BOOLEAN : CloseConn(h, t)
             \/ CloseListener(h)
             \/ \E t \in Handle : CloseListenerThrown(h, t)

Spec == Init /\ [][Next]_vars

(* A server that keeps accepting and closes what it accepted: what a guest *)
(* that is a server does, and all this package asks of it.                 *)
Fairness == \A h \in Handle :
              WF_vars(Accept(h)) /\ WF_vars(CloseConn(h, FALSE))
FairSpec == Spec /\ Fairness

-----------------------------------------------------------------------------
TypeOK ==
  /\ next \in 0..Handles
  /\ kind \in [Handle -> {"free", "listener", "conn", "gone"}]
  /\ address \in [Handle -> Addresses]
  /\ pending \in [Handle -> Seq(Handle)]
  /\ taken \in [Addresses -> Handle \cup {None}]
  /\ owner \in [Handle -> Handle \cup {None}]
  /\ request \in [Handle -> Request \cup {None}]
  /\ wanted \in [Request -> Addresses \cup {NoAddress}]
  /\ unread \in [Handle -> 0..2]
  /\ parser \in [Handle -> Parsed]
  /\ answered \subseteq Handle
  /\ fds \subseteq Handle /\ stranded \subseteq Handle
  /\ host \in [Request -> Seq(Answer)]

(* The contract of this half speaks of requests: a server is its listener, *)
(* which began at its handle; a request is held while the guest holds the  *)
(* connection that carries it, and waits while that is nobody's.           *)
Clients ==
  [a \in Addresses |->
     {r \in Request : \E h \in Handle :
        request[h] = r /\ owner[h] = taken[a] /\ taken[a] # None}]
Stage ==
  [r \in Request |->
     IF r \notin Delivered THEN "new"
     ELSE IF \E h \in fds : request[h] = r THEN "held"
     ELSE IF \E h \in Conns : request[h] = r THEN "waiting" ELSE "over"]

Contract == INSTANCE Inbound
              WITH Times <- Handle, since <- taken, asked <- wanted,
                   clients <- Clients, stage <- Stage

(* The handles, queues and answered marks of serve.mjs come to what        *)
(* Inbound promises: each request to the right server, each server's in    *)
(* order, each host told at most once and of every server that stopped.    *)
InboundSpec == Contract!Spec

(* Somebody's close will settle connection h: the guest holds it, or it    *)
(* waits on a listener the guest holds.                                    *)
Reachable(h) == \/ h \in fds
                \/ owner[h] \in Listeners \cap fds /\ h \in Queued(owner[h])

(* A host is never left holding a request nothing will settle: while it    *)
(* waits, a live connection carries its request and somebody still holds a *)
(* descriptor whose close settles it, the connection's own once accepted   *)
(* and its listener's until then.                                          *)
NeverForgotten ==
  \A r \in Owed : \E h \in Conns \ answered :
    request[h] = r /\ (Reachable(h) \/ h \in stranded)

(* The same without the exception for a callback that threw: a listener    *)
(* that goes away settles everything it owes.                              *)
ListenerSettlesAll ==
  \A r \in Owed : \E h \in Conns \ answered : request[h] = r /\ Reachable(h)

(* A port is taken by exactly the listener bound to it: a close frees it   *)
(* and an EADDRINUSE always has a live socket behind it.                   *)
TakenMatches ==
  /\ \A a \in Addresses : taken[a] # None =>
       taken[a] \in Listeners /\ address[taken[a]] = a
  /\ \A l \in Listeners : taken[address[l]] = l

(* A listener's queue is its connections nobody has accepted, oldest       *)
(* first: accept() neither skips one nor hands one out twice.              *)
QueueExact ==
  \A l \in Listeners :
    /\ Queued(l) = {h \in Conns : owner[h] = l /\ h \notin fds}
    /\ \A i, j \in 1..Len(pending[l]) : i < j => pending[l][i] < pending[l][j]

(* No record outlives every way to reach it: a live connection is a        *)
(* descriptor of the guest's or waits on a live listener.                  *)
NoOrphans == \A h \in Conns : Reachable(h) \/ h \in stranded

(* Every request a listener took is answered, if the server keeps          *)
(* accepting and closes what it accepts.                                   *)
EveryHostAnswered ==
  \A r \in Request :
    r \in Delivered ~> (host[r] # <<>> \/ \E h \in stranded : request[h] = r)
=============================================================================
