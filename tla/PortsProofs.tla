---------------------------- MODULE PortsProofs ----------------------------
(***************************************************************************)
(* Machine-checked facts about Ports, for every number of handles and of   *)
(* requests and every set of addresses.  Each part of IInv is preserved by *)
(* every action, one lemma a part; a lemma names the parts it leans on.    *)
(***************************************************************************)
EXTENDS PortsInvariant, TLAPS

(* Every run starts in the invariant. *)
LEMMA Initially == Init => IInv
<1> SUFFICES ASSUME Init PROVE IInv
  OBVIOUS
<1> USE PortsAssumption DEF Init, Handle, Request, None
<1>1. TypeOK
  <2>1. (CHOOSE a \in Addresses : TRUE) \in Addresses
    OBVIOUS
  <2> QED
    BY <2>1 DEF TypeOK, Parsed
<1>2. Allotted
  BY DEF Allotted
<1>3. Carried /\ Unused
  BY DEF Carried, Unused
<1>4. Accounts
  BY DEF Accounts
<1>5. Listeners = {} /\ Conns = {}
  BY DEF Listeners, Conns
<1>6. TakenMatches /\ Held /\ QueueExact
  BY <1>5 DEF TakenMatches, Held, QueueExact
<1>7. InOrder
  BY DEF InOrder, Delivered
<1> QED
  BY <1>1, <1>2, <1>3, <1>4, <1>6, <1>7 DEF IInv

(* Every variable keeps its range: only recv() counts down, and it stops   *)
(* at an empty outbox.                                                     *)
LEMMA TypeStep ==
  ASSUME TypeOK, [Next]_vars
  PROVE  TypeOK'
<1> USE PortsAssumption DEF TypeOK, Handle, Request, None, Parsed, Answer,
                            listening, carrying, serving
<1>1. ASSUME NEW a \in Addresses, Listen(a)
      PROVE  TypeOK'
  BY <1>1 DEF Listen
<1>2. ASSUME NEW r \in Request, NEW a \in Addresses \cup {NoAddress},
             NEW parts \in 1..2, Deliver(r, a, parts)
      PROVE  TypeOK'
  <2>1. PICK l \in Routed(a) :
               /\ next < Handles
               /\ next' = next + 1
               /\ kind' = [kind EXCEPT ![next + 1] = "conn"]
               /\ owner' = [owner EXCEPT ![next + 1] = l]
               /\ request' = [request EXCEPT ![next + 1] = r]
               /\ unread' = [unread EXCEPT ![next + 1] = parts]
               /\ pending' = [pending EXCEPT ![l] = Append(@, next + 1)]
    BY <1>2 DEF Deliver
  <2>2. l \in Handle
    BY DEF Routed, Candidates, Listeners
  <2>3. pending' \in [Handle -> Seq(Handle)]
    BY <2>1, <2>2
  <2> QED
    BY <1>2, <2>1, <2>2, <2>3 DEF Deliver
<1>3. ASSUME NEW h \in Handle, Accept(h)
      PROVE  TypeOK'
  <2>1. Head(pending[h]) \in Handle /\ Tail(pending[h]) \in Seq(Handle)
    BY <1>3 DEF Accept
  <2> QED
    BY <1>3, <2>1 DEF Accept
<1>4. ASSUME NEW h \in Handle, Recv(h)
      PROVE  TypeOK'
  BY <1>4 DEF Recv
<1>5. ASSUME NEW h \in Handle, NEW p \in {"part", "toclose"}, SendPart(h, p)
      PROVE  TypeOK'
  BY <1>5 DEF SendPart
<1>6. ASSUME NEW S \in SUBSET Handle, NEW answer \in Answer
      PROVE  /\ Told(S, answer) \in [Request -> Seq(Answer)]
             /\ Settled(S) \subseteq Handle
  BY <1>6 DEF Told, Settled
<1>7. ASSUME NEW h \in Handle, NEW answer \in Answer, SendLast(h, answer)
      PROVE  TypeOK'
  BY <1>6, <1>7 DEF SendLast
<1>8. ASSUME NEW h \in Handle, NEW t \in BOOLEAN, CloseConn(h, t)
      PROVE  TypeOK'
  <2>1. Finish(parser[h]) \in Answer
    BY DEF Finish
  <2>2. /\ host' \in [Request -> Seq(Answer)] /\ answered' \subseteq Handle
    BY <1>6, <1>8, <2>1 DEF CloseConn
  <2>3. /\ kind' \in [Handle -> {"free", "listener", "conn", "gone"}]
        /\ fds' \subseteq Handle
    BY <1>8 DEF CloseConn
  <2> QED
    BY <1>8, <2>2, <2>3 DEF CloseConn
<1>9. ASSUME NEW h \in Handle, CloseListener(h)
      PROVE  TypeOK'
  <2>1. Children(h) \in SUBSET Handle
    BY DEF Children, Conns
  <2>2. kind' \in [Handle -> {"free", "listener", "conn", "gone"}]
    BY <1>9 DEF CloseListener
  <2>3. /\ host' \in [Request -> Seq(Answer)] /\ answered' \subseteq Handle
    BY <1>6, <1>9, <2>1 DEF CloseListener
  <2>4. pending' \in [Handle -> Seq(Handle)]
    BY <1>9 DEF CloseListener
  <2> QED
    BY <1>9, <2>2, <2>3, <2>4 DEF CloseListener, Unlisten
<1>10. ASSUME NEW h \in Handle, NEW t \in Handle, CloseListenerThrown(h, t)
       PROVE  TypeOK'
  <2> DEFINE before == {k \in Children(h) : k < t}
  <2>1. Children(h) \in SUBSET Handle /\ before \cup {t} \in SUBSET Handle
    BY DEF Children, Conns
  <2> QED
    BY <1>6, <1>10, <2>1 DEF CloseListenerThrown, Unlisten
<1>11. CASE UNCHANGED vars
  BY <1>11 DEF vars
<1> QED
  BY <1>1, <1>2, <1>3, <1>4, <1>5, <1>7, <1>8, <1>9, <1>10, <1>11 DEF Next

(* Handles: listen() and deliver() take the next one, and what is gone     *)
(* stays gone.                                                             *)
LEMMA AllottedStep ==
  ASSUME TypeOK, Allotted, [Next]_vars
  PROVE  Allotted'
<1> USE PortsAssumption DEF TypeOK, Allotted, Handle, Request, None,
                            listening, carrying, serving, Listeners, Conns, Unlisten
<1>1. ASSUME NEW a \in Addresses, Listen(a)
      PROVE  Allotted'
  BY <1>1 DEF Listen
<1>2. ASSUME NEW r \in Request, NEW a \in Addresses \cup {NoAddress},
             NEW parts \in 1..2, Deliver(r, a, parts)
      PROVE  Allotted'
  BY <1>2 DEF Deliver
<1>3. ASSUME NEW h \in Handle, Accept(h)
      PROVE  Allotted'
  BY <1>3 DEF Accept
<1>4. ASSUME NEW h \in Handle, Recv(h)
      PROVE  Allotted'
  BY <1>4 DEF Recv
<1>5. ASSUME NEW h \in Handle, NEW p \in {"part", "toclose"}, SendPart(h, p)
      PROVE  Allotted'
  BY <1>5 DEF SendPart
<1>6. ASSUME NEW h \in Handle, NEW answer \in Answer, SendLast(h, answer)
      PROVE  Allotted'
  BY <1>6 DEF SendLast
<1>7. ASSUME NEW h \in Handle, NEW t \in BOOLEAN, CloseConn(h, t)
      PROVE  Allotted'
  BY <1>7 DEF CloseConn
<1>8. ASSUME NEW h \in Handle, CloseListener(h)
      PROVE  Allotted'
  BY <1>8 DEF CloseListener, Children
<1>9. ASSUME NEW h \in Handle, NEW t \in Handle, CloseListenerThrown(h, t)
      PROVE  Allotted'
  BY <1>9 DEF CloseListenerThrown, Children
<1>10. CASE UNCHANGED vars
  BY <1>10 DEF vars
<1> QED
  BY <1>1, <1>2, <1>3, <1>4, <1>5, <1>6, <1>7, <1>8, <1>9, <1>10 DEF Next

(* Settling live connections keeps the accounts: a callback runs for each  *)
(* of them that has not been answered, and a request is on one handle.     *)
LEMMA SettlingKeepsAccounts ==
  ASSUME TypeOK, Carried, Accounts,
         NEW S \in SUBSET Handle, NEW answer \in Answer,
         \A h \in S : request[h] # None,
         answered' = Settled(S), host' = Told(S, answer),
         UNCHANGED request
  PROVE  Accounts'
<1> USE DEF TypeOK, Handle, Request, None
<1>1. ASSUME NEW h \in Handle, request[h] # None
      PROVE  Len(host'[request[h]]) = IF h \in answered' THEN 1 ELSE 0
  <2>1. (\E k \in S \ answered : request[k] = request[h])
          <=> h \in S \ answered
    BY <1>1 DEF Carried
  <2>2. host'[request[h]] = IF h \in S \ answered
                              THEN Append(host[request[h]], answer)
                              ELSE host[request[h]]
    BY <1>1, <2>1 DEF Told
  <2>3. Len(host[request[h]]) = IF h \in answered THEN 1 ELSE 0
    BY <1>1 DEF Accounts
  <2>4. host[request[h]] \in Seq(Answer)
    BY <1>1
  <2>5. Len(Append(host[request[h]], answer)) = Len(host[request[h]]) + 1
    BY <2>4
  <2> QED
    BY <2>2, <2>3, <2>5 DEF Settled
<1>2. ASSUME NEW r \in Request \ Delivered
      PROVE  host'[r] = <<>>
  BY <1>2 DEF Told, Accounts, Delivered
<1> QED
  BY <1>1, <1>2 DEF Accounts, Delivered

(* A request is carried by the handle deliver() gave it, and a connection  *)
(* is dropped only once its host has been told.                            *)
LEMMA CarriedStep ==
  ASSUME TypeOK, Allotted, Carried, [Next]_vars
  PROVE  Carried'
<1> USE PortsAssumption DEF TypeOK, Carried, Handle, Request, None,
                            listening, carrying, serving, Listeners, Conns, Unlisten,
                            Settled
<1>1. ASSUME NEW a \in Addresses, Listen(a)
      PROVE  Carried'
  BY <1>1 DEF Listen, Allotted
<1>2. ASSUME NEW r \in Request, NEW a \in Addresses \cup {NoAddress},
             NEW parts \in 1..2, Deliver(r, a, parts)
      PROVE  Carried'
  <2>1. /\ next + 1 \in Handle /\ request' = [request EXCEPT ![next + 1] = r]
        /\ kind' = [kind EXCEPT ![next + 1] = "conn"] /\ answered' = answered
    BY <1>2 DEF Deliver
  <2>2. \A h \in Handle : request[h] # r
    BY <1>2 DEF Deliver, Delivered
  <2> QED
    BY <2>1, <2>2
<1>3. ASSUME NEW h \in Handle, Accept(h)
      PROVE  Carried'
  BY <1>3 DEF Accept
<1>4. ASSUME NEW h \in Handle, Recv(h)
      PROVE  Carried'
  BY <1>4 DEF Recv
<1>5. ASSUME NEW h \in Handle, NEW p \in {"part", "toclose"}, SendPart(h, p)
      PROVE  Carried'
  BY <1>5 DEF SendPart
<1>6. ASSUME NEW h \in Handle, NEW answer \in Answer, SendLast(h, answer)
      PROVE  Carried'
  BY <1>6 DEF SendLast, Allotted
<1>7. ASSUME NEW h \in Handle, NEW t \in BOOLEAN, CloseConn(h, t)
      PROVE  Carried'
  BY <1>7 DEF CloseConn, Allotted
<1>8. ASSUME NEW h \in Handle, CloseListener(h)
      PROVE  Carried'
  BY <1>8 DEF CloseListener, Children, Allotted
<1>9. ASSUME NEW h \in Handle, NEW t \in Handle, CloseListenerThrown(h, t)
      PROVE  Carried'
  BY <1>9 DEF CloseListenerThrown, Children, Allotted
<1>10. CASE UNCHANGED vars
  BY <1>10 DEF vars
<1> QED
  BY <1>1, <1>2, <1>3, <1>4, <1>5, <1>6, <1>7, <1>8, <1>9, <1>10 DEF Next

(* Every path that answers goes through settle(). *)
LEMMA AccountsStep ==
  ASSUME TypeOK, Allotted, Carried, Accounts, [Next]_vars
  PROVE  Accounts'
<1> USE PortsAssumption DEF Handle, Request, None
<1>1. ASSUME UNCHANGED <<request, answered, host>>
      PROVE  Accounts'
  BY <1>1 DEF Accounts, Delivered
<1>2. ASSUME NEW r \in Request, NEW a \in Addresses \cup {NoAddress},
             NEW parts \in 1..2, Deliver(r, a, parts)
      PROVE  Accounts'
  <2>1. /\ next + 1 \in Handle /\ next \in Nat
        /\ request' = [request EXCEPT ![next + 1] = r]
        /\ host' = host /\ answered' = answered /\ r \notin Delivered
    BY <1>2 DEF Deliver, TypeOK
  <2>2. request[next + 1] = None /\ next + 1 \notin answered
    BY <2>1 DEF Allotted, Carried, TypeOK
  <2>3. host[r] = <<>> /\ Len(host[r]) = 0
    BY <2>1 DEF Accounts
  <2>4. Delivered' = Delivered \cup {r}
    BY <2>1, <2>2 DEF Delivered, TypeOK
  <2> QED
    BY <2>1, <2>2, <2>3, <2>4 DEF Accounts, TypeOK
<1>3. ASSUME NEW h \in Handle, NEW answer \in Answer, SendLast(h, answer)
      PROVE  Accounts'
  <2>1. request[h] # None
    BY <1>3 DEF SendLast, Allotted, Conns
  <2> QED
    BY <1>3, <2>1, SettlingKeepsAccounts DEF SendLast, carrying
<1>4. ASSUME NEW h \in Handle, NEW t \in BOOLEAN, CloseConn(h, t)
      PROVE  Accounts'
  <2>1. request[h] # None
    BY <1>4 DEF CloseConn, Allotted, Conns
  <2>2. Finish(parser[h]) \in Answer
    BY DEF Finish, Answer
  <2> QED
    BY <1>4, <2>1, <2>2, SettlingKeepsAccounts DEF CloseConn, carrying
<1>5. \A l \in Handle : /\ Children(l) \in SUBSET Handle
                        /\ \A h \in Children(l) : request[h] # None
  BY DEF Children, Conns, Allotted
<1>6. "error" \in Answer
  BY DEF Answer
<1>7. ASSUME NEW h \in Handle, CloseListener(h)
      PROVE  Accounts'
  BY <1>5, <1>6, <1>7, SettlingKeepsAccounts DEF CloseListener, Unlisten, carrying
<1>8. ASSUME NEW h \in Handle, NEW t \in Handle, CloseListenerThrown(h, t)
      PROVE  Accounts'
  <2> DEFINE S == {k \in Children(h) : k < t} \cup {t}
  <2>1. S \in SUBSET Handle /\ \A k \in S : request[k] # None
    BY <1>5, <1>8 DEF CloseListenerThrown
  <2>2. /\ answered' = Settled(S) /\ host' = Told(S, "error")
        /\ UNCHANGED request
    BY <1>8 DEF CloseListenerThrown, Unlisten, carrying
  <2> HIDE DEF S
  <2> QED
    BY <1>6, <2>1, <2>2, SettlingKeepsAccounts
<1> QED
  BY <1>1, <1>2, <1>3, <1>4, <1>7, <1>8
     DEF Next, vars, carrying, serving, listening, Listen, Accept, Recv, SendPart

(* The two tables change together: listen() takes an address nobody has,   *)
(* and the close of a listener frees its own.                              *)
LEMMA TakenStep ==
  ASSUME TypeOK, Allotted, TakenMatches, [Next]_vars
  PROVE  TakenMatches'
<1> USE PortsAssumption DEF TypeOK, TakenMatches, Handle, None, Listeners
<1>1. ASSUME NEW a \in Addresses, Listen(a)
      PROVE  TakenMatches'
  <2>1. /\ next + 1 \in Handle /\ next + 1 # None /\ taken[a] = None
        /\ kind' = [kind EXCEPT ![next + 1] = "listener"]
        /\ address' = [address EXCEPT ![next + 1] = a]
        /\ taken' = [taken EXCEPT ![a] = next + 1]
    BY <1>1 DEF Listen
  <2>4. kind[next + 1] # "listener"
    BY <2>1 DEF Allotted
  <2>2. Listeners' = Listeners \cup {next + 1}
    BY <2>1
  <2>3. \A l \in Listeners : address'[l] = address[l] /\ address[l] # a
    <3> SUFFICES ASSUME NEW l \in Listeners
                 PROVE  address'[l] = address[l] /\ address[l] # a
      OBVIOUS
    <3>1. l \in Handle /\ l # None /\ kind[l] = "listener"
      OBVIOUS
    <3>4. l # next + 1
      BY <2>4, <3>1
    <3>2. taken[address[l]] = l
      BY DEF TakenMatches
    <3> QED
      BY <2>1, <3>1, <3>2, <3>4
  <2> QED
    BY <2>1, <2>2, <2>3
<1>2. ASSUME NEW h \in Handle, Unlisten(h), kind'[h] = "gone",
             \A k \in Handle \ {h} : (kind'[k] = "listener") <=>
                                     (kind[k] = "listener")
      PROVE  TakenMatches'
  BY <1>2 DEF Unlisten
<1>3. ASSUME UNCHANGED <<taken, address>>, Listeners' = Listeners
      PROVE  TakenMatches'
  BY <1>3
<1>4. ASSUME NEW r \in Request, NEW a \in Addresses \cup {NoAddress},
             NEW parts \in 1..2, Deliver(r, a, parts)
      PROVE  TakenMatches'
  BY <1>3, <1>4 DEF Deliver, Allotted
<1>5. ASSUME NEW h \in Handle, NEW t \in BOOLEAN, CloseConn(h, t)
      PROVE  TakenMatches'
  <2>1. Listeners' = Listeners
    BY <1>5 DEF CloseConn, Conns
  <2> QED
    BY <1>3, <1>5, <2>1 DEF CloseConn, listening
<1>6. ASSUME NEW h \in Handle, CloseListener(h)
      PROVE  TakenMatches'
  BY <1>2, <1>6 DEF CloseListener, Children, Conns
<1>7. ASSUME NEW h \in Handle, NEW t \in Handle, CloseListenerThrown(h, t)
      PROVE  TakenMatches'
  BY <1>2, <1>7 DEF CloseListenerThrown, Children, Conns
<1>8. ASSUME UNCHANGED <<taken, address, kind>>
      PROVE  TakenMatches'
  BY <1>3, <1>8
<1>9. ASSUME NEW h \in Handle, Accept(h) \/ Recv(h)
      PROVE  TakenMatches'
  BY <1>8, <1>9 DEF Accept, Recv, listening
<1>10. ASSUME NEW h \in Handle, NEW p \in {"part", "toclose"},
              NEW answer \in Answer, SendPart(h, p) \/ SendLast(h, answer)
       PROVE  TakenMatches'
  BY <1>8, <1>10 DEF SendPart, SendLast, listening
<1>11. CASE UNCHANGED vars
  BY <1>8, <1>11 DEF vars, listening
<1> QED
  <2>1. "part" \in {"part", "toclose"} /\ "error" \in Answer
    BY DEF Answer
  <2> QED
    BY <1>1, <1>4, <1>5, <1>6, <1>7, <1>9, <1>10, <1>11, <2>1 DEF Next

(* A connection the guest does not hold waits on a listener it does, until *)
(* one of its own callbacks throws: closing the listener drops what is on  *)
(* its queue, and the queue holds all of them.                             *)
LEMMA HeldStep ==
  ASSUME TypeOK, Allotted, TakenMatches, Held, QueueExact, [Next]_vars
  PROVE  Held'
<1> USE PortsAssumption DEF TypeOK, Held, Handle, None, Listeners, Conns,
                            listening, carrying, serving
<1>0. ASSUME UNCHANGED <<kind, owner, fds, stranded>>
      PROVE  Held'
  BY <1>0
<1>1. ASSUME NEW a \in Addresses, Listen(a)
      PROVE  Held'
  BY <1>1 DEF Listen, Allotted
<1>2. ASSUME NEW r \in Request, NEW a \in Addresses \cup {NoAddress},
             NEW parts \in 1..2, Deliver(r, a, parts)
      PROVE  Held'
  <2>1. PICK l \in Routed(a) :
               /\ next < Handles
               /\ kind' = [kind EXCEPT ![next + 1] = "conn"]
               /\ owner' = [owner EXCEPT ![next + 1] = l]
    BY <1>2 DEF Deliver
  <2>2. l \in Listeners
    BY DEF Routed, Candidates, TakenMatches
  <2> QED
    BY <1>2, <2>1, <2>2 DEF Deliver, Allotted
<1>3. ASSUME NEW h \in Handle, Accept(h)
      PROVE  Held'
  <2>1. /\ h \in Listeners /\ 1 \in 1..Len(pending[h])
        /\ Head(pending[h]) = pending[h][1]
    BY <1>3 DEF Accept
  <2>3. Head(pending[h]) \in Queued(h)
    BY <2>1 DEF Queued
  <2>2. Head(pending[h]) \in Conns
    BY <2>1, <2>3 DEF QueueExact
  <2> QED
    BY <1>3, <2>2 DEF Accept
<1>4. ASSUME NEW h \in Handle, NEW t \in BOOLEAN, CloseConn(h, t)
      PROVE  Held'
  <2>1. CASE t
    BY <1>4, <2>1, <1>0 DEF CloseConn
  <2>2. CASE ~t
    <3>1. Conns' = Conns \ {h} /\ Listeners' = Listeners /\ fds' = fds \ {h}
      BY <1>4, <2>2 DEF CloseConn
    <3> QED
      BY <1>4, <3>1 DEF CloseConn
  <2> QED
    BY <2>1, <2>2
<1>5. ASSUME NEW h \in Handle, CloseListener(h)
      PROVE  Held'
  <2>1. \A c \in Conns \ fds : owner[c] = h => c \in Children(h) \cap Queued(h)
    BY <1>5 DEF CloseListener, Unlisten, QueueExact, Children
  <2> QED
    BY <1>5, <2>1 DEF CloseListener, Unlisten, Children, QueueExact
<1>6. ASSUME NEW h \in Handle, NEW t \in Handle, CloseListenerThrown(h, t)
      PROVE  Held'
  <2>1. \A c \in Conns \ fds : owner[c] = h => c \in Children(h) \cap Queued(h)
    BY <1>6 DEF CloseListenerThrown, Unlisten, QueueExact, Children
  <2>2. \A c \in Queued(h) : c \notin fds
    BY <1>6 DEF CloseListenerThrown, Unlisten, QueueExact
  <2> QED
    BY <1>6, <2>1, <2>2 DEF CloseListenerThrown, Unlisten, Children
<1>7. ASSUME NEW h \in Handle, NEW p \in {"part", "toclose"},
             NEW answer \in Answer,
             Recv(h) \/ SendPart(h, p) \/ SendLast(h, answer)
      PROVE  Held'
  BY <1>0, <1>7 DEF Recv, SendPart, SendLast
<1>8. CASE UNCHANGED vars
  BY <1>0, <1>8 DEF vars
<1> QED
  <2>1. "part" \in {"part", "toclose"} /\ "error" \in Answer
    BY DEF Answer
  <2> QED
    BY <1>1, <1>2, <1>3, <1>4, <1>5, <1>6, <1>7, <1>8, <2>1 DEF Next

(* The listener a request is routed to is one. *)
LEMMA RoutedListens ==
  ASSUME TypeOK, TakenMatches, NEW a \in Addresses \cup {NoAddress},
         NEW l \in Routed(a)
  PROVE  l \in Listeners
BY PortsAssumption DEF TypeOK, Routed, Candidates, TakenMatches, Listeners

(* Only the handle given out gets an owner or a queue entry. *)
LEMMA UnusedStep ==
  ASSUME TypeOK, Allotted, TakenMatches, Unused, [Next]_vars
  PROVE  Unused'
<1> USE PortsAssumption DEF TypeOK, Unused, Handle, None
<1>1. ASSUME NEW a \in Addresses, Listen(a)
      PROVE  Unused'
  <2>1. next' = next + 1 /\ UNCHANGED <<owner, pending>>
    BY <1>1 DEF Listen, carrying, serving
  <2>2. next \in Int /\ \A h \in Handle : h \in Int /\ owner[h] \in Int
    OBVIOUS
  <2> QED
    BY <2>1, <2>2
<1>2. ASSUME NEW r \in Request, NEW a \in Addresses \cup {NoAddress},
             NEW parts \in 1..2, Deliver(r, a, parts)
      PROVE  Unused'
  <2>1. PICK l \in Routed(a) :
               /\ next < Handles /\ next' = next + 1
               /\ owner' = [owner EXCEPT ![next + 1] = l]
               /\ pending' = [pending EXCEPT ![l] = Append(@, next + 1)]
    BY <1>2 DEF Deliver
  <2>2. l \in Handle /\ kind[l] = "listener"
    BY RoutedListens DEF Listeners
  <2>3. l <= next
    BY <2>2 DEF Allotted
  <2>4. next \in Int /\ \A h \in Handle : h \in Int /\ owner[h] \in Int
    OBVIOUS
  <2>5. ASSUME NEW h \in Handle
        PROVE  /\ owner'[h] <= next + 1
               /\ h > next + 1 => pending'[h] = <<>>
    <3>1. /\ l \in Int /\ h \in Int /\ owner[h] \in Int /\ next \in Int
          /\ owner[h] <= next /\ (h > next => pending[h] = <<>>)
      BY <2>2, <2>4
    <3>2. owner'[h] = IF h = next + 1 THEN l ELSE owner[h]
      BY <2>1
    <3>3. h # l => pending'[h] = pending[h]
      BY <2>1
    <3> HIDE DEF Handle, TypeOK, Unused
    <3> QED
      BY <2>3, <3>1, <3>2, <3>3
  <2> QED
    BY <2>1, <2>5
<1>3. ASSUME NEW h \in Handle, Accept(h)
      PROVE  Unused'
  <2>1. h <= next
    BY <1>3 DEF Accept, Listeners, Allotted
  <2> QED
    BY <1>3, <2>1 DEF Accept, carrying, serving
<1>4. ASSUME UNCHANGED <<next, owner, pending>>
      PROVE  Unused'
  BY <1>4
<1>5. ASSUME NEW h \in Handle, NEW t \in BOOLEAN, NEW k \in Handle,
             NEW p \in {"part", "toclose"}, NEW answer \in Answer,
             \/ Recv(h) \/ SendPart(h, p) \/ SendLast(h, answer)
             \/ CloseConn(h, t) \/ CloseListenerThrown(h, k)
      PROVE  Unused'
  BY <1>4, <1>5 DEF Recv, SendPart, SendLast, CloseConn, CloseListenerThrown,
                    Unlisten, listening, carrying
<1>6. ASSUME NEW h \in Handle, CloseListener(h)
      PROVE  Unused'
  BY <1>6 DEF CloseListener, Unlisten, carrying
<1>7. CASE UNCHANGED vars
  BY <1>4, <1>7 DEF vars, carrying, serving, listening
<1> QED
  <2>1. "part" \in {"part", "toclose"} /\ "error" \in Answer /\ TRUE \in BOOLEAN
    BY DEF Answer
  <2> QED
    BY <1>1, <1>2, <1>3, <1>5, <1>6, <1>7, <2>1 DEF Next

(* What a queue in order holds after one more, or one less. *)
LEMMA AppendHolds ==
  ASSUME NEW s \in Seq(Handle), NEW e \in Handle
  PROVE  {Append(s, e)[i] : i \in 1..Len(Append(s, e))}
           = {s[i] : i \in 1..Len(s)} \cup {e}
<1>1. /\ Len(Append(s, e)) = Len(s) + 1 /\ Append(s, e)[Len(s) + 1] = e
      /\ \A i \in 1..Len(s) : Append(s, e)[i] = s[i]
  OBVIOUS
<1>2. 1..Len(s) + 1 = 1..Len(s) \cup {Len(s) + 1}
  OBVIOUS
<1> QED
  BY <1>1, <1>2

(* What accept() leaves of a queue in order is the rest, in order. *)
LEMMA TailHolds ==
  ASSUME NEW s \in Seq(Handle), s # <<>>,
         \A i, j \in 1..Len(s) : i < j => s[i] < s[j]
  PROVE  /\ {Tail(s)[i] : i \in 1..Len(Tail(s))}
              = {s[i] : i \in 1..Len(s)} \ {Head(s)}
         /\ \A i, j \in 1..Len(Tail(s)) : i < j => Tail(s)[i] < Tail(s)[j]
<1>1. /\ Len(s) \in Nat /\ Len(s) >= 1 /\ Len(Tail(s)) = Len(s) - 1
      /\ Head(s) = s[1]
      /\ \A i \in 1..Len(Tail(s)) : Tail(s)[i] = s[i + 1]
  OBVIOUS
<1>2. \A i \in 1..Len(s) : s[i] \in Int
  <2>1. \A i \in 1..Len(s) : s[i] \in Handle
    OBVIOUS
  <2> QED
    BY <2>1, PortsAssumption DEF Handle
<1>3. \A i \in 2..Len(s) : s[i] # s[1]
  BY <1>1, <1>2
<1>4. {Tail(s)[i] : i \in 1..Len(Tail(s))} = {s[i] : i \in 2..Len(s)}
  <2>1. \A i \in 2..Len(s) : i - 1 \in 1..Len(Tail(s)) /\ Tail(s)[i - 1] = s[i]
    BY <1>1
  <2> QED
    BY <1>1, <2>1
<1>5. 1..Len(s) = 2..Len(s) \cup {1}
  BY <1>1
<1>6. {s[i] : i \in 1..Len(s)} \ {Head(s)} = {s[i] : i \in 2..Len(s)}
  BY <1>1, <1>3, <1>5
<1>7. ASSUME NEW i \in 1..Len(Tail(s)), NEW j \in 1..Len(Tail(s)), i < j
      PROVE  Tail(s)[i] < Tail(s)[j]
  <2>1. i + 1 \in 1..Len(s) /\ j + 1 \in 1..Len(s) /\ i + 1 < j + 1
    BY <1>1, <1>7
  <2> QED
    BY <1>1, <2>1
<1> QED
  BY <1>4, <1>6, <1>7

(* A queue is what its listener has that the guest does not hold, oldest   *)
(* first: deliver() adds the newest, accept() moves the oldest.            *)
Unheld(l) == {h \in Conns : owner[h] = l /\ h \notin fds}
QueueFits(l) ==
  /\ Queued(l) = Unheld(l)
  /\ \A i, j \in 1..Len(pending[l]) : i < j => pending[l][i] < pending[l][j]

(* Every step keeps each queue the handles its listener still holds. *)
LEMMA QueueStep ==
  ASSUME TypeOK, Allotted, Unused, TakenMatches, Held, QueueExact, [Next]_vars
  PROVE  QueueExact'
<1>0. \A l \in Listeners : QueueFits(l)
  BY DEF QueueExact, QueueFits, Unheld
<1>1. SUFFICES ASSUME NEW l \in Listeners'
               PROVE  QueueFits(l)'
  BY DEF QueueExact, QueueFits, Unheld
<1>2. l \in Handle /\ kind'[l] = "listener"
  BY DEF Listeners
<1> USE DEF TypeOK
<1>3. ASSUME l \in Listeners, pending'[l] = pending[l], UNCHANGED owner,
             \A h \in Handle : owner[h] = l =>
               /\ (kind'[h] = "conn") <=> (kind[h] = "conn")
               /\ kind[h] = "conn" => (h \in fds' <=> h \in fds)
      PROVE  QueueFits(l)'
  <2>1. Queued(l)' = Queued(l)
    BY <1>3 DEF Queued
  <2>2. Unheld(l)' = Unheld(l)
    BY <1>3 DEF Unheld, Conns
  <2> QED
    BY <1>0, <1>3, <2>1, <2>2 DEF QueueFits
<1>4. ASSUME NEW a \in Addresses, Listen(a)
      PROVE  QueueFits(l)'
  <2>1. /\ next + 1 \in Handle /\ next \in Int /\ UNCHANGED <<pending, owner>>
        /\ kind' = [kind EXCEPT ![next + 1] = "listener"]
        /\ fds' = fds \cup {next + 1}
    BY <1>4, PortsAssumption DEF Listen, Handle, carrying, serving
  <2>2. kind[next + 1] = "free" /\ pending[next + 1] = <<>>
    BY <2>1 DEF Allotted, Unused
  <2>3. \A h \in Handle : owner[h] # next + 1
    <3>1. \A h \in Handle : owner[h] \in Int /\ owner[h] <= next
      BY PortsAssumption DEF Unused, Handle, None
    <3> QED
      BY <2>1, <3>1
  <2>4. CASE l = next + 1
    <3>1. Queued(l)' = {} /\ Unheld(l)' = {}
      BY <2>1, <2>2, <2>3, <2>4 DEF Queued, Unheld, Conns
    <3>2. pending'[l] = <<>> /\ 1..Len(pending'[l]) = {}
      BY <2>1, <2>2, <2>4
    <3> QED
      BY <3>1, <3>2 DEF QueueFits
  <2>5. CASE l # next + 1
    <3>1. l \in Listeners
      BY <1>2, <2>1, <2>5 DEF Listeners
    <3>2. \A h \in Handle : /\ (kind'[h] = "conn") <=> (kind[h] = "conn")
                            /\ kind[h] = "conn" => (h \in fds' <=> h \in fds)
      BY <2>1, <2>2
    <3> QED
      BY <1>3, <2>1, <3>1, <3>2
  <2> QED
    BY <2>4, <2>5
<1>5. ASSUME NEW r \in Request, NEW a \in Addresses \cup {NoAddress},
             NEW parts \in 1..2, Deliver(r, a, parts)
      PROVE  QueueFits(l)'
  <2>1. PICK m \in Routed(a) :
               /\ next < Handles
               /\ kind' = [kind EXCEPT ![next + 1] = "conn"]
               /\ owner' = [owner EXCEPT ![next + 1] = m]
               /\ pending' = [pending EXCEPT ![m] = Append(@, next + 1)]
    BY <1>5 DEF Deliver
  <2>2. m \in Listeners /\ m \in Handle
    BY RoutedListens DEF Listeners
  <2>3. /\ next + 1 \in Handle /\ next \in Int /\ fds' = fds
        /\ kind[next + 1] = "free"
    BY <1>5, <2>1, PortsAssumption DEF Deliver, Handle, Allotted
  <2>4. next + 1 \notin fds /\ next + 1 \notin Conns
    BY <2>3 DEF Held, Listeners, Conns
  <2>5. l \in Listeners /\ QueueFits(l)
    BY <1>0, <1>2, <2>1, <2>3 DEF Listeners
  <2>6. Conns' = Conns \cup {next + 1}
    BY <2>1, <2>3 DEF Conns
  <2>7. CASE l # m
    <3>1. pending'[l] = pending[l]
      BY <1>2, <2>1, <2>7
    <3>2. \A h \in Conns : owner'[h] = owner[h]
      BY <2>1, <2>4 DEF Conns
    <3>3. owner'[next + 1] # l
      BY <2>1, <2>3, <2>7
    <3>4. Queued(l)' = Queued(l)
      BY <3>1 DEF Queued
    <3>5. Unheld(l)' = Unheld(l)
      BY <2>3, <2>6, <3>2, <3>3 DEF Unheld
    <3> QED
      BY <2>5, <3>1, <3>4, <3>5 DEF QueueFits
  <2>8. CASE l = m
    <3>1. pending'[l] = Append(pending[l], next + 1) /\ pending[l] \in Seq(Handle)
      BY <1>2, <2>1, <2>8
    <3>2. Queued(l)' = Queued(l) \cup {next + 1}
      <4>1. {Append(pending[l], next + 1)[i] :
               i \in 1..Len(Append(pending[l], next + 1))}
              = {pending[l][i] : i \in 1..Len(pending[l])} \cup {next + 1}
        BY <2>3, <3>1, AppendHolds
      <4> QED
        BY <3>1, <4>1 DEF Queued
    <3>3. \A h \in Conns : owner'[h] = owner[h]
      BY <2>1, <2>4 DEF Conns
    <3>4. owner'[next + 1] = l
      BY <2>1, <2>3, <2>8
    <3>5. \A i \in 1..Len(pending[l]) : pending[l][i] < next + 1
      <4>1. \A i \in 1..Len(pending[l]) : pending[l][i] \in Conns
        BY <2>5 DEF QueueFits, Queued, Unheld
      <4>2. \A h \in Conns : h \in Int /\ ~ (h > next)
        BY PortsAssumption DEF Conns, Allotted, Handle
      <4> QED
        BY <2>3, <4>1, <4>2
    <3>6. ASSUME NEW i \in 1..Len(pending'[l]), NEW j \in 1..Len(pending'[l]),
                 i < j
          PROVE  pending'[l][i] < pending'[l][j]
      BY <2>5, <3>1, <3>5, <3>6 DEF QueueFits
    <3>7. Unheld(l)' = Unheld(l) \cup {next + 1}
      BY <2>3, <2>4, <2>6, <3>3, <3>4 DEF Unheld
    <3> QED
      BY <2>5, <3>2, <3>6, <3>7 DEF QueueFits
  <2> QED
    BY <2>7, <2>8
<1>6. ASSUME NEW m \in Handle, Accept(m)
      PROVE  QueueFits(l)'
  <2>1. /\ m \in Listeners /\ pending[m] # <<>>
        /\ pending' = [pending EXCEPT ![m] = Tail(@)]
        /\ fds' = fds \cup {Head(pending[m])}
        /\ UNCHANGED <<kind, owner>>
    BY <1>6 DEF Accept, carrying, serving
  <2>2. /\ l \in Listeners /\ QueueFits(l) /\ QueueFits(m)
        /\ pending[m] \in Seq(Handle)
    BY <1>0, <1>2, <2>1 DEF Listeners
  <2>3. /\ 1 \in 1..Len(pending[m]) /\ Head(pending[m]) = pending[m][1]
    BY <2>1, <2>2
  <2>4. Head(pending[m]) \in Queued(m)
    BY <2>3 DEF Queued
  <2>5. Head(pending[m]) \in Conns /\ owner[Head(pending[m])] = m
    BY <2>2, <2>4 DEF QueueFits, Unheld
  <2>6. CASE l # m
    BY <1>2, <1>3, <2>1, <2>2, <2>5, <2>6
  <2>7. CASE l = m
    <3>1. pending'[l] = Tail(pending[l])
      BY <1>2, <2>1, <2>7
    <3>2. /\ Queued(l)' = Queued(l) \ {Head(pending[l])}
          /\ \A i, j \in 1..Len(pending'[l]) :
               i < j => pending'[l][i] < pending'[l][j]
      <4>1. /\ {Tail(pending[l])[i] : i \in 1..Len(Tail(pending[l]))}
                  = {pending[l][i] : i \in 1..Len(pending[l])}
                      \ {Head(pending[l])}
            /\ \A i, j \in 1..Len(Tail(pending[l])) :
                 i < j => Tail(pending[l])[i] < Tail(pending[l])[j]
        BY <2>1, <2>2, <2>7, TailHolds DEF QueueFits
      <4> QED
        BY <3>1, <4>1 DEF Queued
    <3>3. Unheld(l)' = Unheld(l) \ {Head(pending[l])}
      BY <2>1, <2>7 DEF Unheld, Conns
    <3> QED
      BY <2>2, <3>2, <3>3 DEF QueueFits
  <2> QED
    BY <2>6, <2>7
<1>7. ASSUME UNCHANGED <<kind, owner, pending, fds>>
      PROVE  QueueFits(l)'
  BY <1>2, <1>3, <1>7 DEF Listeners
<1>8. ASSUME NEW h \in Handle, NEW p \in {"part", "toclose"},
             NEW answer \in Answer,
             Recv(h) \/ SendPart(h, p) \/ SendLast(h, answer)
      PROVE  QueueFits(l)'
  BY <1>7, <1>8 DEF Recv, SendPart, SendLast, listening, carrying
<1>9. ASSUME NEW h \in Handle, NEW t \in BOOLEAN, CloseConn(h, t)
      PROVE  QueueFits(l)'
  <2>1. CASE t
    BY <1>7, <1>9, <2>1 DEF CloseConn, listening, carrying
  <2>2. CASE ~t
    <3>1. /\ h \in fds /\ kind[h] = "conn" /\ UNCHANGED <<owner, pending>>
          /\ kind' = [kind EXCEPT ![h] = "gone"] /\ fds' = fds \ {h}
      BY <1>9, <2>2 DEF CloseConn, listening, Conns, carrying
    <3>2. l \in Listeners /\ QueueFits(l)
      BY <1>0, <1>2, <3>1 DEF Listeners
    <3>3. Queued(l)' = Queued(l) /\ Unheld(l)' = Unheld(l)
      BY <3>1 DEF Queued, Unheld, Conns
    <3> QED
      BY <3>1, <3>2, <3>3 DEF QueueFits
  <2> QED
    BY <2>1, <2>2
<1>10. ASSUME NEW m \in Handle, kind'[m] = "gone", fds' = fds \ {m},
              m \in Listeners, UNCHANGED owner,
              \A h \in Handle \ {m} : pending'[h] = pending[h],
              \A h \in Handle : owner[h] # m /\ h # m => kind'[h] = kind[h]
       PROVE  l \in Listeners => QueueFits(l)'
  <2>1. l # m
    BY <1>2, <1>10
  <2>2. kind[m] = "listener"
    BY <1>10 DEF Listeners
  <2>3. ASSUME l \in Listeners
        PROVE  QueueFits(l)'
    <3>1. Queued(l)' = Queued(l) /\ pending'[l] = pending[l]
      BY <1>2, <1>10, <2>1 DEF Queued
    <3>2. Unheld(l)' = Unheld(l)
      BY <1>10, <2>1, <2>2 DEF Unheld, Conns
    <3> QED
      BY <1>0, <2>3, <3>1, <3>2 DEF QueueFits
  <2> QED
    BY <2>3
<1>11. ASSUME NEW m \in Handle, CloseListener(m)
       PROVE  QueueFits(l)'
  <2>1. l \in Listeners
    BY <1>2, <1>11 DEF CloseListener, Listeners
  <2> QED
    BY <1>10, <1>11, <2>1 DEF CloseListener, Unlisten, Children, carrying
<1>12. ASSUME NEW m \in Handle, NEW t \in Handle, CloseListenerThrown(m, t)
       PROVE  QueueFits(l)'
  <2>1. l \in Listeners
    BY <1>2, <1>12 DEF CloseListenerThrown, Listeners
  <2> QED
    BY <1>10, <1>12, <2>1 DEF CloseListenerThrown, Unlisten, Children, carrying
<1>13. CASE UNCHANGED vars
  BY <1>7, <1>13 DEF vars, listening, carrying, serving
<1> QED
  <2>1. "part" \in {"part", "toclose"} /\ "error" \in Answer
    BY DEF Answer
  <2> QED
    BY <1>4, <1>5, <1>6, <1>8, <1>9, <1>11, <1>12, <1>13, <2>1 DEF Next

(* deliver() gives the next request the next handle. *)
LEMMA OrderStep ==
  ASSUME TypeOK, Allotted, Carried, InOrder, [Next]_vars
  PROVE  InOrder'
<1> USE DEF InOrder
<1>1. ASSUME UNCHANGED request
      PROVE  InOrder'
  BY <1>1 DEF Delivered
<1>2. ASSUME NEW r \in Request, NEW a \in Addresses \cup {NoAddress},
             NEW parts \in 1..2, Deliver(r, a, parts)
      PROVE  InOrder'
  <2>1. /\ next + 1 \in Handle /\ next \in Int
        /\ request' = [request EXCEPT ![next + 1] = r]
        /\ r \notin Delivered /\ \A q \in Request : q < r => q \in Delivered
    BY <1>2, PortsAssumption DEF Deliver, TypeOK, Handle
  <2>2. /\ \A h \in Handle : request'[h] = IF h = next + 1 THEN r ELSE request[h]
        /\ request[next + 1] = None
    BY <2>1 DEF TypeOK, Allotted
  <2>3. Delivered' = Delivered \cup {r}
    BY <2>1, <2>2 DEF Delivered, Request, None
  <2>4. \A q \in Delivered : q < r
    <3> SUFFICES ASSUME NEW q \in Delivered PROVE q < r
      OBVIOUS
    <3>1. q \in Request /\ q # r /\ ~(r < q)
      BY <2>1 DEF Delivered
    <3>2. q \in Int /\ r \in Int
      BY <3>1, PortsAssumption DEF Request
    <3> QED
      BY <3>1, <3>2
  <2>5. ASSUME NEW h \in Handle, NEW k \in Handle,
               request'[h] # None, request'[k] # None, h < k
        PROVE  request'[h] < request'[k]
    <3>1. h \in Int /\ k \in Int /\ (request[k] # None => k <= next)
      BY <2>5, PortsAssumption DEF Handle, Allotted, TypeOK
    <3>2. h # next + 1
      BY <2>1, <2>2, <2>5, <3>1
    <3>3. request'[h] = request[h] /\ request[h] \in Delivered
      BY <2>2, <2>5, <3>2 DEF Delivered, TypeOK
    <3>4. CASE k = next + 1
      BY <2>2, <2>4, <3>3, <3>4
    <3>5. CASE k # next + 1
      BY <2>2, <2>5, <3>3, <3>5
    <3> QED
      BY <3>4, <3>5
  <2> QED
    BY <2>1, <2>3, <2>4, <2>5
<1>3. ASSUME NEW h \in Handle, NEW k \in Handle, NEW t \in BOOLEAN,
             NEW p \in {"part", "toclose"}, NEW answer \in Answer,
             \/ Accept(h) \/ Recv(h) \/ SendPart(h, p) \/ SendLast(h, answer)
             \/ CloseConn(h, t) \/ CloseListener(h)
             \/ CloseListenerThrown(h, k)
      PROVE  InOrder'
  BY <1>1, <1>3
     DEF Accept, Recv, SendPart, SendLast, CloseConn, CloseListener,
         CloseListenerThrown, Unlisten, serving, carrying
<1>4. ASSUME NEW a \in Addresses, Listen(a)
      PROVE  InOrder'
  BY <1>1, <1>4 DEF Listen, serving, carrying
<1>5. CASE UNCHANGED vars
  BY <1>1, <1>5 DEF vars, serving, carrying
<1> QED
  <2>1. "part" \in {"part", "toclose"} /\ "error" \in Answer /\ TRUE \in BOOLEAN
    BY DEF Answer
  <2> QED
    BY <1>2, <1>3, <1>4, <1>5, <2>1 DEF Next

(* Every step keeps it. *)
LEMMA IInvInductive ==
  ASSUME IInv, [Next]_vars
  PROVE  IInv'
<1>1. TypeOK' /\ Allotted' /\ Unused'
  BY TypeStep, AllottedStep, UnusedStep DEF IInv
<1>2. Carried' /\ Accounts'
  BY CarriedStep, AccountsStep DEF IInv
<1>3. TakenMatches' /\ Held' /\ QueueExact' /\ InOrder'
  BY TakenStep, HeldStep, QueueStep, OrderStep DEF IInv
<1> QED
  BY <1>1, <1>2, <1>3 DEF IInv

(* IInv holds of every state serve.mjs reaches, callbacks that throw       *)
(* included.                                                               *)
THEOREM Invariance == Spec => []IInv
BY Initially, IInvInductive, PTL DEF Spec

(* The maps of serve.mjs keep their ranges in every reachable state. *)
THEOREM TypeCorrect == Spec => []TypeOK
<1>1. IInv => TypeOK
  BY DEF IInv
<1> QED
  BY <1>1, Invariance, PTL

(* settle() calls each onResponse at most once, whichever of its callers   *)
(* comes first, and also when the callback throws out of it.               *)
THEOREM ToldAtMostOnce == Spec => []ToldOnce
<1>1. ASSUME IInv PROVE ToldOnce
  <2>1. SUFFICES ASSUME NEW r \in Request PROVE Len(host[r]) <= 1
    BY DEF ToldOnce
  <2>2. CASE r \notin Delivered
    BY <1>1, <2>2 DEF IInv, Accounts
  <2>3. CASE r \in Delivered
    <3>1. PICK h \in Handle : request[h] = r
      BY <2>3 DEF Delivered
    <3>2. request[h] # None
      BY <3>1 DEF Request, None
    <3> QED
      BY <1>1, <3>1, <3>2 DEF IInv, Accounts
  <2> QED
    BY <2>2, <2>3
<1> QED
  BY <1>1, Invariance, PTL

(* listen() and close() keep `taken` the inverse of what the listeners are *)
(* bound to.                                                               *)
THEOREM TakenExact == Spec => []TakenMatches
<1>1. IInv => TakenMatches
  BY DEF IInv
<1> QED
  BY <1>1, Invariance, PTL

(* deliver(), accept() and both closes keep each listener's queue exactly  *)
(* its connections nobody has accepted, oldest first.                      *)
THEOREM QueuesExact == Spec => []QueueExact
<1>1. IInv => QueueExact
  BY DEF IInv
<1> QED
  BY <1>1, Invariance, PTL

(* Whoever the guest does not hold waits on a listener it does hold. *)
LEMMA LiveIsReachable ==
  ASSUME IInv, NEW h \in Conns
  PROVE  Reachable(h) \/ h \in stranded
<1>1. SUFFICES ASSUME h \notin fds, h \notin stranded
               PROVE  Reachable(h)
  BY DEF Reachable
<1>2. owner[h] \in Listeners /\ Listeners \subseteq fds
  BY <1>1 DEF IInv, Held
<1>3. h \in Queued(owner[h])
  BY <1>1, <1>2 DEF IInv, QueueExact
<1> QED
  BY <1>2, <1>3 DEF Reachable

(* No connection of serve.mjs outlives every descriptor that reaches it,   *)
(* except those a throwing onResponse left.                                *)
THEOREM NoneOrphaned == Spec => []NoOrphans
<1>1. ASSUME IInv PROVE NoOrphans
  BY <1>1, LiveIsReachable DEF NoOrphans
<1> QED
  BY <1>1, Invariance, PTL

(* A host that waits has a live connection somebody's close will settle,   *)
(* except after a throwing onResponse.                                     *)
THEOREM NoneForgotten == Spec => []NeverForgotten
<1>1. ASSUME IInv PROVE NeverForgotten
  <2>1. SUFFICES ASSUME NEW r \in Owed
                 PROVE  \E h \in Conns \ answered :
                          request[h] = r /\ (Reachable(h) \/ h \in stranded)
    BY DEF NeverForgotten
  <2>2. PICK h \in Handle : request[h] = r
    BY DEF Owed, Delivered
  <2>3. request[h] # None /\ host[r] = <<>>
    BY <2>2 DEF Owed, Delivered, Request, None
  <2>4. h \notin answered
    <3>1. Len(host[request[h]]) = 0
      BY <2>2, <2>3
    <3> QED
      BY <1>1, <2>3, <3>1 DEF IInv, Accounts
  <2>5. h \in Conns
    BY <1>1, <2>3, <2>4 DEF IInv, Carried, Conns
  <2>6. Reachable(h) \/ h \in stranded
    BY <1>1, <2>5, LiveIsReachable
  <2> QED
    BY <2>2, <2>4, <2>5, <2>6
<1> QED
  BY <1>1, Invariance, PTL

-----------------------------------------------------------------------------
(* The refinement.  One handle carries a request, so the contract's        *)
(* variables can be read off it.                                           *)
LEMMA Mapping == IInv => Mapped
<1> SUFFICES ASSUME IInv PROVE Mapped
  OBVIOUS
<1> USE DEF IInv
<1>1. ASSUME NEW r \in Request \ Delivered
      PROVE  Stage[r] = "new" /\ \A a \in Addresses : r \notin Clients[a]
  BY DEF Stage, Clients, Delivered
<1>2. ASSUME NEW h \in Handle, request[h] # None
      PROVE  /\ Stage[request[h]] = StageOf(h)
             /\ \A a \in Addresses : request[h] \in Clients[a] <=> Serves(h, a)
             /\ host[request[h]] = <<>> <=> h \notin answered
  <2>1. request[h] \in Request /\ request[h] \in Delivered
    BY <1>2 DEF TypeOK, Delivered
  <2>2. \A k \in Handle : request[k] = request[h] <=> k = h
    BY <1>2 DEF Carried
  <2>3. fds \subseteq Handle /\ Conns \subseteq Handle
    BY DEF TypeOK, Conns
  <2>4. /\ (\E k \in fds : request[k] = request[h]) <=> h \in fds
        /\ (\E k \in Conns : request[k] = request[h]) <=> h \in Conns
    BY <2>2, <2>3
  <2>5. Stage[request[h]] = StageOf(h)
    BY <2>1, <2>4 DEF Stage, StageOf
  <2>6. \A a \in Addresses : request[h] \in Clients[a] <=> Serves(h, a)
    BY <2>1, <2>2 DEF Clients, Serves
  <2>7. /\ host[request[h]] \in Seq(Answer)
        /\ Len(host[request[h]]) = IF h \in answered THEN 1 ELSE 0
    BY <1>2, <2>1 DEF TypeOK, Accounts
  <2>8. host[request[h]] = <<>> <=> h \notin answered
    BY <2>7
  <2> QED
    BY <2>5, <2>6, <2>8
<1> QED
  BY <1>1, <1>2 DEF Mapped

(* Of every function that agrees with the handles, it is the one. *)
LEMMA StageIs ==
  ASSUME TypeOK', Mapped', NEW F, F = [r \in Request |-> F[r]],
         \A r \in Request \ Delivered' : F[r] = "new",
         \A h \in Handle : request'[h] # None => F[request'[h]] = StageOf(h)'
  PROVE  Stage' = F
<1>1. \A r \in Request : Stage'[r] = F[r]
  <2> SUFFICES ASSUME NEW r \in Request PROVE Stage'[r] = F[r]
    OBVIOUS
  <2>1. CASE r \notin Delivered'
    BY <2>1 DEF Mapped
  <2>2. CASE r \in Delivered'
    <3>1. PICK h \in Handle : request'[h] = r
      BY <2>2 DEF Delivered
    <3>2. request'[h] # None
      BY <3>1 DEF Request, None
    <3> QED
      BY <3>1, <3>2 DEF Mapped
  <2> QED
    BY <2>1, <2>2
<1>2. Stage' = [r \in Request |-> Stage'[r]]
  BY DEF Stage
<1> QED
  BY <1>1, <1>2

(* The same of the requests a server has. *)
LEMMA ClientsAre ==
  ASSUME TypeOK', Mapped', NEW F, F = [a \in Addresses |-> F[a]],
         \A a \in Addresses : F[a] \subseteq Delivered',
         \A h \in Handle, a \in Addresses :
           request'[h] # None => (request'[h] \in F[a] <=> Serves(h, a)')
  PROVE  Clients' = F
<1>1. \A a \in Addresses : Clients'[a] = F[a]
  <2> SUFFICES ASSUME NEW a \in Addresses PROVE Clients'[a] = F[a]
    OBVIOUS
  <2>1. Clients'[a] \subseteq Delivered'
    BY DEF Clients, Delivered
  <2>2. ASSUME NEW r \in Delivered'
        PROVE  r \in Clients'[a] <=> r \in F[a]
    <3>1. PICK h \in Handle : request'[h] = r
      BY DEF Delivered
    <3>2. request'[h] # None
      BY <3>1 DEF Delivered, Request, None
    <3> QED
      BY <3>1, <3>2 DEF Mapped
  <2> QED
    BY <2>1, <2>2
<1>2. Clients' = [a \in Addresses |-> Clients'[a]]
  BY DEF Clients
<1> QED
  BY <1>1, <1>2

(* settle() tells those that have heard nothing. *)
LEMMA TellingIs ==
  ASSUME NEW S \in SUBSET Handle, NEW R, NEW answer,
         host' = Told(S, answer),
         \A r \in Request :
           (\E h \in S \ answered : request[h] = r) <=> (r \in R /\ host[r] = <<>>)
  PROVE  Contract!Tell(R, answer)
<1>1. Append(<<>>, answer) = <<answer>>
  OBVIOUS
<1>2. \A r \in Request :
        (IF \E h \in S \ answered : request[h] = r
           THEN Append(host[r], answer) ELSE host[r])
        = (IF r \in R /\ host[r] = <<>> THEN <<answer>> ELSE host[r])
  BY <1>1
<1> QED
  BY <1>2 DEF Told, Contract!Tell, Contract!Request, Request

(* While requests stay on their handles, the stages follow the handles,    *)
LEMMA StageStays ==
  ASSUME TypeOK', Mapped, Mapped', UNCHANGED request,
         \A h \in Handle : request[h] # None => StageOf(h)' = StageOf(h)
  PROVE  Stage' = Stage
<1>1. Stage = [r \in Request |-> Stage[r]]
  BY DEF Stage
<1>2. Delivered' = Delivered
  BY DEF Delivered
<1>3. \A r \in Request \ Delivered' : Stage[r] = "new"
  BY <1>2 DEF Mapped
<1>4. \A h \in Handle : request'[h] # None => Stage[request'[h]] = StageOf(h)'
  BY DEF Mapped
<1> QED
  BY <1>1, <1>3, <1>4, StageIs

(* and the clients follow the table of addresses. *)
LEMMA ClientsStay ==
  ASSUME TypeOK', Mapped, Mapped', UNCHANGED request,
         \A h \in Handle, a \in Addresses :
           request[h] # None => (Serves(h, a)' <=> Serves(h, a))
  PROVE  Clients' = Clients
<1>1. Clients = [a \in Addresses |-> Clients[a]]
  BY DEF Clients
<1>2. \A a \in Addresses : Clients[a] \subseteq Delivered'
  BY DEF Clients, Delivered
<1>3. \A h \in Handle, a \in Addresses :
        request'[h] # None => (request'[h] \in Clients[a] <=> Serves(h, a)')
  BY DEF Mapped
<1> QED
  BY <1>1, <1>2, <1>3, ClientsAre

(* What listen() does is Listen of the contract. *)
LEMMA ListenStep ==
  ASSUME IInv, TypeOK', Mapped, Mapped', NEW a \in Addresses, Listen(a)
  PROVE  Contract!Listen(a, next + 1) /\ next + 1 \in Handle
<1> USE PortsAssumption DEF TypeOK, Handle, Request, None
<1>1. /\ next + 1 \in Handle /\ taken[a] = None
      /\ kind' = [kind EXCEPT ![next + 1] = "listener"]
      /\ taken' = [taken EXCEPT ![a] = next + 1]
      /\ fds' = fds \cup {next + 1}
      /\ UNCHANGED <<owner, request, wanted, host>>
  BY DEF Listen, IInv, serving, carrying
<1>2. request[next + 1] = None /\ kind[next + 1] = "free"
  BY <1>1 DEF IInv, Allotted
<1>3. \A b \in Addresses : taken[b] # None => taken[b] < next + 1
  <2>1. \A l \in Listeners : l \in Int /\ ~(l > next) /\ next \in Int
    BY DEF IInv, Allotted, Listeners
  <2> QED
    BY <2>1 DEF IInv, TakenMatches
<1>4. ASSUME NEW h \in Handle, request[h] # None
      PROVE  StageOf(h)' = StageOf(h)
  BY <1>1, <1>2, <1>4 DEF StageOf, Conns
<1>5. ASSUME NEW h \in Handle, NEW b \in Addresses, request[h] # None
      PROVE  Serves(h, b)' <=> Serves(h, b)
  <2>1. owner[h] # next + 1
    <3>1. owner[h] <= next /\ next \in Int /\ owner[h] \in Int
      BY DEF IInv, Unused
    <3> QED
      BY <3>1
  <2> QED
    BY <1>1, <2>1 DEF Serves, IInv
<1>6. Stage' = Stage /\ Clients' = Clients
  BY <1>1, <1>4, <1>5, StageStays, ClientsStay
<1> QED
  BY <1>1, <1>3, <1>6 DEF Contract!Listen, Contract!Serving, Contract!Never

(* listenerFor() finds the listener the contract means. *)
LEMMA RoutedSuits ==
  ASSUME IInv, NEW wish \in Addresses \cup {NoAddress}, NEW l \in Routed(wish)
  PROVE  /\ l \in Listeners /\ l \in Handle /\ taken[address[l]] = l
         /\ address[l] \in Contract!Suited(wish)
         /\ \A b \in Contract!Suited(wish) : taken[address[l]] <= taken[b]
<1> USE PortsAssumption DEF TypeOK
<1>1. /\ l \in Candidates(wish) /\ \A k \in Candidates(wish) : l <= k
      /\ l \in Listeners /\ l \in Handle
  BY RoutedListens DEF IInv, Routed, Listeners
<1>2. taken[address[l]] = l /\ address[l] \in Addresses /\ l # None
  BY <1>1 DEF IInv, TakenMatches, Handle, None
<1>3. \A b \in Addresses : taken[b] # None =>
        taken[b] \in Listeners /\ address[taken[b]] = b
  BY DEF IInv, TakenMatches
<1>4. CASE wish # NoAddress /\ taken[wish] # None
  <2>1. Candidates(wish) = {taken[wish]} /\ l = taken[wish]
    BY <1>1, <1>4 DEF Candidates
  <2>2. Contract!Suited(wish) = {wish}
    BY <1>4 DEF Contract!Suited, Contract!Serving, Contract!Never, None
  <2>3. address[l] = wish /\ l <= l
    BY <1>3, <1>4, <2>1, <1>1 DEF Handle
  <2> QED
    BY <1>1, <1>2, <2>1, <2>2, <2>3
<1>5. CASE ~(wish # NoAddress /\ taken[wish] # None)
  <2>1. Candidates(wish)
          = {h \in Listeners : address[h] \in Wildcards \/ wish = NoAddress}
    BY <1>5 DEF Candidates
  <2>2. Contract!Suited(wish)
          = {b \in Addresses : /\ taken[b] # None
                               /\ b \in Wildcards \/ wish = NoAddress}
    BY <1>5 DEF Contract!Suited, Contract!Serving, Contract!Never, None
  <2>3. \A b \in Contract!Suited(wish) : taken[b] \in Candidates(wish)
    BY <1>3, <2>1, <2>2
  <2>4. address[l] \in Contract!Suited(wish)
    BY <1>1, <1>2, <2>1, <2>2
  <2> QED
    BY <1>1, <1>2, <2>3, <2>4
<1> QED
  BY <1>4, <1>5

(* What deliver() does is Take of the contract. *)
LEMMA DeliverStep ==
  ASSUME IInv, TypeOK', Mapped, Mapped', NEW r \in Request,
         NEW wish \in Addresses \cup {NoAddress}, NEW parts \in 1..2,
         Deliver(r, wish, parts)
  PROVE  \E a \in Addresses : Contract!Take(r, wish, a)
<1>1. PICK l \in Routed(wish) :
             /\ next < Handles /\ next' = next + 1
             /\ kind' = [kind EXCEPT ![next + 1] = "conn"]
             /\ owner' = [owner EXCEPT ![next + 1] = l]
             /\ request' = [request EXCEPT ![next + 1] = r]
             /\ wanted' = [wanted EXCEPT ![r] = wish]
  BY DEF Deliver
<1>2. /\ r \notin Delivered /\ \A q \in Request : q < r => q \in Delivered
      /\ UNCHANGED <<taken, fds, host>>
  BY DEF Deliver
<1> DEFINE a == address[l]
           C == [Clients EXCEPT ![a] = @ \cup {r}]
           S == [Stage EXCEPT ![r] = "waiting"]
<1>3. /\ l \in Listeners /\ l \in Handle /\ taken[a] = l
      /\ a \in Contract!Suited(wish)
      /\ \A b \in Contract!Suited(wish) : taken[a] <= taken[b]
  BY RoutedSuits
<1>4. a \in Addresses /\ l # None
  BY <1>3, PortsAssumption DEF IInv, TypeOK, Handle, None
<1>5. /\ next + 1 \in Handle /\ request[next + 1] = None
      /\ kind[next + 1] = "free" /\ next + 1 \notin fds
  <2>1. next + 1 \in Handle /\ next \in Int
    BY <1>1, PortsAssumption DEF IInv, TypeOK, Handle
  <2>2. request[next + 1] = None /\ kind[next + 1] = "free"
    BY <2>1 DEF IInv, Allotted
  <2> QED
    BY <2>1, <2>2 DEF IInv, Held, Listeners, Conns
<1>6. /\ \A h \in Handle : request'[h] = IF h = next + 1 THEN r ELSE request[h]
      /\ \A h \in Handle : owner'[h] = IF h = next + 1 THEN l ELSE owner[h]
      /\ Conns' = Conns \cup {next + 1}
  BY <1>1, <1>5 DEF IInv, TypeOK, Conns
<1>7. Delivered' = Delivered \cup {r}
  BY <1>5, <1>6 DEF Delivered, Request, None
<1>8. \A q \in Request : q < r => Stage[q] # "new"
  <2> SUFFICES ASSUME NEW q \in Request, q < r PROVE Stage[q] # "new"
    OBVIOUS
  <2>1. PICK h \in Handle : request[h] = q
    BY <1>2 DEF Delivered
  <2>2. request[h] # None
    BY <2>1 DEF Request, None
  <2> QED
    BY <2>1, <2>2 DEF Mapped, StageOf
<1>9. Stage[r] = "new" /\ \A b \in Addresses : r \notin Clients[b]
  BY <1>2 DEF Mapped
<1>10. \A h \in Handle : request[h] # None => request[h] # r
  BY <1>2 DEF Delivered
<1>11. Stage' = S
  <2>1. S = [q \in Request |-> S[q]]
    BY DEF Stage
  <2>2. \A q \in Request : S[q] = IF q = r THEN "waiting" ELSE Stage[q]
    BY DEF Stage
  <2>3. \A q \in Request \ Delivered' : S[q] = "new"
    BY <1>7, <2>2 DEF Mapped
  <2>4. ASSUME NEW h \in Handle, request'[h] # None
        PROVE  S[request'[h]] = StageOf(h)'
    <3>1. CASE h = next + 1
      BY <1>2, <1>5, <1>6, <2>2, <3>1 DEF StageOf
    <3>2. CASE h # next + 1
      <4>1. /\ request'[h] = request[h] /\ request[h] # None
            /\ request[h] \in Request /\ request[h] # r
        BY <1>6, <1>10, <2>4, <3>2 DEF IInv, TypeOK
      <4>2. StageOf(h)' = StageOf(h)
        BY <1>2, <1>6, <3>2 DEF StageOf
      <4> QED
        BY <2>2, <4>1, <4>2 DEF Mapped
    <3> QED
      BY <3>1, <3>2
  <2> HIDE DEF S
  <2> QED
    BY <2>1, <2>3, <2>4, StageIs
<1>12. Clients' = C
  <2>1. C = [b \in Addresses |-> C[b]]
    BY DEF Clients
  <2>2. \A b \in Addresses : C[b] = IF b = a THEN Clients[b] \cup {r} ELSE Clients[b]
    BY <1>4 DEF Clients
  <2>3. \A b \in Addresses : C[b] \subseteq Delivered'
    <3>1. \A b \in Addresses : Clients[b] \subseteq Delivered
      BY DEF Clients, Delivered
    <3> QED
      BY <1>7, <2>2, <3>1
  <2>4. ASSUME NEW h \in Handle, NEW b \in Addresses, request'[h] # None
        PROVE  request'[h] \in C[b] <=> Serves(h, b)'
    <3>1. CASE h = next + 1
      <4>1. Serves(h, b)' <=> b = a
        BY <1>2, <1>3, <1>4, <1>6, <3>1 DEF Serves, IInv, TakenMatches
      <4> QED
        BY <1>6, <1>9, <2>2, <3>1, <4>1
    <3>2. CASE h # next + 1
      <4>1. /\ request'[h] = request[h] /\ request[h] # None /\ request[h] # r
        BY <1>6, <1>10, <2>4, <3>2
      <4>2. Serves(h, b)' <=> Serves(h, b)
        BY <1>2, <1>6, <3>2 DEF Serves
      <4> QED
        BY <2>2, <4>1, <4>2 DEF Mapped
    <3> QED
      BY <3>1, <3>2
  <2> HIDE DEF C
  <2> QED
    BY <2>1, <2>3, <2>4, ClientsAre
<1> QED
  BY <1>1, <1>2, <1>3, <1>4, <1>8, <1>9, <1>11, <1>12
     DEF Contract!Take, Contract!Request, Request

(* What accept() does is Accept of the contract: the head of a queue in    *)
(* order carries the oldest request that waits for its listener.           *)
LEMMA AcceptStep ==
  ASSUME IInv, TypeOK', Mapped, Mapped', NEW l \in Handle, Accept(l)
  PROVE  \E a \in Addresses, r \in Request : Contract!Accept(a, r)
<1> DEFINE h == Head(pending[l])
           a == address[l]
           r == request[h]
           S == [Stage EXCEPT ![r] = "held"]
<1>1. /\ l \in Listeners /\ pending[l] \in Seq(Handle) /\ pending[l] # <<>>
      /\ fds' = fds \cup {h}
      /\ UNCHANGED <<kind, address, taken, owner, request, wanted, host>>
  BY DEF Accept, IInv, TypeOK, serving, carrying
<1>2. /\ h \in Handle /\ 1 \in 1..Len(pending[l]) /\ h = pending[l][1]
      /\ \A i \in 1..Len(pending[l]) : i = 1 \/ 1 < i
  BY <1>1
<1>3. /\ Queued(l) = {k \in Conns : owner[k] = l /\ k \notin fds}
      /\ \A i, j \in 1..Len(pending[l]) : i < j => pending[l][i] < pending[l][j]
  BY <1>1 DEF IInv, QueueExact
<1>4. h \in Conns /\ owner[h] = l /\ h \notin fds
  BY <1>2, <1>3 DEF Queued
<1>5. r \in Request /\ r # None
  BY <1>2, <1>4 DEF IInv, Allotted, Conns, TypeOK
<1>6. a \in Addresses /\ taken[a] = l /\ l # None
  BY <1>1, PortsAssumption DEF IInv, TakenMatches, TypeOK, Handle, None
<1>7. r \in Clients[a] /\ Stage[r] = "waiting"
  BY <1>2, <1>4, <1>5, <1>6 DEF Mapped, Serves, StageOf
<1> HIDE DEF h, a, r
<1>8. ASSUME NEW q \in Clients[a], Stage[q] = "waiting"
      PROVE  r <= q
  <2>1. PICK k \in Handle : request[k] = q /\ owner[k] = l /\ q \in Request
    BY <1>6 DEF Clients
  <2>2. q # None
    BY <2>1 DEF Request, None
  <2>3. StageOf(k) = "waiting"
    BY <1>8, <2>1, <2>2 DEF Mapped
  <2>4. k \in Queued(l)
    BY <1>3, <2>1, <2>3 DEF StageOf
  <2>5. k = h \/ h < k
    BY <1>2, <1>3, <2>4 DEF Queued
  <2>6. q = r \/ r < q
    BY <1>2, <1>5, <2>1, <2>2, <2>5 DEF IInv, InOrder, r
  <2>7. q \in Int /\ r \in Int
    BY <1>5, <2>1, PortsAssumption DEF Request
  <2> QED
    BY <2>6, <2>7
<1>9. Stage' = S
  <2>1. S = [q \in Request |-> S[q]]
    BY DEF Stage
  <2>2. \A q \in Request : S[q] = IF q = r THEN "held" ELSE Stage[q]
    BY DEF Stage
  <2>3. \A q \in Request \ Delivered' : S[q] = "new"
    <3>1. Delivered' = Delivered /\ r \in Delivered
      BY <1>1, <1>2, <1>5 DEF Delivered, r
    <3> QED
      BY <2>2, <3>1 DEF Mapped
  <2>4. ASSUME NEW k \in Handle, request'[k] # None
        PROVE  S[request'[k]] = StageOf(k)'
    <3>1. request'[k] = request[k] /\ request[k] \in Request
      BY <1>1, <2>4 DEF IInv, TypeOK
    <3>2. request[k] = r <=> k = h
      BY <1>2, <1>5 DEF IInv, Carried, r
    <3>3. CASE k = h
      BY <1>1, <2>2, <3>1, <3>2, <3>3 DEF StageOf
    <3>4. CASE k # h
      BY <1>1, <2>2, <2>4, <3>1, <3>2, <3>4 DEF StageOf, Conns, Mapped
    <3> QED
      BY <3>3, <3>4
  <2> HIDE DEF S
  <2> QED
    BY <2>1, <2>3, <2>4, StageIs
<1>10. Clients' = Clients
  BY <1>1, ClientsStay DEF Serves
<1> QED
  BY <1>1, <1>5, <1>6, <1>7, <1>8, <1>9, <1>10 DEF Contract!Accept

(* An answer is Respond while the guest keeps the connection. *)
LEMMA RespondStep ==
  ASSUME IInv, TypeOK', Mapped, Mapped', NEW h \in (Conns \cap fds) \ answered,
         NEW answer, host' = Told({h}, answer),
         UNCHANGED <<kind, taken, owner, request, wanted, fds>>
  PROVE  \E r \in Request : Contract!Respond(r, answer)
<1> DEFINE r == request[h]
<1>1. h \in Handle /\ r \in Request /\ r # None
  BY DEF IInv, Allotted, Conns, TypeOK
<1>2. Stage[r] = "held" /\ host[r] = <<>>
  BY <1>1 DEF Mapped, StageOf
<1>3. Stage' = Stage /\ Clients' = Clients
  <2>1. Conns' = Conns
    BY DEF Conns
  <2>2. \A k \in Handle : StageOf(k)' = StageOf(k)
    BY <2>1 DEF StageOf
  <2> QED
    BY <2>2, StageStays, ClientsStay DEF Serves
<1>4. Contract!Tell({r}, answer)
  <2>1. \A q \in Request :
          (\E k \in {h} \ answered : request[k] = q)
            <=> (q \in {r} /\ host[q] = <<>>)
    BY <1>2
  <2> QED
    BY <1>1, <2>1, TellingIs
<1> QED
  BY <1>1, <1>2, <1>3, <1>4 DEF Contract!Respond

(* The close of a connection is Leave. *)
LEMMA LeaveStep ==
  ASSUME IInv, TypeOK', Mapped, Mapped', NEW h \in Conns \cap fds,
         NEW answer, host' = Told({h}, answer),
         kind' = [kind EXCEPT ![h] = "gone"], fds' = fds \ {h},
         UNCHANGED <<taken, owner, request, wanted>>
  PROVE  \E r \in Request : Contract!Leave(r, answer)
<1> DEFINE r == request[h]
           S == [Stage EXCEPT ![r] = "over"]
<1>1. h \in Handle /\ r \in Request /\ r # None
  BY DEF IInv, Allotted, Conns, TypeOK
<1>2. Stage[r] = "held" /\ (host[r] = <<>> <=> h \notin answered)
  BY <1>1 DEF Mapped, StageOf
<1>3. Clients' = Clients
  BY ClientsStay DEF Serves
<1>4. Stage' = S
  <2>1. S = [q \in Request |-> S[q]]
    BY DEF Stage
  <2>2. \A q \in Request : S[q] = IF q = r THEN "over" ELSE Stage[q]
    BY DEF Stage
  <2>3. \A q \in Request \ Delivered' : S[q] = "new"
    <3>1. Delivered' = Delivered /\ r \in Delivered
      BY <1>1 DEF Delivered
    <3> QED
      BY <2>2, <3>1 DEF Mapped
  <2>4. ASSUME NEW k \in Handle, request'[k] # None
        PROVE  S[request'[k]] = StageOf(k)'
    <3>1. request'[k] = request[k] /\ request[k] \in Request
      BY <2>4 DEF IInv, TypeOK
    <3>2. request[k] = r <=> k = h
      BY <1>1 DEF IInv, Carried
    <3>3. Conns' = Conns \ {h}
      BY DEF Conns, IInv, TypeOK
    <3>4. CASE k = h
      BY <2>2, <3>1, <3>2, <3>3, <3>4 DEF StageOf
    <3>5. CASE k # h
      BY <2>2, <2>4, <3>1, <3>2, <3>3, <3>5 DEF StageOf, Mapped
    <3> QED
      BY <3>4, <3>5
  <2> HIDE DEF S
  <2> QED
    BY <2>1, <2>3, <2>4, StageIs
<1>5. Contract!Tell({r}, answer)
  <2>1. \A q \in Request :
          (\E k \in {h} \ answered : request[k] = q)
            <=> (q \in {r} /\ host[q] = <<>>)
    BY <1>2
  <2> QED
    BY <1>1, <2>1, TellingIs
<1> QED
  BY <1>1, <1>2, <1>3, <1>4, <1>5 DEF Contract!Leave

(* What close() of a listener drops is Cease of the contract: nothing of   *)
(* the listener is its server's any more, and of the connections B it got  *)
(* to, those nobody accepted are over.                                     *)
LEMMA CeaseStep ==
  ASSUME IInv, TypeOK', Mapped, Mapped', NEW l \in Handle, Unlisten(l),
         NEW B, NEW R,
         \A h \in Conns : request[h] \in R <=> h \in B,
         B \subseteq Children(l), R \subseteq Clients[address[l]],
         kind' = [h \in Handle |-> IF h = l \/ h \in B \cap Queued(l)
                                      THEN "gone" ELSE kind[h]]
  PROVE  Contract!Cease(address[l], R)
<1> DEFINE a == address[l]
           C == [Clients EXCEPT ![a] = {}]
           S == [r \in Request |-> IF r \in R /\ Stage[r] = "waiting"
                                     THEN "over" ELSE Stage[r]]
<1>1. /\ l \in Listeners /\ l # None /\ a \in Addresses
      /\ taken' = [taken EXCEPT ![a] = None] /\ fds' = fds \ {l}
      /\ UNCHANGED <<owner, request, wanted>>
  BY PortsAssumption DEF Unlisten, IInv, TypeOK, carrying, Handle, None
<1>2. /\ taken[a] = l
      /\ \A b \in Addresses : taken[b] = l => b = a
  BY <1>1 DEF IInv, TakenMatches
<1>3. Queued(l) = {k \in Conns : owner[k] = l /\ k \notin fds}
  BY <1>1 DEF IInv, QueueExact
<1>4. Delivered' = Delivered
  BY <1>1 DEF Delivered
<1>5. Clients' = C
  <2>1. C = [b \in Addresses |-> C[b]]
    BY DEF Clients
  <2>2. \A b \in Addresses : C[b] = IF b = a THEN {} ELSE Clients[b]
    BY DEF Clients
  <2>3. \A b \in Addresses : C[b] \subseteq Delivered'
    BY <1>4, <2>2 DEF Clients, Delivered
  <2>4. ASSUME NEW h \in Handle, NEW b \in Addresses, request'[h] # None
        PROVE  request'[h] \in C[b] <=> Serves(h, b)'
    <3>1. request'[h] = request[h] /\ request[h] # None
      BY <1>1, <2>4
    <3>2. taken'[b] = IF b = a THEN None ELSE taken[b]
      BY <1>1 DEF IInv, TypeOK
    <3>3. CASE b = a
      BY <2>2, <3>2, <3>3 DEF Serves
    <3>4. CASE b # a
      BY <1>1, <2>2, <3>1, <3>2, <3>4 DEF Serves, Mapped
    <3> QED
      BY <3>3, <3>4
  <2> HIDE DEF C
  <2> QED
    BY <2>1, <2>3, <2>4, ClientsAre
<1>6. Stage' = S
  <2>1. S = [r \in Request |-> S[r]]
    OBVIOUS
  <2>2. \A r \in Request : S[r] = IF r \in R /\ Stage[r] = "waiting"
                                  THEN "over" ELSE Stage[r]
    OBVIOUS
  <2>3. \A r \in Request \ Delivered' : S[r] = "new"
    BY <1>4, <2>2 DEF Mapped
  <2> HIDE DEF S
  <2>4. ASSUME NEW h \in Handle, request'[h] # None
        PROVE  S[request'[h]] = StageOf(h)'
    <3>1. /\ request'[h] = request[h] /\ request[h] \in Request
          /\ request[h] # None
      BY <1>1, <2>4 DEF IInv, TypeOK
    <3>2. h # l
      BY <1>1, <3>1 DEF IInv, Allotted, Listeners
    <3>3. h \in fds' <=> h \in fds
      BY <1>1, <3>2
    <3>4. h \in Conns' <=> h \in Conns /\ h \notin B \cap Queued(l)
      BY <3>2 DEF Conns, IInv, TypeOK
    <3>5. h \in Conns \ fds => (h \in B \cap Queued(l) <=> request[h] \in R)
      BY <1>3, <3>1 DEF Children
    <3>6. Stage[request[h]] = StageOf(h)
      BY <3>1 DEF Mapped
    <3>7. h \in B \cap Queued(l) => h \in Conns \ fds
      BY <1>3
    <3>8. S[request[h]] = IF request[h] \in R /\ Stage[request[h]] = "waiting"
                            THEN "over" ELSE Stage[request[h]]
      BY <2>2, <3>1
    <3>9. Stage[request[h]] = "waiting" <=> h \in Conns \ fds
      BY <3>6 DEF StageOf
    <3> QED
      BY <3>1, <3>3, <3>4, <3>5, <3>6, <3>8, <3>9 DEF StageOf
  <2> QED
    BY <2>1, <2>3, <2>4, StageIs
<1> QED
  BY <1>1, <1>2, <1>5, <1>6
     DEF Contract!Cease, Contract!Serving, Contract!Never, Contract!Request,
         Request, None

(* Every connection a listener made, gone or not, carries a client of its  *)
(* server; the contract and settle() tell the same of them.                *)
LEMMA ClientsOfListener ==
  ASSUME IInv, Mapped, NEW l \in Listeners
  PROVE  /\ address[l] \in Addresses /\ taken[address[l]] = l /\ l # None
         /\ \A h \in Handle : request[h] # None =>
              (request[h] \in Clients[address[l]] <=> owner[h] = l)
<1>1. address[l] \in Addresses /\ taken[address[l]] = l /\ l # None
  BY PortsAssumption DEF IInv, TypeOK, TakenMatches, Listeners, Handle, None
<1> QED
  BY <1>1 DEF Mapped, Serves

(* The close of a listener is Stop, *)
LEMMA StopStep ==
  ASSUME IInv, TypeOK', Mapped, Mapped', NEW l \in Handle, CloseListener(l)
  PROVE  \E a \in Addresses : Contract!Stop(a)
<1> DEFINE R == Clients[address[l]]
<1>1. /\ l \in Listeners /\ Unlisten(l) /\ host' = Told(Children(l), "error")
      /\ kind' = [h \in Handle |-> IF h = l \/ h \in Children(l) \cap Queued(l)
                                     THEN "gone" ELSE kind[h]]
  BY DEF CloseListener, Unlisten
<1>2. /\ address[l] \in Addresses
      /\ \A h \in Handle : request[h] # None => (request[h] \in R <=> owner[h] = l)
  BY <1>1, ClientsOfListener
<1>3. R \subseteq Request /\ Children(l) \in SUBSET Handle
  BY <1>2 DEF Clients, Children, Conns
<1> HIDE DEF R
<1>4. \A h \in Conns : request[h] \in R <=> h \in Children(l)
  BY <1>2 DEF Children, Conns, IInv, Allotted
<1>5. Contract!Cease(address[l], R)
  BY <1>1, <1>4, CeaseStep DEF R
<1>6. ASSUME NEW r \in Request
      PROVE  (\E h \in Children(l) \ answered : request[h] = r)
               <=> (r \in R /\ host[r] = <<>>)
  <2>1. ASSUME NEW h \in Children(l) \ answered, request[h] = r
        PROVE  r \in R /\ host[r] = <<>>
    <3>1. h \in Handle /\ owner[h] = l /\ request[h] # None
      BY <2>1 DEF Children, Conns, IInv, Allotted
    <3> QED
      BY <1>2, <2>1, <3>1 DEF Mapped
  <2>2. ASSUME r \in R, host[r] = <<>>
        PROVE  \E h \in Children(l) \ answered : request[h] = r
    <3>1. PICK h \in Handle : request[h] = r
      BY <1>2, <2>2 DEF R, Clients
    <3>2. request[h] # None
      BY <3>1 DEF Request, None
    <3>3. owner[h] = l /\ h \notin answered
      BY <1>2, <2>2, <3>1, <3>2 DEF Mapped
    <3>4. h \in Conns
      BY <3>2, <3>3 DEF IInv, Carried, Conns
    <3> QED
      BY <3>1, <3>3, <3>4 DEF Children
  <2> QED
    BY <2>1, <2>2
<1>7. Contract!Tell(R, "error")
  BY <1>1, <1>3, <1>6, TellingIs
<1> QED
  BY <1>2, <1>5, <1>7 DEF Contract!Stop, R

(* and StopThrown if a callback throws: requests are in the order of the   *)
(* handles the loop goes by.                                               *)
LEMMA StopThrownStep ==
  ASSUME IInv, TypeOK', Mapped, Mapped', NEW l \in Handle, NEW t \in Handle,
         CloseListenerThrown(l, t)
  PROVE  \E a \in Addresses, r \in Request : Contract!StopThrown(a, r)
<1> DEFINE B == {h \in Children(l) : h < t}
           u == request[t]
           R == {r \in Clients[address[l]] : r < u}
<1>1. /\ l \in Listeners /\ Unlisten(l) /\ host' = Told(B \cup {t}, "error")
      /\ t \in Children(l) /\ t \notin answered
      /\ kind' = [h \in Handle |-> IF h = l \/ h \in B \cap Queued(l)
                                     THEN "gone" ELSE kind[h]]
  BY DEF CloseListenerThrown, Unlisten
<1>2. /\ address[l] \in Addresses
      /\ \A h \in Handle : request[h] # None =>
           (request[h] \in Clients[address[l]] <=> owner[h] = l)
  BY <1>1, ClientsOfListener
<1>3. t \in Conns /\ owner[t] = l /\ u \in Request /\ u # None
  BY <1>1 DEF Children, Conns, IInv, Allotted, TypeOK
<1>4. host[u] = <<>> /\ u \in Clients[address[l]]
  BY <1>1, <1>2, <1>3 DEF Mapped
<1>5. ASSUME NEW h \in Handle, request[h] # None
      PROVE  request[h] < u <=> h < t
  <2>1. h \in Int /\ t \in Int /\ request[h] \in Int /\ u \in Int
    BY <1>3, <1>5, PortsAssumption DEF IInv, TypeOK, Handle, Request, None
  <2>2. h < t => request[h] < u
    BY <1>3, <1>5 DEF IInv, InOrder
  <2>3. t < h => u < request[h]
    BY <1>3, <1>5 DEF IInv, InOrder
  <2>4. h = t => request[h] = u
    OBVIOUS
  <2> HIDE DEF u
  <2> QED
    BY <2>1, <2>2, <2>3, <2>4
<1>6. /\ R \subseteq Request /\ R \subseteq Clients[address[l]]
      /\ B \cup {t} \in SUBSET Handle /\ B \subseteq Children(l)
  BY <1>2 DEF Clients, Children, Conns
<1>7. \A h \in Handle : request[h] # None =>
        (request[h] \in R <=> owner[h] = l /\ h < t)
  BY <1>2, <1>5
<1>8. \A h \in Conns : /\ h \in Handle /\ request[h] # None
                       /\ h \in B <=> owner[h] = l /\ h < t
  BY DEF Children, Conns, IInv, Allotted
<1> HIDE DEF R, B, u
<1>9. Contract!Cease(address[l], R)
  BY <1>1, <1>6, <1>7, <1>8, CeaseStep
<1>10. ASSUME NEW r \in Request
       PROVE  (\E h \in (B \cup {t}) \ answered : request[h] = r)
                <=> (r \in R \cup {u} /\ host[r] = <<>>)
  <2>1. ASSUME NEW h \in (B \cup {t}) \ answered, request[h] = r
        PROVE  r \in R \cup {u} /\ host[r] = <<>>
    <3>1. h \in Conns /\ h \in Handle /\ request[h] # None
      BY <1>3, <1>6 DEF Children, Conns, IInv, Allotted
    <3>2. host[r] = <<>>
      BY <2>1, <3>1 DEF Mapped
    <3>3. r \in R \cup {u}
      BY <1>7, <1>8, <2>1, <3>1 DEF u
    <3> QED
      BY <3>2, <3>3
  <2>2. ASSUME r \in R \cup {u}, host[r] = <<>>
        PROVE  \E h \in (B \cup {t}) \ answered : request[h] = r
    <3>1. PICK h \in Handle : request[h] = r
      BY <1>2, <1>3, <2>2 DEF R, u, Clients
    <3>2. request[h] # None
      BY <3>1 DEF Request, None
    <3>3. h \notin answered /\ h \in Conns
      BY <2>2, <3>1, <3>2 DEF Mapped, IInv, Carried, Conns
    <3>4. r = u => h = t
      BY <1>3, <3>1, <3>2 DEF IInv, Carried, u
    <3>5. r \in R => h \in B
      BY <1>7, <1>8, <3>1, <3>2, <3>3
    <3> QED
      BY <2>2, <3>1, <3>3, <3>4, <3>5
  <2> QED
    BY <2>1, <2>2
<1>11. Contract!Tell(R \cup {u}, "error")
  BY <1>1, <1>6, <1>10, TellingIs
<1> QED
  BY <1>2, <1>3, <1>4, <1>9, <1>11 DEF Contract!StopThrown, Contract!Request, Request, R

(* Every step of serve.mjs is one the contract allows, or none. *)
LEMMA Refines ==
  ASSUME IInv, TypeOK', Mapped, Mapped', [Next]_vars
  PROVE  [Contract!Next]_(Contract!vars)
<1>1. ASSUME UNCHANGED <<kind, taken, owner, request, wanted, fds, host>>
      PROVE  UNCHANGED Contract!vars
  <2>1. \A h \in Handle : StageOf(h)' = StageOf(h)
    BY <1>1 DEF StageOf, Conns
  <2> QED
    BY <1>1, <2>1, StageStays, ClientsStay DEF Serves, Contract!vars
<1>2. ASSUME NEW a \in Addresses, Listen(a)
      PROVE  Contract!Next
  BY <1>2, ListenStep DEF Contract!Next
<1>3. ASSUME NEW r \in Request, NEW a \in Addresses \cup {NoAddress},
             NEW parts \in 1..2, Deliver(r, a, parts)
      PROVE  Contract!Next
  BY <1>3, DeliverStep DEF Contract!Next, Contract!Request, Request
<1>4. ASSUME NEW h \in Handle, Accept(h)
      PROVE  Contract!Next
  BY <1>4, AcceptStep DEF Contract!Next, Contract!Request, Request
<1>5. ASSUME NEW h \in Handle, NEW p \in {"part", "toclose"},
             Recv(h) \/ SendPart(h, p)
      PROVE  UNCHANGED Contract!vars
  BY <1>1, <1>5 DEF Recv, SendPart, listening, carrying
<1>6. ASSUME NEW h \in Handle, NEW answer \in Answer, SendLast(h, answer)
      PROVE  Contract!Next
  <2>1. \E r \in Request : Contract!Respond(r, answer)
    BY <1>6, RespondStep DEF SendLast, listening, carrying
  <2> QED
    BY <2>1 DEF Contract!Next, Contract!Request, Request, Answer
<1>7. ASSUME NEW h \in Handle, NEW t \in BOOLEAN, CloseConn(h, t)
      PROVE  Contract!Next
  <2>1. Finish(parser[h]) \in {"response", "error"}
    BY DEF Finish
  <2>2. CASE t
    <3>1. \E r \in Request : Contract!Respond(r, Finish(parser[h]))
      BY <1>7, <2>2, RespondStep DEF CloseConn, listening, carrying
    <3> QED
      BY <2>1, <3>1 DEF Contract!Next, Contract!Request, Request
  <2>3. CASE ~t
    <3>1. \E r \in Request : Contract!Leave(r, Finish(parser[h]))
      BY <1>7, <2>3, LeaveStep DEF CloseConn, listening, carrying
    <3> QED
      BY <2>1, <3>1 DEF Contract!Next, Contract!Request, Request
  <2> QED
    BY <2>2, <2>3
<1>8. ASSUME NEW h \in Handle, CloseListener(h)
      PROVE  Contract!Next
  BY <1>8, StopStep DEF Contract!Next
<1>9. ASSUME NEW h \in Handle, NEW t \in Handle, CloseListenerThrown(h, t)
      PROVE  Contract!Next
  BY <1>9, StopThrownStep DEF Contract!Next, Contract!Request, Request
<1>10. CASE UNCHANGED vars
  BY <1>1, <1>10 DEF vars, listening, carrying, serving
<1> QED
  BY <1>2, <1>3, <1>4, <1>5, <1>6, <1>7, <1>8, <1>9, <1>10 DEF Next

(* serve.mjs keeps the contract Inbound: every request goes to the server  *)
(* it is meant for, each server has its requests in their order, and every *)
(* host hears once, from the guest that holds its request or from the end  *)
(* of the server that took it.                                             *)
THEOREM RefinesInbound == Spec => InboundSpec
<1>1. Init => Contract!Init
  BY PortsAssumption
     DEF Init, Contract!Init, Contract!Request, Contract!Never, Request, Handle,
         None, Stage, Clients, Delivered
<1>2. IInv => TypeOK
  BY DEF IInv
<1>3. IInv /\ TypeOK' /\ Mapped /\ Mapped' /\ [Next]_vars
        => [Contract!Next]_(Contract!vars)
  BY Refines
<1> QED
  BY <1>1, <1>2, <1>3, Mapping, Invariance, PTL DEF Spec, InboundSpec, Contract!Spec
=============================================================================
