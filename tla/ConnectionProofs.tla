-------------------------- MODULE ConnectionProofs --------------------------
(***************************************************************************)
(* Machine-checked facts about Connection, for every number of connections *)
(* and requests, whatever the guest calls and whenever the network settles *)
(* or a deadline fires.  Most calls only move bytes: Quiet is what they do *)
(* to the rest, Dispatched what a blocking send does, and each other       *)
(* action is a kind of its own.                                            *)
(***************************************************************************)
EXTENDS ConnectionInvariant, TLAPS

(* What two records agree on when only bytes have moved. *)
SameKey(j, k) == /\ j.pending = k.pending /\ j.response = k.response
                 /\ j.hup = k.hup /\ j.error = k.error

(* A step that moves bytes, ends a pull, or learns that an origin is done. *)
Quiet ==
  /\ \A c \in Conns : SameKey(conn'[c], conn[c])
  /\ UNCHANGED <<table, sent, from, door, asked, flights, stopped, orphans>>
  /\ pulls' \subseteq pulls
  /\ over \subseteq over' /\ done' \subseteq done \cup over'

(* What deliver() makes of a record k that awaited request r. *)
Comes(d, k, r) ==
  \/ /\ d.error /\ d.hup = k.hup /\ d.pending = k.pending
     /\ d.response = k.response
  \/ /\ d.hup /\ d.pending = <<>> /\ d.response = k.response
     /\ d.error = k.error
  \/ /\ d.response = r /\ d.pending = k.pending
     /\ d.hup = k.hup /\ d.error = k.error

(* The request that was due went out and was answered in one call.         *)
Others(c) == \A d \in Conns \ {c} : conn'[d] = conn[d]
Dispatched(c) ==
  LET r == Due(conn[c]) IN
  /\ Usable(c) /\ Idle(conn[c]) /\ Others(c)
  /\ Comes(conn'[c], Shifted(conn[c]), r)
  /\ \A q \in Request \ {r} : door'[q] = door[q]
  /\ door'[r] = door[r] \/ conn'[c].response = r
  /\ \/ asked' = [asked EXCEPT ![c] = Append(@, r)]
     \/ asked' = asked /\ conn'[c].error
  /\ UNCHANGED <<table, sent, from, flights, stopped, orphans, pulls>>
  /\ UNCHANGED <<done, over>>

(* spend() hangs up, drops what was queued, and touches nothing else. *)
LEMMA SpentFacts ==
  ASSUME NEW k, RecordOk(k)
  PROVE  /\ RecordOk(Spent(k))
         /\ Spent(k).hup /\ Spent(k).pending = <<>>
         /\ Spent(k).response = k.response /\ Spent(k).error = k.error
<1> DEFINE h == [k EXCEPT !.hup = TRUE]
<1>1. /\ RecordOk(h) /\ h.hup = TRUE
      /\ h.response = k.response /\ h.error = k.error
  BY DEF RecordOk
<1>2. Spent(k) = [h EXCEPT !.pending = <<>>] /\ <<>> \in Seq(Request)
  BY DEF Spent
<1> HIDE DEF h
<1> QED
  BY <1>1, <1>2 DEF RecordOk

(* Whatever the fetch answered, deliver() leaves a connection as Comes says. *)
LEMMA DeliverComes ==
  ASSUME NEW k, RecordOk(k), NEW r \in Request, NEW outcome \in Outcomes
  PROVE  /\ RecordOk(Delivered(k, r, outcome))
         /\ Comes(Delivered(k, r, outcome), k, r)
         /\ Opens(r, outcome) => Delivered(k, r, outcome).response = r
         /\ outcome = "refused" => Delivered(k, r, outcome).error
<1> USE DEF RecordOk
<1>0. LET d == Spent(Queued(k, Piece(r, 0))) IN
        /\ RecordOk(d) /\ d.hup /\ d.pending = <<>>
        /\ d.response = k.response /\ d.error = k.error
  <2>1. RecordOk(Queued(k, Piece(r, 0))) /\ SameKey(Queued(k, Piece(r, 0)), k)
    BY DEF Queued, SameKey
  <2> QED
    BY <2>1, SpentFacts DEF SameKey
<1>1. CASE outcome \in Failing
  <2>1. Delivered(k, r, outcome) = [k EXCEPT !.error = TRUE]
    BY <1>1 DEF Delivered, Failing
  <2> QED
    BY <1>1, <2>1 DEF Comes, Opens, Failing
<1>2. CASE outcome = "redirect"
  <2>1. Delivered(k, r, outcome) = Spent(Queued(k, Piece(r, 0)))
    BY <1>2 DEF Delivered, Failing
  <2> QED
    BY <1>0, <1>2, <2>1 DEF Comes, Opens, SameKey
<1>3. CASE outcome = "head" /\ method[r] = "HEAD"
  <2>1. Delivered(k, r, outcome) = Spent(Queued(k, Piece(r, 0)))
    BY <1>3 DEF Delivered, Failing
  <2> QED
    BY <1>0, <1>3, <2>1 DEF Comes, Opens, SameKey
<1>4. CASE outcome = "head" /\ method[r] # "HEAD"
  <2>1. Delivered(k, r, outcome) = [Queued(k, Piece(r, 0)) EXCEPT !.response = r]
    BY <1>4 DEF Delivered, Failing
  <2> QED
    BY <1>4, <2>1 DEF Comes, Opens, Queued
<1> QED
  BY <1>1, <1>2, <1>3, <1>4 DEF Outcomes, Failing

(* The request that is due. *)
LEMMA DueFacts ==
  ASSUME NEW k, RecordOk(k), Idle(k)
  PROVE  /\ Due(k) \in Request /\ RecordOk(Shifted(k))
         /\ Shifted(k).pending = Tail(k.pending)
         /\ SameKey([Shifted(k) EXCEPT !.pending = k.pending], k)
         /\ Shifted(k).response = None /\ Shifted(k).hup = FALSE
         /\ Shifted(k).error = FALSE
BY DEF RecordOk, Idle, Due, Shifted, SameKey

(* The reads that ask the network for nothing move no request. *)
LEMMA QuietCalls ==
  ASSUME Ranges, NEW c \in Conns, NEW max \in 1..2, NEW outcome \in Outcomes,
         \/ RecvOutbox(c, max, outcome) /\ ~Idle(conn[c])
         \/ RecvBlocking(c, max) \/ RecvAwaited(c, max) \/ RecvHup(c)
  PROVE  Quiet /\ Ranges'
<1> USE DEF Ranges
<1>1. ASSUME NEW k, RecordOk(k), SameKey(k, conn[c]),
             conn' = [conn EXCEPT ![c] = k],
             UNCHANGED <<table, sent, from, door, asked, flights, stopped,
                         orphans, pulls, over, done>>
      PROVE  Quiet /\ Ranges'
  <2>1. \A d \in Conns : RecordOk(conn'[d]) /\ SameKey(conn'[d], conn[d])
    BY <1>1 DEF SameKey
  <2>2. conn' = [d \in Conns |-> conn'[d]]
    BY <1>1
  <2> QED
    BY <1>1, <2>1, <2>2 DEF Quiet
<1>2. CASE RecvOutbox(c, max, outcome) /\ ~Idle(conn[c])
  <2> DEFINE k == conn[c]
             piece == Head(k.outbox)
             upto == IF k.offset + max < Len(piece) THEN k.offset + max
                                                    ELSE Len(piece)
             k2 == IF upto = Len(piece)
                     THEN [k EXCEPT !.outbox = Tail(@), !.offset = 0]
                     ELSE [k EXCEPT !.offset = upto]
  <2>1. conn' = [conn EXCEPT ![c] = k2]
    BY <1>2 DEF RecvOutbox, Pumped
  <2>2. RecordOk(k)
    OBVIOUS
  <2>3. RecordOk(k2) /\ SameKey(k2, k)
    <3> HIDE DEF upto, piece, k
    <3> QED
      BY <2>2 DEF RecordOk, SameKey
  <2>4. UNCHANGED <<table, sent, from, door, asked, flights, stopped,
                    orphans, pulls, over, done>>
    BY <1>2 DEF RecvOutbox, PumpEffects, writing
  <2> QED
    <3> HIDE DEF k2
    <3> QED
      BY <1>1, <2>1, <2>3, <2>4
<1>3. CASE RecvBlocking(c, max) \/ RecvAwaited(c, max)
  <2>1. PICK piece : TakenPiece(c, piece, max)
    BY <1>3 DEF RecvBlocking, RecvAwaited
  <2> DEFINE k2 == IF max < Len(piece)
                     THEN Queued(conn[c], SubSeq(piece, max + 1, Len(piece)))
                     ELSE conn[c]
  <2>2. conn' = [conn EXCEPT ![c] = k2]
    BY <2>1 DEF TakenPiece
  <2>3. RecordOk(k2) /\ SameKey(k2, conn[c])
    BY DEF RecordOk, SameKey, Queued
  <2>4. UNCHANGED <<table, sent, from, door, asked, flights, stopped,
                    orphans, pulls, over, done>>
    BY <2>1 DEF TakenPiece, writing
  <2> QED
    <3> HIDE DEF k2
    <3> QED
      BY <1>1, <2>2, <2>3, <2>4
<1>4. CASE RecvHup(c)
  BY <1>1, <1>4 DEF RecvHup, network, writing, SameKey
<1> QED
  BY <1>2, <1>3, <1>4

(* Nor do a pull that settles and a deadline that fires. *)
LEMMA QuietSettles ==
  ASSUME Ranges, NEW r \in Request, PullChunk(r) \/ PullEnd(r) \/ TimerFires(r)
  PROVE  Quiet /\ Ranges'
BY DEF Ranges, Quiet, SameKey, PullChunk, PullEnd, TimerFires, Armed, Disarmed,
       writing

(* A read of an idle connection takes the request that is due. *)
LEMMA DispatchCalls ==
  ASSUME Ranges, NEW c \in Conns, NEW max \in 1..2, NEW outcome \in Outcomes,
         \/ RecvOutbox(c, max, outcome) /\ Idle(conn[c])
         \/ RecvError(c, outcome)
  PROVE  Dispatched(c) /\ Ranges'
<1> DEFINE r == Due(conn[c])
           k == Delivered(Shifted(conn[c]), r, outcome)
<1>1. Idle(conn[c]) /\ RecordOk(conn[c]) /\ Usable(c)
  BY DEF RecvError, RecvOutbox, Ranges
<1>2. r \in Request /\ RecordOk(Shifted(conn[c]))
  BY <1>1, DueFacts
<1>3. /\ RecordOk(k) /\ Comes(k, Shifted(conn[c]), r)
      /\ Opens(r, outcome) => k.response = r
      /\ outcome = "refused" => k.error
  BY <1>2, DeliverComes
<1>4. Pumped(c, outcome) = k
  BY <1>1 DEF Pumped
<1>5. PICK k2 : /\ conn' = [conn EXCEPT ![c] = k2] /\ RecordOk(k2)
                /\ SameKey(k2, k)
  <2>1. CASE RecvError(c, outcome)
    BY <1>3, <1>4, <2>1 DEF RecvError, SameKey
  <2>2. CASE RecvOutbox(c, max, outcome)
    <3> DEFINE piece == Head(k.outbox)
               upto == IF k.offset + max < Len(piece) THEN k.offset + max
                                                      ELSE Len(piece)
               k3 == IF upto = Len(piece)
                       THEN [k EXCEPT !.outbox = Tail(@), !.offset = 0]
                       ELSE [k EXCEPT !.offset = upto]
    <3>1. conn' = [conn EXCEPT ![c] = k3]
      BY <1>4, <2>2 DEF RecvOutbox
    <3>2. RecordOk(k3) /\ SameKey(k3, k)
      <4> HIDE DEF upto, piece, k
      <4> QED
        BY <1>3 DEF RecordOk, SameKey
    <3> QED
      BY <3>1, <3>2
  <2> QED
    BY <2>1, <2>2
<1>6. /\ asked' = [asked EXCEPT ![c] =
                     IF outcome = "refused" THEN @ ELSE Append(@, r)]
      /\ door' = [door EXCEPT ![r] = IF Opens(r, outcome) THEN "sync" ELSE @]
      /\ UNCHANGED <<table, sent, from, flights, stopped, orphans, pulls>>
      /\ UNCHANGED <<done, over>>
  BY <1>1 DEF RecvError, RecvOutbox, PumpEffects, writing
<1> HIDE DEF k, r
<1>7. conn'[c] = k2 /\ Others(c)
  BY <1>5 DEF Ranges, Others
<1>8. Comes(conn'[c], Shifted(conn[c]), r)
  BY <1>3, <1>5, <1>7 DEF Comes, SameKey
<1>9. Dispatched(c)
  <2>1. door'[r] = door[r] \/ conn'[c].response = r
    BY <1>2, <1>3, <1>5, <1>6, <1>7 DEF Ranges, SameKey
  <2>2. \/ asked' = [asked EXCEPT ![c] = Append(@, r)]
        \/ asked' = asked /\ conn'[c].error
    BY <1>3, <1>5, <1>6, <1>7 DEF Ranges, SameKey
  <2>3. \A q \in Request \ {r} : door'[q] = door[q]
    BY <1>6 DEF Ranges
  <2> QED
    BY <1>1, <1>6, <1>7, <1>8, <2>1, <2>2, <2>3 DEF Dispatched, r
<1>10. Ranges'
  <2>1. /\ conn' = [d \in Conns |-> conn'[d]]
        /\ \A d \in Conns : RecordOk(conn'[d])
    BY <1>5 DEF Ranges
  <2>2. asked' \in [Conns -> Seq(Request)]
    BY <1>2, <1>6 DEF Ranges
  <2>3. door' \in [Request -> {"none", "sync", "async"}]
    BY <1>6 DEF Ranges
  <2> QED
    BY <1>6, <2>1, <2>2, <2>3 DEF Ranges
<1> QED
  BY <1>9, <1>10

-----------------------------------------------------------------------------
(* A connection about to dispatch has asked nothing yet, and what is due   *)
(* is the first request written on it.                                     *)
LEMMA IdleFirst ==
  ASSUME IInv, NEW c \in Conns, Usable(c), Idle(conn[c])
  PROVE  LET r == Due(conn[c]) IN
         /\ r \in Request /\ r # None /\ Written(r, c) /\ asked[c] = <<>>
         /\ \A q \in Request : Written(q, c) => r <= q
         /\ \A q \in flights \cup pulls : from[q] # c
         /\ \A i \in 1..Len(Tail(conn[c].pending)) :
              Written(Tail(conn[c].pending)[i], c)
<1> DEFINE p == conn[c].pending
<1>1. /\ p \in Seq(Request) /\ p # <<>> /\ conn[c].response = None
      /\ ~conn[c].error /\ ~conn[c].hup /\ table[c] = "open"
      /\ \A q \in flights \cup pulls : from[q] # c
  BY DEF IInv, Ranges, RecordOk, Idle, Usable, Waiting
<1>2. Due(conn[c]) = p[1] /\ 1 \in 1..Len(p) /\ Len(p) \in Nat
  BY <1>1 DEF Due
<1>3. p[1] \in Request /\ p[1] # None
  <2>1. p[1] \in Request
    BY <1>1, <1>2
  <2> QED
    BY <2>1, ConnectionAssumption DEF Request, None
<1>4. \A i \in 1..Len(p) : Written(p[i], c)
  BY DEF IInv, Own
<1>5. asked[c] = <<>>
  BY <1>1 DEF IInv, Once, First, Begun
<1>6. \A q \in Request : Written(q, c) => Head(p) <= q
  BY <1>1, <1>5 DEF IInv, Once, First
<1>7. \A i \in 1..Len(Tail(p)) : i + 1 \in 1..Len(p) /\ Tail(p)[i] = p[i + 1]
  BY <1>1
<1> QED
  BY <1>1, <1>2, <1>3, <1>4, <1>5, <1>6, <1>7 DEF Due

(* A step that moves no request keeps the invariant. *)
LEMMA QuietKeeps ==
  ASSUME IInv, Ranges', Quiet
  PROVE  IInv'
<1> USE DEF IInv, Quiet, SameKey
<1>1. Own'
  BY DEF Own, Written
<1>2. Alone'
  BY DEF Alone, Ranges
<1>3. HangupFinal'
  BY DEF HangupFinal, Waiting
<1>4. Once'
  BY DEF Once, First, Begun, Written
<1>5. Accounted'
  BY DEF Accounted
<1>6. NoneAdrift'
  BY DEF NoneAdrift, Ranges
<1> QED
  BY <1>1, <1>2, <1>3, <1>4, <1>5, <1>6

(* A connection opened has nothing written to it. *)
LEMMA ConnectKeeps ==
  ASSUME IInv, NEW c \in Conns, Connect(c)
  PROVE  IInv'
<1>1. /\ table' \in [Conns -> {"new", "open", "closed"}]
      /\ \A d \in Conns : /\ table'[d] = "closed" => table[d] = "closed"
                          /\ table[d] = "open" => table'[d] = "open"
                          /\ table'[d] # "closed" => table[d] # "closed"
      /\ UNCHANGED <<conn, sent, from, door, asked, flights, pulls, stopped>>
      /\ UNCHANGED <<orphans, done, over>>
  BY DEF IInv, Ranges, Connect, writing, network
<1>2. Ranges'
  BY <1>1 DEF IInv, Ranges
<1>3. Own'
  BY <1>1 DEF IInv, Own, Written
<1>4. Alone' /\ HangupFinal'
  BY <1>1 DEF IInv, Alone, HangupFinal, Waiting
<1>5. Once'
  BY <1>1 DEF IInv, Once, First, Begun, Written
<1>6. Accounted'
  BY <1>1 DEF IInv, Accounted, Ranges
<1>7. NoneAdrift'
  BY <1>1 DEF IInv, NoneAdrift, Ranges
<1> QED
  BY <1>2, <1>3, <1>4, <1>5, <1>6, <1>7 DEF IInv

(* pump() and pumpAsync(): the request due leaves its queue for the network. *)
LEMMA DispatchedKeeps ==
  ASSUME IInv, Ranges', NEW c \in Conns, Dispatched(c)
  PROVE  IInv'
<1> DEFINE r == Due(conn[c])
           k == conn'[c]
<1>1. /\ r \in Request /\ r # None /\ Written(r, c) /\ asked[c] = <<>>
      /\ \A q \in Request : Written(q, c) => r <= q
      /\ \A q \in flights \cup pulls : from[q] # c
      /\ \A i \in 1..Len(Tail(conn[c].pending)) :
           Written(Tail(conn[c].pending)[i], c)
  BY IdleFirst DEF Dispatched
<1>2. /\ Shifted(conn[c]).pending = Tail(conn[c].pending)
      /\ Shifted(conn[c]).response = None /\ Shifted(conn[c]).hup = FALSE
      /\ conn[c].response = None /\ table[c] = "open"
  BY DueFacts DEF Dispatched, IInv, Ranges, Idle, Usable
<1>3. /\ \A d \in Conns \ {c} : conn'[d] = conn[d]
      /\ Comes(k, Shifted(conn[c]), r)
      /\ \A q \in Request \ {r} : door'[q] = door[q]
      /\ door'[r] = door[r] \/ k.response = r
      /\ \/ asked' = [asked EXCEPT ![c] = Append(@, r)]
         \/ asked' = asked /\ k.error
      /\ UNCHANGED <<table, sent, from, flights, stopped, orphans, pulls>>
      /\ UNCHANGED <<done, over>>
  BY DEF Dispatched, Others
<1>4. /\ k.response = None \/ k.response = r
      /\ k.hup => k.pending = <<>> /\ k.response = None
      /\ k.error \/ k.hup \/ k.response = r
      /\ k.pending = Tail(conn[c].pending) \/ k.pending = <<>>
  BY <1>2, <1>3 DEF Comes
<1>5. \A d \in Conns \ {c} : asked'[d] = asked[d]
  BY <1>3 DEF IInv, Ranges
<1>6. asked'[c] = <<r>> \/ (asked'[c] = <<>> /\ k.error)
  BY <1>1, <1>3 DEF IInv, Ranges
<1> HIDE DEF r, k
<1>7. Own'
  <2>1. \A i \in 1..Len(k.pending) : Written(k.pending[i], c)
    <3>1. CASE k.pending = <<>>
      BY <3>1
    <3>2. CASE k.pending = Tail(conn[c].pending)
      BY <1>1, <3>2
    <3> QED
      BY <1>4, <3>1, <3>2
  <2> QED
    BY <1>1, <1>3, <1>4, <2>1 DEF IInv, Own, Written, k
<1>8. Alone'
  BY <1>1, <1>3 DEF IInv, Alone, Ranges
<1>9. HangupFinal'
  BY <1>1, <1>3, <1>4 DEF IInv, HangupFinal, Waiting, k
<1>10. Once'
  <2>1. First(c)'
    <3>1. CASE asked'[c] = <<>> /\ k.error
      BY <3>1 DEF First, k
    <3>2. CASE asked'[c] = <<r>>
      <4>1. Len(asked'[c]) = 1 /\ asked'[c] # <<>> /\ asked'[c][1] = r
        BY <3>2
      <4> QED
        BY <1>1, <1>3, <1>4, <4>1 DEF First, Begun, Written, k
    <3> QED
      BY <1>6, <3>1, <3>2
  <2>2. ASSUME NEW d \in Conns \ {c}
        PROVE  First(d)'
    BY <1>3, <1>5 DEF IInv, Once, First, Begun, Written
  <2> QED
    BY <2>1, <2>2 DEF Once
<1>11. Accounted'
  BY <1>3 DEF IInv, Accounted
<1>12. NoneAdrift'
  <2>1. SUFFICES ASSUME NEW q \in Request, door'[q] # "none",
                        q \notin over \cup stopped \cup orphans
                 PROVE  table[from[q]] = "open" /\ conn'[from[q]].response = q
    BY <1>3 DEF NoneAdrift
  <2>2. CASE door'[q] # door[q]
    BY <1>1, <1>2, <1>3, <2>2 DEF Written, k
  <2>3. CASE door'[q] = door[q]
    <3>1. table[from[q]] = "open" /\ conn[from[q]].response = q
      BY <2>1, <2>3 DEF IInv, NoneAdrift
    <3>2. from[q] # c /\ from[q] \in Conns
      BY <1>2, <3>1, ConnectionAssumption DEF IInv, Ranges, Request, None
    <3> QED
      BY <1>3, <3>1, <3>2
  <2> QED
    BY <2>2, <2>3
<1> QED
  BY <1>7, <1>8, <1>9, <1>10, <1>11, <1>12 DEF IInv

(* recv() at the end of a body: the response is let go, and the connection spent. *)
LEMMA RecvEndKeeps ==
  ASSUME IInv, NEW c \in Conns, RecvEnd(c)
  PROVE  IInv'
<1> DEFINE r == conn[c].response
           h == [conn[c] EXCEPT !.response = None]
           k == Spent(h)
<1>1. /\ Usable(c) /\ r # None /\ Ready(r) /\ queue[r] = <<>>
      /\ conn' = [conn EXCEPT ![c] = k]
      /\ over' = IF door[r] = "sync" THEN over \cup {r} ELSE over
      /\ UNCHANGED <<table, sent, from, door, asked, flights, pulls, stopped>>
      /\ UNCHANGED <<orphans, done>>
  BY DEF RecvEnd, Readable, writing
<1>2. RecordOk(h) /\ h.response = None
  BY DEF IInv, Ranges, RecordOk
<1> HIDE DEF h
<1>3. RecordOk(k) /\ k.hup /\ k.pending = <<>> /\ k.response = None
  BY <1>2, SpentFacts
<1> HIDE DEF k
<1>4. conn'[c] = k /\ \A d \in Conns \ {c} : conn'[d] = conn[d]
  BY <1>1 DEF IInv, Ranges
<1>5. \A q \in flights \cup pulls : from[q] # c
  BY <1>1 DEF Usable, Waiting
<1>6. r \in over' \cup stopped /\ over \subseteq over'
  BY <1>1 DEF Ready, IInv, Accounted
<1>7. Ranges'
  BY <1>1, <1>3, <1>4 DEF IInv, Ranges
<1>8. Own'
  BY <1>1, <1>3, <1>4 DEF IInv, Own, Written
<1>9. Alone'
  BY <1>1, <1>4, <1>5 DEF IInv, Alone, Ranges
<1>10. HangupFinal'
  BY <1>1, <1>3, <1>4, <1>5 DEF IInv, HangupFinal, Waiting
<1>11. Once'
  BY <1>1, <1>3, <1>4 DEF IInv, Once, First, Begun, Written
<1>12. Accounted'
  BY <1>1, <1>6 DEF IInv, Accounted
<1>13. NoneAdrift'
  <2>1. SUFFICES ASSUME NEW q \in Request, door[q] # "none",
                        q \notin over' \cup stopped \cup orphans
                 PROVE  table[from[q]] = "open" /\ conn'[from[q]].response = q
    BY <1>1 DEF NoneAdrift
  <2>2. table[from[q]] = "open" /\ conn[from[q]].response = q
    BY <1>6, <2>1 DEF IInv, NoneAdrift
  <2>3. from[q] # c /\ from[q] \in Conns
    BY <1>6, <2>1, <2>2 DEF IInv, Ranges
  <2> QED
    BY <1>4, <2>2, <2>3
<1> QED
  BY <1>7, <1>8, <1>9, <1>10, <1>11, <1>12, <1>13 DEF IInv

(* pumpAsync() asks and awaits: the exchange is in flight. *)
LEMMA ReadyFetchKeeps ==
  ASSUME IInv, NEW c \in Conns, ReadyFetch(c)
  PROVE  IInv'
<1> DEFINE r == Due(conn[c])
           k == Shifted(conn[c])
<1>1. /\ Usable(c) /\ Idle(conn[c]) /\ RecordOk(conn[c])
      /\ conn' = [conn EXCEPT ![c] = k]
      /\ flights' = flights \cup {r}
      /\ asked' = [asked EXCEPT ![c] = Append(@, r)]
      /\ UNCHANGED <<table, sent, from, door, pulls, stopped, orphans>>
      /\ UNCHANGED <<done, over>>
  BY DEF ReadyFetch, IInv, Ranges, writing
<1>2. /\ r \in Request /\ r # None /\ Written(r, c) /\ asked[c] = <<>>
      /\ \A q \in Request : Written(q, c) => r <= q
      /\ \A q \in flights \cup pulls : from[q] # c
      /\ \A i \in 1..Len(Tail(conn[c].pending)) :
           Written(Tail(conn[c].pending)[i], c)
  BY <1>1, IdleFirst
<1>3. /\ RecordOk(k) /\ k.pending = Tail(conn[c].pending)
      /\ k.response = None /\ k.hup = FALSE
      /\ conn[c].response = None /\ table[c] = "open"
  BY <1>1, DueFacts DEF Idle, Usable
<1> HIDE DEF r, k
<1>4. conn'[c] = k /\ \A d \in Conns \ {c} : conn'[d] = conn[d]
  BY <1>1 DEF IInv, Ranges
<1>5. asked'[c] = <<r>> /\ \A d \in Conns \ {c} : asked'[d] = asked[d]
  BY <1>1, <1>2 DEF IInv, Ranges
<1>6. Ranges'
  <2>1. asked' \in [Conns -> Seq(Request)]
    BY <1>1, <1>2 DEF IInv, Ranges
  <2> QED
    BY <1>1, <1>2, <1>3, <1>4, <2>1 DEF IInv, Ranges
<1>7. Own'
  <2>1. \A i \in 1..Len(k.pending) : Written(k.pending[i], c)
    BY <1>2, <1>3
  <2>2. \A d \in Conns : \A i \in 1..Len(conn'[d].pending) :
          Written(conn'[d].pending[i], d)
    BY <1>4, <2>1 DEF IInv, Own
  <2>3. \A d \in Conns : conn'[d].response # None =>
          Written(conn'[d].response, d)
    BY <1>3, <1>4 DEF IInv, Own
  <2> QED
    BY <1>1, <1>2, <2>2, <2>3 DEF IInv, Own, Written
<1>8. Alone'
  BY <1>1, <1>2, <1>3, <1>4 DEF IInv, Alone, Ranges, Written
<1>9. HangupFinal'
  BY <1>1, <1>2, <1>3, <1>4 DEF IInv, HangupFinal, Waiting, Written
<1>10. Once'
  <2>1. First(c)'
    <3>1. Len(asked'[c]) = 1 /\ asked'[c] # <<>> /\ asked'[c][1] = r
      BY <1>5
    <3> QED
      BY <1>1, <1>2, <3>1 DEF First, Begun, Written
  <2>2. ASSUME NEW d \in Conns \ {c}
        PROVE  First(d)'
    BY <1>1, <1>4, <1>5 DEF IInv, Once, First, Begun, Written
  <2> QED
    BY <2>1, <2>2 DEF Once
<1>11. Accounted'
  BY <1>1, <1>2, <1>3 DEF IInv, Accounted, Written
<1>12. NoneAdrift'
  <2>1. SUFFICES ASSUME NEW q \in Request, door[q] # "none",
                        q \notin over \cup stopped \cup orphans
                 PROVE  table[from[q]] = "open" /\ conn'[from[q]].response = q
    BY <1>1 DEF NoneAdrift
  <2>2. table[from[q]] = "open" /\ conn[from[q]].response = q
    BY <2>1 DEF IInv, NoneAdrift
  <2>3. from[q] # c /\ from[q] \in Conns
    BY <1>3, <2>2, ConnectionAssumption DEF IInv, Ranges, Request, None
  <2> QED
    BY <1>4, <2>2, <2>3
<1> QED
  BY <1>6, <1>7, <1>8, <1>9, <1>10, <1>11, <1>12 DEF IInv

(* pumpAsync() of a request the policy refuses. *)
LEMMA ReadyRefusedKeeps ==
  ASSUME IInv, NEW c \in Conns, ReadyRefused(c)
  PROVE  IInv'
<1> DEFINE h == Shifted(conn[c])
           k == [h EXCEPT !.error = TRUE]
<1>1. /\ Usable(c) /\ Idle(conn[c]) /\ RecordOk(conn[c])
      /\ conn' = [conn EXCEPT ![c] = k]
      /\ UNCHANGED <<table, sent, from, door, flights, pulls, stopped>>
      /\ UNCHANGED <<orphans, asked, done, over>>
  BY DEF ReadyRefused, IInv, Ranges, writing, network
<1>2. /\ RecordOk(h) /\ h.pending = Tail(conn[c].pending)
      /\ h.response = None /\ h.hup = FALSE
  BY <1>1, DueFacts
<1> HIDE DEF h
<1>3. /\ RecordOk(k) /\ k.pending = Tail(conn[c].pending)
      /\ k.response = None /\ k.hup = FALSE /\ k.error
  BY <1>2 DEF RecordOk
<1> HIDE DEF k
<1>4. conn'[c] = k /\ \A d \in Conns \ {c} : conn'[d] = conn[d]
  BY <1>1 DEF IInv, Ranges
<1>5. Ranges'
  BY <1>1, <1>3, <1>4 DEF IInv, Ranges
<1>6. Dispatched(c)
  <2>1. Comes(conn'[c], Shifted(conn[c]), Due(conn[c]))
    BY <1>2, <1>3, <1>4 DEF Comes, h
  <2> QED
    BY <1>1, <1>3, <1>4, <2>1 DEF Dispatched, Others
<1> QED
  BY <1>5, <1>6, DispatchedKeeps

(* readyAsync() awaits the next piece of a body. *)
LEMMA ReadyPullKeeps ==
  ASSUME IInv, NEW c \in Conns, ReadyPull(c)
  PROVE  IInv'
<1> DEFINE r == conn[c].response
<1>1. /\ r \in Request /\ r <= sent /\ from[r] = c
      /\ \A q \in flights \cup pulls : from[q] # c
      /\ ~conn[c].hup
      /\ pulls' = pulls \cup {r}
      /\ UNCHANGED <<table, conn, sent, from, door, flights, stopped>>
      /\ UNCHANGED <<orphans, asked, done, over>>
  BY DEF ReadyPull, Usable, Waiting, IInv, Ranges, RecordOk, Own, Written,
         HangupFinal, writing
<1> HIDE DEF r
<1>2. Ranges' /\ Own'
  BY <1>1 DEF IInv, Ranges, Own, Written
<1>3. Alone'
  BY <1>1 DEF IInv, Alone
<1>4. HangupFinal'
  BY <1>1 DEF IInv, HangupFinal, Waiting
<1>5. Once' /\ Accounted' /\ NoneAdrift'
  BY <1>1 DEF IInv, Once, First, Begun, Written, Accounted, NoneAdrift
<1> QED
  BY <1>2, <1>3, <1>4, <1>5 DEF IInv

(* The await is over: the answer finds its connection, open or closed. *)
LEMMA FetchSettlesKeeps ==
  ASSUME IInv, NEW r \in Request, NEW outcome \in Outcomes,
         NEW held \in 0..MaxChunks, NEW whole \in BOOLEAN,
         FetchSettles(r, outcome, held, whole)
  PROVE  IInv'
<1>0. PICK c \in Conns : c = from[r]
  BY DEF IInv, Ranges
<1> DEFINE k == Delivered(conn[c], r, outcome)
<1>1. /\ r \in flights /\ flights' = flights \ {r}
      /\ conn' = [conn EXCEPT ![c] = k]
      /\ IF Opens(r, outcome)
           THEN /\ door' = [door EXCEPT ![r] = "async"]
                /\ done' = IF whole THEN done \cup {r} ELSE done
                /\ over' = IF whole THEN over \cup {r} ELSE over
           ELSE UNCHANGED <<door, done, over>>
      /\ UNCHANGED <<table, sent, from, pulls, stopped, orphans, asked>>
  BY <1>0 DEF FetchSettles, writing
<1>2. /\ c = from[r] /\ RecordOk(conn[c]) /\ r <= sent /\ r # None
      /\ conn[c].response = None
      /\ \A q \in flights \cup pulls : from[q] = c => q = r
      /\ r \notin pulls /\ ~conn[c].hup
  BY <1>0, <1>1, ConnectionAssumption
  DEF IInv, Ranges, Own, Alone, HangupFinal, Waiting, Request, None
<1>3. /\ RecordOk(k) /\ Comes(k, conn[c], r)
      /\ Opens(r, outcome) => k.response = r
  BY <1>2, DeliverComes
<1>4. /\ k.pending = conn[c].pending \/ k.pending = <<>>
      /\ k.response = None \/ k.response = r
      /\ k.hup => k.pending = <<>> /\ k.response = None
      /\ k.error \/ k.hup \/ k.response = r
      /\ \/ k.error \/ k.hup
         \/ /\ k.pending = conn[c].pending
            /\ k.error = conn[c].error /\ k.hup = conn[c].hup
  BY <1>2, <1>3 DEF Comes
<1> HIDE DEF k
<1>5. conn'[c] = k /\ \A d \in Conns \ {c} : conn'[d] = conn[d]
  BY <1>1, <1>2 DEF IInv, Ranges
<1>6. /\ \A q \in Request \ {r} : door'[q] = door[q]
      /\ door'[r] = door[r] \/ k.response = r
      /\ over \subseteq over' /\ done' \subseteq done \cup over'
  BY <1>1, <1>3 DEF IInv, Ranges
<1>7. Ranges'
  <2>1. /\ conn' = [d \in Conns |-> conn'[d]]
        /\ \A d \in Conns : RecordOk(conn'[d])
    BY <1>1, <1>3, <1>5 DEF IInv, Ranges
  <2>2. door' \in [Request -> {"none", "sync", "async"}]
    BY <1>1 DEF IInv, Ranges
  <2> QED
    BY <1>1, <2>1, <2>2 DEF IInv, Ranges
<1>8. Own'
  <2>1. \A i \in 1..Len(k.pending) : Written(k.pending[i], c)
    <3>1. CASE k.pending = <<>>
      BY <3>1
    <3>2. CASE k.pending = conn[c].pending
      BY <1>2, <3>2 DEF IInv, Own
    <3> QED
      BY <1>4, <3>1, <3>2
  <2> QED
    BY <1>1, <1>2, <1>4, <1>5, <1>6, <2>1 DEF IInv, Own, Written
<1>9. Alone'
  <2>1. \A f \in flights' : from[f] # c /\ from[f] \in Conns
    BY <1>1, <1>2 DEF IInv, Ranges
  <2> QED
    BY <1>1, <1>5, <2>1 DEF IInv, Alone
<1>10. HangupFinal'
  BY <1>1, <1>2, <1>4, <1>5 DEF IInv, HangupFinal, Waiting
<1>11. Once'
  <2>1. First(c)'
    BY <1>1, <1>2, <1>4, <1>5 DEF IInv, Once, First, Begun, Written
  <2>2. ASSUME NEW d \in Conns \ {c}
        PROVE  First(d)'
    BY <1>1, <1>2, <1>5 DEF IInv, Once, First, Begun, Written
  <2> QED
    BY <2>1, <2>2 DEF Once
<1>12. Accounted'
  BY <1>1, <1>6 DEF IInv, Accounted
<1>13. NoneAdrift'
  <2>1. SUFFICES ASSUME NEW q \in Request, door'[q] # "none",
                        q \notin over' \cup stopped \cup orphans
                 PROVE  table[from[q]] = "open" /\ conn'[from[q]].response = q
    BY <1>1 DEF NoneAdrift
  <2>2. CASE door'[q] # door[q]
    <3>1. q = r /\ conn'[c].response = r
      BY <1>5, <1>6, <2>2
    <3>2. table[c] = "open"
      BY <1>1, <1>2, <2>1, <3>1 DEF IInv, Accounted
    <3> QED
      BY <1>2, <3>1, <3>2
  <2>3. CASE door'[q] = door[q]
    <3>1. table[from[q]] = "open" /\ conn[from[q]].response = q
      BY <1>6, <2>1, <2>3 DEF IInv, NoneAdrift
    <3>2. from[q] # c /\ from[q] \in Conns
      BY <1>2, <3>1, ConnectionAssumption DEF IInv, Ranges, Request, None
    <3> QED
      BY <1>5, <3>1, <3>2
  <2> QED
    BY <2>2, <2>3
<1> QED
  BY <1>7, <1>8, <1>9, <1>10, <1>11, <1>12, <1>13 DEF IInv

(* close(), with an exchange in flight or without. *)
LEMMA CloseKeeps ==
  ASSUME IInv, NEW c \in Conns, Close(c)
  PROVE  IInv'
<1> DEFINE r == conn[c].response
<1>1. /\ table' = [table EXCEPT ![c] = "closed"]
      /\ orphans' = orphans \cup {q \in flights : from[q] = c}
      /\ UNCHANGED <<sent, from, door, flights, pulls, asked>>
  BY DEF Close, writing
<1>2. /\ over \subseteq over' /\ stopped \subseteq stopped'
      /\ done' \subseteq done \cup stopped'
      /\ r # None => r \in over' \cup stopped'
  BY DEF Close, Stopped
<1>3. /\ table'[c] = "closed"
      /\ \A d \in Conns \ {c} : /\ table'[d] = table[d]
                                /\ conn'[d] = conn[d]
      /\ conn'[c] = conn[c] \/ (conn'[c] = Fresh /\ ~Waiting(c))
      /\ conn' = [d \in Conns |-> conn'[d]]
      /\ table' \in [Conns -> {"new", "open", "closed"}]
  BY DEF Close, IInv, Ranges
<1>4. /\ RecordOk(Fresh) /\ Fresh.pending = <<>> /\ Fresh.response = None
      /\ ~Fresh.hup
  BY DEF RecordOk, Fresh
<1> HIDE DEF Fresh, r
<1>5. Ranges'
  BY <1>1, <1>3, <1>4 DEF IInv, Ranges
<1>6. Own'
  <2>1. \A i \in 1..Len(conn'[c].pending) : Written(conn'[c].pending[i], c)
    <3>1. CASE conn'[c] = conn[c]
      BY <3>1 DEF IInv, Own
    <3>2. CASE conn'[c] = Fresh
      <4>1. conn'[c].pending = <<>>
        BY <1>4, <3>2
      <4> QED
        BY <4>1
    <3> QED
      BY <1>3, <3>1, <3>2
  <2> QED
    BY <1>1, <1>3, <1>4, <2>1 DEF IInv, Own, Written
<1>7. Alone'
  <2>1. \A f \in flights : conn'[from[f]].response = None
    <3>1. \A f \in flights : from[f] \in Conns /\ conn[from[f]].response = None
      BY DEF IInv, Alone, Ranges
    <3> QED
      BY <1>3, <1>4, <3>1
  <2> QED
    BY <1>1, <2>1 DEF IInv, Alone
<1>8. HangupFinal'
  BY <1>1, <1>3, <1>4 DEF IInv, HangupFinal, Waiting
<1>9. Once'
  <2>1. First(c)'
    BY <1>1, <1>3 DEF IInv, Once, First, Written
  <2>2. ASSUME NEW d \in Conns \ {c}
        PROVE  First(d)'
    BY <1>1, <1>3 DEF IInv, Once, First, Begun, Written
  <2> QED
    BY <2>1, <2>2 DEF Once
<1>10. Accounted'
  <2>1. done' \subseteq over' \cup stopped'
    BY <1>2 DEF IInv, Accounted
  <2>2. \A f \in flights : table'[from[f]] # "open" => f \in orphans'
    BY <1>1, <1>3 DEF IInv, Accounted, Ranges
  <2> QED
    BY <1>1, <2>1, <2>2 DEF Accounted
<1>11. NoneAdrift'
  <2>1. SUFFICES ASSUME NEW q \in Request, door[q] # "none",
                        q \notin over' \cup stopped' \cup orphans'
                 PROVE  table'[from[q]] = "open" /\ conn'[from[q]].response = q
    BY <1>1 DEF NoneAdrift
  <2>2. table[from[q]] = "open" /\ conn[from[q]].response = q
    BY <1>1, <1>2, <2>1 DEF IInv, NoneAdrift
  <2>3. from[q] # c /\ from[q] \in Conns
    BY <1>2, <2>1, <2>2, ConnectionAssumption
    DEF IInv, Ranges, Request, None, r
  <2> QED
    BY <1>3, <2>2, <2>3
<1> QED
  BY <1>5, <1>6, <1>7, <1>8, <1>9, <1>10, <1>11 DEF IInv

(* send(): the requests written join the end of the queue. *)
LEMMA SendKeeps ==
  ASSUME IInv, NEW c \in Conns, NEW ms \in Writes, NEW bad \in BOOLEAN,
         Send(c, ms, bad)
  PROVE  IInv'
<1> DEFINE Now(q, d) == q <= sent' /\ from'[q] = d
<1> DEFINE n == Len(ms)
           p == conn[c].pending
           ids == [i \in 1..n |-> sent + i]
           h == [conn[c] EXCEPT !.pending = @ \o ids]
           k == [h EXCEPT !.error = bad]
<1>1. /\ table[c] = "open" /\ ~conn[c].error /\ ~conn[c].hup
      /\ sent + n <= Requests /\ sent' = sent + n
      /\ conn' = [conn EXCEPT ![c] = k]
      /\ from' = [r \in Request |-> IF r \in sent + 1..sent + n THEN c
                                    ELSE from[r]]
      /\ UNCHANGED <<table, door, flights, pulls, stopped, orphans>>
      /\ UNCHANGED <<asked, done, over>>
  BY DEF Send, Usable, network
<1>2. /\ sent \in Nat /\ n \in Nat /\ RecordOk(conn[c]) /\ p \in Seq(Request)
      /\ Requests \in Nat /\ Len(p) \in Nat
  BY ConnectionAssumption DEF IInv, Ranges, RecordOk, Writes
<1> HIDE DEF n, Now
<1>3. ids \in Seq(Request) /\ Len(ids) = n /\ \A i \in 1..n : ids[i] = sent + i
  <2>1. \A i \in 1..n : sent + i \in Request
    BY <1>1, <1>2 DEF Request
  <2> QED
    BY <1>2, <2>1
<1> HIDE DEF ids, p
<1>4. /\ p \o ids \in Seq(Request) /\ Len(p \o ids) = Len(p) + n
      /\ \A i \in 1..Len(p) : (p \o ids)[i] = p[i]
      /\ \A i \in 1..n : (p \o ids)[Len(p) + i] = sent + i
  <2>1. p \o ids \in Seq(Request) /\ Len(p \o ids) = Len(p) + n
    <3>1. p \in Seq(Request) /\ ids \in Seq(Request) /\ Len(ids) = n
      BY <1>2, <1>3
    <3> QED
      BY <3>1
  <2>2. \A i \in 1..Len(p) : (p \o ids)[i] = p[i]
    BY <1>2, <1>3
  <2>3. ASSUME NEW i \in 1..n
        PROVE  (p \o ids)[Len(p) + i] = sent + i
    <3>1. Len(p) + i \in 1..Len(p) + n /\ ~(Len(p) + i <= Len(p))
      BY <1>2
    <3>2. (p \o ids)[Len(p) + i] = ids[Len(p) + i - Len(p)]
      BY <1>2, <1>3, <3>1
    <3> QED
      BY <1>2, <1>3, <3>2
  <2> QED
    BY <2>1, <2>2, <2>3
<1>5. /\ RecordOk(h) /\ h.pending = p \o ids
      /\ h.response = conn[c].response /\ h.hup = conn[c].hup
  BY <1>2, <1>4 DEF RecordOk, p
<1> HIDE DEF h
<1>6. /\ RecordOk(k) /\ k.pending = p \o ids /\ k.error = bad
      /\ k.response = conn[c].response /\ k.hup = FALSE
  BY <1>1, <1>2, <1>5 DEF RecordOk
<1> HIDE DEF k
<1>7. conn'[c] = k /\ \A d \in Conns \ {c} : conn'[d] = conn[d]
  BY <1>1 DEF IInv, Ranges
<1>8. \A d \in Conns : conn'[d].response = conn[d].response
  BY <1>6, <1>7
<1>9. /\ sent <= sent' /\ sent' \in 0..Requests
      /\ \A q \in Request : q \in Int
      /\ \A q \in Request : q <= sent => from'[q] = from[q]
      /\ \A q \in Request : q <= sent' /\ ~(q <= sent) => from'[q] = c
      /\ from' \in [Request -> Conns]
  <2>1. \A q \in Request : q \in Int
    BY <1>2 DEF Request
  <2>2. from \in [Request -> Conns]
    BY DEF IInv, Ranges
  <2> QED
    BY <1>1, <1>2, <2>1, <2>2
<1>10. /\ \A q \in Request, d \in Conns :
            Now(q, d) => Written(q, d) \/ (d = c /\ ~(q <= sent))
       /\ \A q \in Request, d \in Conns : Written(q, d) => Now(q, d)
  BY <1>2, <1>9 DEF Written, Now
<1>11. Ranges'
  BY <1>1, <1>6, <1>7, <1>9 DEF IInv, Ranges
<1>12. \A i \in 1..Len(p) : p[i] \in Request /\ Written(p[i], c)
  BY <1>2 DEF IInv, Own, p
<1>13. Own'
  <2>1. \A i \in 1..Len(k.pending) : Now(k.pending[i], c)
    <3>1. ASSUME NEW i \in 1..Len(p) + n
          PROVE  Now((p \o ids)[i], c)
      <4>1. CASE i \in 1..Len(p)
        BY <1>4, <1>10, <1>12, <4>1
      <4>2. CASE i \notin 1..Len(p)
        <5>1. /\ i - Len(p) \in 1..n /\ Len(p) + (i - Len(p)) = i
          BY <1>2, <4>2
        <5>2. (p \o ids)[i] = sent + (i - Len(p))
          BY <1>4, <5>1
        <5>3. sent + (i - Len(p)) \in Request
          BY <1>1, <1>2, <5>1 DEF Request
        <5> QED
          BY <1>1, <1>2, <1>9, <5>1, <5>2, <5>3 DEF Now
      <4> QED
        BY <4>1, <4>2
    <3> QED
      BY <1>4, <1>6, <3>1
  <2>2. \A d \in Conns \ {c} : \A i \in 1..Len(conn'[d].pending) :
          Now(conn'[d].pending[i], d)
    <3>1. ASSUME NEW d \in Conns \ {c}, NEW i \in 1..Len(conn[d].pending)
          PROVE  Now(conn[d].pending[i], d)
      <4>1. conn[d].pending[i] \in Request
        BY DEF IInv, Ranges, RecordOk
      <4> QED
        BY <1>10, <4>1 DEF IInv, Own
    <3> QED
      BY <1>7, <3>1
  <2>3. \A d \in Conns : conn'[d].response # None =>
          Now(conn'[d].response, d)
    BY <1>8, <1>10 DEF IInv, Own, Ranges, RecordOk
  <2>4. /\ \A r \in flights \cup pulls : r <= sent'
        /\ \A r \in Request : door[r] # "none" => r <= sent'
    <3>1. \A r \in Request : r <= sent => r <= sent'
      BY <1>2, <1>9
    <3> QED
      BY <3>1 DEF IInv, Own, Ranges
  <2> QED
    BY <1>1, <1>7, <2>1, <2>2, <2>3, <2>4 DEF Own, Written, Now
<1>14. \A q \in flights \cup pulls : from'[q] = from[q] /\ q \in Request
  BY <1>9 DEF IInv, Own, Ranges
<1>15. Alone'
  <2>1. \A f \in flights : conn'[from'[f]].response = None
    BY <1>8, <1>14 DEF IInv, Alone, Ranges
  <2> QED
    BY <1>1, <1>14, <2>1 DEF IInv, Alone
<1>16. HangupFinal'
  BY <1>1, <1>6, <1>7, <1>14 DEF IInv, HangupFinal, Waiting
<1>17. Once'
  <2>1. First(c)'
    <3>1. First(c)
      BY DEF IInv, Once
    <3>2. ASSUME asked[c] # <<>>
          PROVE  /\ Now(asked[c][1], c)
                 /\ \A r \in Request : Now(r, c) => asked[c][1] <= r
                 /\ Begun(c)'
      <4>1. asked[c][1] \in Request /\ Written(asked[c][1], c)
        BY <3>1, <3>2 DEF First, IInv, Ranges
      <4>2. ASSUME NEW r \in Request, Now(r, c)
            PROVE  asked[c][1] <= r
        <5>1. CASE Written(r, c)
          BY <3>1, <3>2, <5>1 DEF First
        <5>2. CASE ~(r <= sent)
          BY <1>2, <1>9, <4>1, <5>2 DEF Now, Written
        <5> QED
          BY <1>10, <4>2, <5>1, <5>2
      <4>3. Begun(c)
        BY <1>1, <3>1, <3>2 DEF First
      <4>4. Begun(c)'
        BY <1>1, <1>7, <1>8, <1>14, <4>3 DEF Begun
      <4> QED
        BY <1>10, <4>1, <4>2, <4>4
    <3>3. ASSUME asked[c] = <<>>, NEW r \in Request, Now(r, c)
          PROVE  p \o ids # <<>> /\ Head(p \o ids) <= r
      <4>1. CASE p # <<>>
        <5>1. /\ p \o ids # <<>> /\ Head(p \o ids) = p[1] /\ Head(p) = p[1]
              /\ 1 \in 1..Len(p)
          BY <1>2, <1>3, <1>4, <4>1
        <5>2. p[1] \in Request /\ p[1] <= sent
          BY <1>12, <5>1 DEF Written
        <5>3. CASE Written(r, c)
          BY <1>1, <3>1, <3>3, <5>1, <5>3 DEF First, p
        <5>4. CASE ~(r <= sent)
          BY <1>2, <1>9, <5>1, <5>2, <5>4
        <5> QED
          BY <1>10, <3>3, <5>3, <5>4
      <4>2. CASE p = <<>>
        <5>1. ~Written(r, c)
          BY <1>1, <3>1, <3>3, <4>2 DEF First, p
        <5>2. ~(r <= sent) /\ r <= sent + n
          BY <1>1, <1>10, <3>3, <5>1 DEF Now
        <5>3. n >= 1 /\ sent + 1 <= r
          BY <1>2, <1>9, <5>2
        <5>4. /\ p \o ids # <<>> /\ Head(p \o ids) = (p \o ids)[1]
              /\ (p \o ids)[1] = sent + 1
          <6>1. Len(p) = 0 /\ 1 \in 1..n /\ Len(p) + 1 = 1
            BY <1>2, <4>2, <5>3
          <6> QED
            BY <1>2, <1>4, <6>1
        <5> QED
          BY <5>3, <5>4
      <4> QED
        BY <4>1, <4>2
    <3> QED
      BY <1>1, <1>6, <1>7, <3>1, <3>2, <3>3 DEF First, Written, Now
  <2>2. ASSUME NEW d \in Conns \ {c}
        PROVE  First(d)'
    <3>1. \A r \in Request : Now(r, d) <=> Written(r, d)
      BY <1>10
    <3>2. Begun(d)' <=> Begun(d)
      BY <1>1, <1>7, <1>14 DEF Begun
    <3>3. asked[d] # <<>> => asked[d][1] \in Request
      BY DEF IInv, Ranges
    <3> QED
      BY <1>1, <1>7, <3>1, <3>2, <3>3 DEF IInv, Once, First, Written, Now
  <2> QED
    BY <2>1, <2>2 DEF Once
<1>18. Accounted'
  BY <1>1, <1>14 DEF IInv, Accounted
<1>19. NoneAdrift'
  BY <1>1, <1>8, <1>9 DEF IInv, NoneAdrift, Own, Ranges
<1> QED
  BY <1>11, <1>13, <1>15, <1>16, <1>17, <1>18, <1>19 DEF IInv

-----------------------------------------------------------------------------
(* Every run starts in the invariant. *)
LEMMA Initially == Init => IInv
<1> SUFFICES ASSUME Init PROVE IInv
  OBVIOUS
<1> USE ConnectionAssumption DEF Init
<1>1. (CHOOSE c \in Conns : TRUE) \in Conns
  OBVIOUS
<1>2. RecordOk(Fresh)
  BY DEF RecordOk, Fresh
<1>3. Ranges
  <2>1. from \in [Request -> Conns]
    BY <1>1
  <2> QED
    BY <1>2, <2>1 DEF Ranges
<1>4. Own /\ Alone
  <2>1. \A c \in Conns : Len(conn[c].pending) = 0 /\ conn[c].response = None
    BY DEF Fresh
  <2> QED
    BY <2>1 DEF Own, Alone
<1>5. HangupFinal /\ NoneAdrift /\ Accounted
  BY DEF HangupFinal, NoneAdrift, Accounted, Fresh
<1>6. Once
  <2>1. sent = 0 /\ asked = [c \in Conns |-> <<>>]
    OBVIOUS
  <2> HIDE DEF Init
  <2>2. \A r \in Request, c \in Conns : ~Written(r, c)
    <3>1. \A r \in Request : ~(r <= 0)
      BY DEF Request
    <3> QED
      BY <2>1, <3>1 DEF Written
  <2>3. ASSUME NEW c \in Conns
        PROVE  asked[c] = <<>> /\ Len(asked[c]) <= 1
    <3>1. asked[c] = <<>>
      BY <2>1
    <3>2. Len(asked[c]) = 0
      BY <3>1
    <3> QED
      BY <3>1, <3>2
  <2> QED
    BY <2>2, <2>3 DEF Once, First
<1> QED
  BY <1>3, <1>4, <1>5, <1>6 DEF IInv

(* Every step keeps it. *)
LEMMA IInvInductive ==
  ASSUME IInv, [Next]_vars
  PROVE  IInv'
<1>1. ASSUME NEW c \in Conns, Recv(c)
      PROVE  IInv'
  <2>1. ASSUME NEW max \in 1..2, NEW outcome \in Outcomes,
               RecvOutbox(c, max, outcome)
        PROVE  IInv'
    <3>1. CASE Idle(conn[c])
      BY <2>1, <3>1, DispatchCalls, DispatchedKeeps DEF IInv
    <3>2. CASE ~Idle(conn[c])
      BY <2>1, <3>2, QuietCalls, QuietKeeps DEF IInv
    <3> QED
      BY <3>1, <3>2
  <2>2. ASSUME NEW max \in 1..2, RecvBlocking(c, max) \/ RecvAwaited(c, max)
        PROVE  IInv'
    <3>1. "refused" \in Outcomes
      BY DEF Outcomes
    <3> QED
      BY <2>2, <3>1, QuietCalls, QuietKeeps DEF IInv
  <2>3. ASSUME NEW outcome \in Outcomes, RecvError(c, outcome)
        PROVE  IInv'
    <3>1. 1 \in 1..2
      OBVIOUS
    <3> QED
      BY <2>3, <3>1, DispatchCalls, DispatchedKeeps DEF IInv
  <2>4. CASE RecvEnd(c)
    BY <2>4, RecvEndKeeps
  <2>5. CASE RecvHup(c)
    <3>1. "refused" \in Outcomes /\ 1 \in 1..2
      BY DEF Outcomes
    <3> QED
      BY <2>5, <3>1, QuietCalls, QuietKeeps DEF IInv
  <2> QED
    BY <1>1, <2>1, <2>2, <2>3, <2>4, <2>5 DEF Recv
<1>2. ASSUME NEW c \in Conns, ReadyAsync(c)
      PROVE  IInv'
  BY <1>2, ReadyFetchKeeps, ReadyRefusedKeeps, ReadyPullKeeps DEF ReadyAsync
<1>3. ASSUME NEW c \in Conns, Connect(c) \/ Close(c)
      PROVE  IInv'
  BY <1>3, ConnectKeeps, CloseKeeps
<1>4. ASSUME NEW c \in Conns, NEW ms \in Writes, NEW bad \in BOOLEAN,
             Send(c, ms, bad)
      PROVE  IInv'
  BY <1>4, SendKeeps
<1>5. ASSUME NEW r \in Request, Settle(r) \/ TimerFires(r)
      PROVE  IInv'
  <2>1. CASE PullChunk(r) \/ PullEnd(r) \/ TimerFires(r)
    BY <2>1, QuietSettles, QuietKeeps DEF IInv
  <2> QED
    BY <1>5, <2>1, FetchSettlesKeeps DEF Settle
<1>6. CASE UNCHANGED vars
  <2>1. Quiet /\ Ranges'
    BY <1>6 DEF IInv, Ranges, Quiet, SameKey, vars, writing, network
  <2> QED
    BY <2>1, QuietKeeps
<1> QED
  BY <1>1, <1>2, <1>3, <1>4, <1>5, <1>6 DEF Next

(* IInv holds of every state the outbound half of core.mjs reaches. *)
THEOREM Invariance == Spec => []IInv
BY Initially, IInvInductive, PTL DEF Spec

(* pump() and pumpAsync() between them send one request on a connection,   *)
(* the first the guest wrote, for any number of connections and requests.  *)
THEOREM OneExchangeEach == Spec => []OneExchange
<1>1. ASSUME IInv PROVE OneExchange
  <2>1. SUFFICES ASSUME NEW c \in Conns, asked[c] # <<>>
                 PROVE  /\ Len(asked[c]) = 1
                        /\ \A r \in Request :
                             r <= sent /\ from[r] = c => asked[c][1] <= r
    BY DEF OneExchange
  <2>2. First(c) /\ asked[c] \in Seq(Request)
    BY <1>1 DEF IInv, Once, Ranges
  <2>3. Len(asked[c]) <= 1
    BY <2>2 DEF First
  <2>4. Len(asked[c]) = 1
    <3> DEFINE n == Len(asked[c])
    <3>1. n \in Nat /\ n >= 1 /\ n <= 1
      BY <2>1, <2>2, <2>3
    <3> HIDE DEF n
    <3>2. n = 1
      BY <3>1
    <3> QED
      BY <3>2 DEF n
  <2> QED
    BY <2>1, <2>2, <2>4 DEF First, Written
<1> QED
  BY <1>1, Invariance, PTL

(* After spend() a connection of core.mjs has nothing queued, nothing open *)
(* and nothing awaited.                                                    *)
THEOREM HangupsFinal == Spec => []HangupFinal
<1>1. IInv => HangupFinal
  BY DEF IInv
<1> QED
  BY <1>1, Invariance, PTL

(* A response of either door that is still being produced is the one a     *)
(* live connection holds, or came to a connection closed in its flight.    *)
THEOREM NoneLeftAdrift == Spec => []NoneAdrift
<1>1. IInv => NoneAdrift
  BY DEF IInv
<1> QED
  BY <1>1, Invariance, PTL
=============================================================================
