----------------------- MODULE ConnectionStreamProofs -----------------------
(***************************************************************************)
(* A machine-checked proof that Connection implements AnswerStream, for    *)
(* every number of connections, requests and chunks: whatever the calls,   *)
(* the answers and the deadlines do to each other, on either door, a       *)
(* connection is a stream of one answer.                                   *)
(***************************************************************************)
EXTENDS ConnectionBytesProofs

(* A step that gives nothing to a connection that had nothing, and neither *)
(* opens nor ends a response.                                              *)
Shows(k, g) == g # <<>> \/ k.outbox # <<>> \/ k.response # None
Calm ==
  /\ \A d \in Conns :
       /\ conn'[d].response = conn[d].response /\ conn'[d].hup = conn[d].hup
       /\ Shows(conn'[d], got'[d]) => Shows(conn[d], got[d])
  /\ table' = table /\ door' = door /\ over' = over
  /\ done \subseteq done' /\ pulls' \subseteq pulls

LEMMA CalmKeeps ==
  ASSUME SInv, Calm
  PROVE  SInv'
<1>1. ASSUME NEW d \in Conns PROVE Held(d)' /\ Unended(d)'
  <2>1. Held(d) /\ Unended(d)
    BY DEF SInv
  <2>2. Held(d)'
    BY <2>1 DEF Calm, Held, Shows
  <2>3. Unended(d)'
    BY <2>1 DEF Calm, Unended
  <2> QED
    BY <2>2, <2>3
<1>2. ASSUME NEW q \in Request PROVE Ending(q)'
  BY DEF SInv, Calm, Ending
<1> QED
  BY <1>1, <1>2 DEF SInv

(* A step of connection c leaves what is held of the others. *)
Apart(c) ==
  /\ \A d \in Conns \ {c} :
       conn'[d] = conn[d] /\ got'[d] = got[d] /\ table'[d] = table[d]
  /\ \A q \in Request : from[q] # c =>
       /\ door'[q] = door[q] /\ (q \in over' => q \in over)
       /\ (q \in done => q \in done') /\ (q \in pulls' => q \in pulls)

LEMMA ApartKeeps ==
  ASSUME IInv, SInv, NEW c \in Conns, Apart(c), Held(c)', Unended(c)',
         \A q \in Request : from[q] = c => Ending(q)'
  PROVE  SInv'
<1>1. ASSUME NEW d \in Conns, d # c PROVE Held(d)' /\ Unended(d)'
  <2>1. /\ Held(d) /\ Unended(d)
        /\ conn'[d] = conn[d] /\ got'[d] = got[d] /\ table'[d] = table[d]
    BY <1>1 DEF SInv, Apart
  <2>2. conn[d].response # None =>
          conn[d].response \in Request /\ from[conn[d].response] = d
    BY DEF IInv, Ranges, RecordOk, Own, Written
  <2>3. Held(d)'
    BY <2>1 DEF Held
  <2>4. Unended(d)'
    BY <1>1, <2>1, <2>2 DEF Unended, Apart
  <2> QED
    BY <2>3, <2>4
<1>2. ASSUME NEW q \in Request, from[q] # c PROVE Ending(q)'
  <2>1. Ending(q)
    BY DEF SInv
  <2> QED
    BY <1>2, <2>1 DEF Ending, Apart
<1> QED
  BY <1>1, <1>2 DEF SInv

-----------------------------------------------------------------------------
(* The calls that show nothing new. *)
LEMMA CalmCalls ==
  ASSUME IInv, BInv, NEW c \in Conns, NEW max \in 1..2, NEW outcome \in Outcomes,
         \/ RecvOutbox(c, max, outcome) /\ ~Idle(conn[c])
         \/ RecvBlocking(c, max) \/ RecvAwaited(c, max) \/ RecvHup(c)
  PROVE  Calm
<1>1. CASE RecvOutbox(c, max, outcome) /\ ~Idle(conn[c])
  <2> DEFINE k == conn[c]
             e == Cut(k, Upto(k, max))
  <2>1. /\ conn' = [conn EXCEPT ![c] = e] /\ k.outbox # <<>>
        /\ \A d \in Conns \ {c} : got'[d] = got[d]
        /\ UNCHANGED <<table, door, over, done, pulls>>
    BY <1>1 DEF RecvOutbox, PumpEffects, Pumped, Cut, Upto, BInv, Typed
  <2>2. k \in Record
    BY DEF BInv, Typed
  <2>3. e.response = k.response /\ e.hup = k.hup
    BY <2>2 DEF Cut, Record
  <2> HIDE DEF e
  <2>4. \A d \in Conns : conn'[d] = IF d = c THEN e ELSE conn[d]
    BY <2>1 DEF BInv, Typed
  <2> QED
    BY <2>1, <2>3, <2>4 DEF Calm, Shows
<1>2. CASE RecvBlocking(c, max) \/ RecvAwaited(c, max)
  <2>1. PICK p : TakenPiece(c, p, max) /\ conn[c].response # None
    BY <1>2 DEF RecvBlocking, RecvAwaited, Readable
  <2> DEFINE e == Kept(conn[c], p, max)
  <2>2. /\ conn' = [conn EXCEPT ![c] = e]
        /\ \A d \in Conns \ {c} : got'[d] = got[d]
        /\ UNCHANGED <<table, door, over, done, pulls>>
    BY <2>1 DEF TakenPiece, Kept, BInv, Typed
  <2>3. e.response = conn[c].response /\ e.hup = conn[c].hup
    <3>1. conn[c] \in Record
      BY DEF BInv, Typed
    <3> QED
      BY <3>1 DEF Kept, Queued, Record
  <2> HIDE DEF e
  <2>4. \A d \in Conns : conn'[d] = IF d = c THEN e ELSE conn[d]
    BY <2>2 DEF BInv, Typed
  <2> QED
    BY <2>1, <2>2, <2>3, <2>4 DEF Calm, Shows
<1>3. CASE RecvHup(c)
  BY <1>3 DEF RecvHup, Calm, Shows, network
<1> QED
  BY <1>1, <1>2, <1>3

LEMMA CalmWrites ==
  ASSUME IInv, BInv, NEW c \in Conns, NEW ms \in Writes, NEW bad \in BOOLEAN,
         Send(c, ms, bad)
  PROVE  Calm
<1> DEFINE p == conn[c].pending \o [i \in 1..Len(ms) |-> sent + i]
           k == [conn[c] EXCEPT !.pending = p, !.error = bad]
<1>1. /\ conn' = [conn EXCEPT ![c] = k]
      /\ UNCHANGED <<table, door, over, done, pulls, got>>
  BY DEF Send, network, BInv, Typed
<1> HIDE DEF p
<1>2. /\ k.response = conn[c].response /\ k.hup = conn[c].hup
      /\ k.outbox = conn[c].outbox
  <2>1. conn[c] \in Record
    BY DEF BInv, Typed
  <2> QED
    BY <2>1 DEF Record
<1> HIDE DEF k
<1>3. \A d \in Conns : conn'[d] = IF d = c THEN k ELSE conn[d]
  BY <1>1 DEF BInv, Typed
<1> QED
  BY <1>1, <1>2, <1>3 DEF Calm, Shows

LEMMA CalmAsks ==
  ASSUME IInv, BInv, NEW c \in Conns, NEW outcome \in Outcomes,
         RecvError(c, outcome) \/ ReadyFetch(c) \/ ReadyRefused(c)
  PROVE  Calm
<1> DEFINE r == Due(conn[c])
           k == Shifted(conn[c])
           d == Delivered(k, r, outcome)
           s == [k EXCEPT !.error = TRUE]
<1>1. /\ Usable(c) /\ Idle(conn[c])
      /\ UNCHANGED <<table, over, done, pulls, got>>
  BY DEF RecvError, ReadyFetch, ReadyRefused, network
<1>2. /\ r \in Request /\ conn[c].outbox = <<>>
      /\ conn[c].response = None /\ conn[c].hup = FALSE
  BY <1>1, Unasked
<1>3. /\ k \in Record /\ k.outbox = <<>> /\ k.response = None /\ k.hup = FALSE
  BY <1>1, ShiftedIs DEF BInv, Typed
<1>4. CASE RecvError(c, outcome)
  <2>1. /\ conn' = [conn EXCEPT ![c] = d] /\ outcome \in Failing
        /\ door' = [door EXCEPT ![r] = IF Opens(r, outcome) THEN "sync" ELSE @]
    BY <1>1, <1>4 DEF RecvError, PumpEffects, Pumped
  <2>2. Answered(d, k, r, outcome) /\ ~Opens(r, outcome)
    BY <1>2, <1>3, <2>1, DeliveredIs DEF Opens, Failing
  <2> HIDE DEF d, k, r
  <2>3. d.outbox = <<>> /\ d.response = None /\ d.hup = FALSE
    BY <1>3, <2>1, <2>2 DEF Answered
  <2>4. door' = door /\ \A e \in Conns : conn'[e] = IF e = c THEN d ELSE conn[e]
    BY <2>1, <2>2 DEF BInv, Typed
  <2> QED
    BY <1>1, <1>2, <2>3, <2>4 DEF Calm, Shows
<1>5. CASE ReadyFetch(c) \/ ReadyRefused(c)
  <2>1. /\ conn' = [conn EXCEPT ![c] = k] \/ conn' = [conn EXCEPT ![c] = s]
        /\ door' = door
    BY <1>5 DEF ReadyFetch, ReadyRefused, network
  <2> HIDE DEF k
  <2>2. s.outbox = <<>> /\ s.response = None /\ s.hup = FALSE
    BY <1>3 DEF Record
  <2> HIDE DEF s
  <2>3. PICK j : conn' = [conn EXCEPT ![c] = j] /\ (j = k \/ j = s)
    BY <2>1
  <2>4. \A e \in Conns : conn'[e] = IF e = c THEN j ELSE conn[e]
    BY <2>3 DEF BInv, Typed
  <2> QED
    BY <1>1, <1>2, <1>3, <2>1, <2>2, <2>3, <2>4 DEF Calm, Shows
<1> QED
  BY <1>4, <1>5

LEMMA CalmSettles ==
  ASSUME NEW r \in Request, PullChunk(r) \/ TimerFires(r)
  PROVE  Calm
BY DEF PullChunk, TimerFires, Calm, Shows

-----------------------------------------------------------------------------
(* connect() and close(). *)
LEMMA ConnectHolds ==
  ASSUME IInv, BInv, SInv, NEW c \in Conns, Connect(c)
  PROVE  SInv'
<1>1. /\ table[c] = "new" /\ table' = [table EXCEPT ![c] = "open"]
      /\ UNCHANGED <<conn, door, over, done, pulls, got>>
  BY DEF Connect, network
<1>2. Apart(c)
  BY <1>1 DEF Apart, BInv, Typed
<1>3. Held(c)' /\ Unended(c)'
  BY <1>1 DEF SInv, Held, Unended
<1>4. \A q \in Request : Ending(q)'
  BY <1>1 DEF SInv, Ending
<1> QED
  BY <1>2, <1>3, <1>4, ApartKeeps

LEMMA CloseHolds ==
  ASSUME IInv, BInv, SInv, NEW c \in Conns, Close(c)
  PROVE  SInv'
<1> DEFINE r == conn[c].response
<1>1. /\ table' = [table EXCEPT ![c] = "closed"]
      /\ conn' = IF Waiting(c) THEN conn ELSE [conn EXCEPT ![c] = Fresh]
      /\ UNCHANGED <<door, pulls, got>>
      /\ over' = over \/ (over' = over \cup {r} /\ r # None /\ door[r] = "sync")
      /\ done \subseteq done'
  BY DEF Close, Stopped
<1>2. r # None => r \in Request /\ from[r] = c
  BY DEF IInv, Ranges, RecordOk, Own, Written
<1> HIDE DEF r
<1>3. Apart(c)
  BY <1>1, <1>2 DEF Apart, BInv, Typed
<1>4. table'[c] = "closed"
  BY <1>1 DEF BInv, Typed
<1>5. Held(c)' /\ Unended(c)'
  BY <1>4 DEF Held, Unended
<1>6. ASSUME NEW q \in Request PROVE Ending(q)'
  <2>1. Ending(q) /\ (q \in pulls => door[q] = "async")
    BY DEF SInv, BInv, Opened
  <2> QED
    BY <1>1, <2>1 DEF Ending
<1> QED
  BY <1>3, <1>5, <1>6, ApartKeeps

(* The head, taken by the read that asks for it, *)
LEMMA RecvFirstHolds ==
  ASSUME IInv, BInv, SInv, NEW c \in Conns, NEW max \in 1..2,
         NEW outcome \in Outcomes, RecvOutbox(c, max, outcome), Idle(conn[c])
  PROVE  SInv'
<1>0. PICK r \in Request : r = Due(conn[c])
  BY Unasked DEF RecvOutbox
<1> DEFINE k == Shifted(conn[c])
           d == Delivered(k, r, outcome)
           upto == Upto(d, max)
           e == Cut(d, upto)
<1>1. /\ Usable(c) /\ d.outbox # <<>>
      /\ conn' = [conn EXCEPT ![c] = e]
      /\ \A b \in Conns \ {c} : got'[b] = got[b]
      /\ door' = [door EXCEPT ![r] = IF Opens(r, outcome) THEN "sync" ELSE @]
      /\ UNCHANGED <<table, done, pulls, over>>
  BY <1>0 DEF RecvOutbox, PumpEffects, Pumped, Cut, Upto, BInv, Typed
<1>2. /\ from[r] = c /\ conn[c].outbox = <<>> /\ door[r] = "none" /\ r \notin pulls
  BY <1>0, <1>1, Unasked
<1>3. k \in Record /\ k.outbox = <<>> /\ k.response = None /\ k.hup = FALSE
  BY <1>1, ShiftedIs DEF BInv, Typed
<1> HIDE DEF k
<1>4. d \in Record /\ Answered(d, k, r, outcome)
  BY <1>3, DeliveredIs
<1>5. e.response = d.response /\ e.hup = d.hup
  BY <1>4 DEF Cut, Record
<1> HIDE DEF d, e, upto
<1>6. outcome \notin Failing /\ r # None /\ (d.response = r \/ d.response = None)
      /\ (d.response # None \/ d.hup)
  <2>1. outcome \notin Failing
    BY <1>1, <1>4 DEF Answered
  <2>2. r # None
    BY ConnectionAssumption DEF Request, None
  <2> QED
    BY <1>3, <1>4, <2>1, <2>2 DEF Answered
<1>7. conn'[c] = e /\ \A b \in Conns \ {c} : conn'[b] = conn[b]
  BY <1>1 DEF BInv, Typed
<1>8. \A q \in Request \ {r} : door'[q] = door[q]
  BY <1>1 DEF BInv, Typed
<1>9. r \notin over
  BY <1>2 DEF SInv, Ending
<1>10. Apart(c)
  BY <1>1, <1>2, <1>7, <1>8 DEF Apart
<1>11. Held(c)' /\ Unended(c)'
  BY <1>1, <1>5, <1>6, <1>7, <1>9 DEF Held, Unended
<1>12. ASSUME NEW q \in Request PROVE Ending(q)'
  BY <1>1, <1>2, <1>8, <1>9 DEF SInv, Ending
<1> QED
  BY <1>10, <1>11, <1>12, ApartKeeps

(* or awaited. *)
LEMMA FetchSettlesHolds ==
  ASSUME IInv, BInv, SInv, NEW r \in Request, NEW outcome \in Outcomes,
         NEW held \in 0..MaxChunks, NEW whole \in BOOLEAN,
         FetchSettles(r, outcome, held, whole)
  PROVE  SInv'
<1> PICK c \in Conns : c = from[r]
  BY DEF BInv, Typed
<1> DEFINE k == conn[c]
           d == Delivered(k, r, outcome)
<1>1. /\ r \in flights /\ conn' = [conn EXCEPT ![c] = d]
      /\ UNCHANGED <<table, pulls, got>>
      /\ Opens(r, outcome) =>
           /\ door' = [door EXCEPT ![r] = "async"]
           /\ \/ over' = over /\ done' = done
              \/ over' = over \cup {r} /\ done' = done \cup {r}
      /\ ~Opens(r, outcome) => UNCHANGED <<door, over, done>>
  <2>1. /\ r \in flights /\ conn' = [conn EXCEPT ![c] = d]
        /\ UNCHANGED <<table, pulls, got>>
    BY DEF FetchSettles
  <2> HIDE DEF d
  <2>2. CASE Opens(r, outcome)
    BY <2>1, <2>2 DEF FetchSettles
  <2>3. CASE ~Opens(r, outcome)
    BY <2>1, <2>3 DEF FetchSettles
  <2> QED
    BY <2>2, <2>3
<1>2. /\ door[r] = "none" /\ got[c] = <<>> /\ k.outbox = <<>> /\ k \in Record
      /\ r \notin pulls /\ r \notin over
  BY <1>1 DEF BInv, Typed, Opened, IInv, Alone, SInv, Ending
<1>3. k.response = None
  BY <1>1 DEF IInv, Alone
<1>4. d \in Record /\ Answered(d, k, r, outcome)
  BY <1>2, DeliveredIs
<1> HIDE DEF d, k
<1>5. conn'[c] = d /\ \A b \in Conns \ {c} : conn'[b] = conn[b]
  BY <1>1 DEF BInv, Typed
<1>6. \A q \in Request \ {r} :
        door'[q] = door[q] /\ (q \in over' => q \in over) /\ (q \in done => q \in done')
  BY <1>1 DEF BInv, Typed
<1>7. Apart(c)
  BY <1>1, <1>5, <1>6 DEF Apart
<1>8. Held(c)'
  <2>1. outcome \in Failing => d.outbox = <<>>
    BY <1>4 DEF Answered
  <2>2. outcome \notin Failing => d.response # None \/ d.hup
    <3>1. r # None
      BY ConnectionAssumption DEF Request, None
    <3> QED
      BY <1>4, <3>1 DEF Answered
  <2> QED
    BY <1>1, <1>2, <1>5, <2>1, <2>2 DEF Held
<1>9. Unended(c)'
  <2>1. d.response # None => d.response = r /\ Opens(r, outcome)
    BY <1>3, <1>4 DEF Answered
  <2>2. Opens(r, outcome) => door'[r] = "async"
    BY <1>1 DEF BInv, Typed
  <2> QED
    BY <1>5, <2>1, <2>2 DEF Unended
<1>10. ASSUME NEW q \in Request PROVE Ending(q)'
  <2>1. Ending(q)
    BY DEF SInv
  <2>2. CASE q = r
    <3>1. Opens(r, outcome) => door'[r] = "async"
      BY <1>1 DEF BInv, Typed
    <3> QED
      BY <1>1, <1>2, <2>2, <3>1 DEF Ending
  <2>3. CASE q # r
    BY <1>1, <1>6, <2>1, <2>3 DEF Ending
  <2> QED
    BY <2>2, <2>3
<1> QED
  BY <1>7, <1>8, <1>9, <1>10, ApartKeeps

(* The end of a body, read or awaited, and the await. *)
LEMMA RecvEndHolds ==
  ASSUME IInv, BInv, SInv, NEW c \in Conns, RecvEnd(c)
  PROVE  SInv'
<1>1. Readable(c)
  BY DEF RecvEnd
<1>2. PICK r \in Request : r = conn[c].response
  BY <1>1, Reads
<1>3. from[r] = c /\ r \notin pulls
  <2>1. Usable(c) /\ r = Lead(c) /\ asked[c] # <<>>
    BY <1>1, <1>2, Reads
  <2> QED
    BY <2>1, LeadIs DEF Usable, Waiting
<1> DEFINE h == [conn[c] EXCEPT !.response = None]
           k == Spent(h)
<1>4. /\ conn' = [conn EXCEPT ![c] = k]
      /\ over' = IF door[r] = "sync" THEN over \cup {r} ELSE over
      /\ UNCHANGED <<table, door, done, pulls, got>>
  BY <1>2 DEF RecvEnd, BInv, Typed
<1>5. k.response = None /\ k.hup = TRUE
  <2>1. conn[c] \in Record
    BY DEF BInv, Typed
  <2>2. h \in Record /\ h.response = None
    BY <2>1 DEF Record
  <2> HIDE DEF h
  <2> QED
    BY <2>2, SpentIs
<1> HIDE DEF k
<1>6. conn'[c] = k /\ \A b \in Conns \ {c} : conn'[b] = conn[b]
  BY <1>4 DEF BInv, Typed
<1>7. Apart(c)
  BY <1>3, <1>4, <1>6 DEF Apart
<1>8. Held(c)' /\ Unended(c)'
  BY <1>5, <1>6 DEF Held, Unended
<1>9. ASSUME NEW q \in Request PROVE Ending(q)'
  BY <1>3, <1>4 DEF SInv, Ending
<1> QED
  BY <1>7, <1>8, <1>9, ApartKeeps

LEMMA PullEndHolds ==
  ASSUME IInv, BInv, SInv, NEW r \in Request, PullEnd(r)
  PROVE  SInv'
<1>1. /\ r \in pulls /\ pulls' = pulls \ {r} /\ door[r] = "async"
      /\ done' = done \cup {r} /\ over' = over \cup {r}
      /\ UNCHANGED <<table, conn, door, got>>
  BY DEF PullEnd, BInv, Opened
<1>2. ASSUME NEW d \in Conns PROVE Held(d)' /\ Unended(d)'
  BY <1>1 DEF SInv, Held, Unended
<1>3. ASSUME NEW q \in Request PROVE Ending(q)'
  BY <1>1 DEF SInv, Ending
<1> QED
  BY <1>2, <1>3 DEF SInv

LEMMA ReadyPullHolds ==
  ASSUME IInv, BInv, SInv, NEW c \in Conns, ReadyPull(c)
  PROVE  SInv'
<1> DEFINE r == conn[c].response
<1>1. /\ Usable(c) /\ r # None /\ door[r] # "sync" /\ r \notin done
      /\ pulls' = pulls \cup {r}
      /\ UNCHANGED <<table, conn, door, over, done, got>>
  BY DEF ReadyPull, Ready
<1>2. door[r] = "async" /\ r \notin over
  <2>1. Given(c) /\ Going(c) /\ table[c] = "open"
    BY <1>1, AtHome
  <2>2. r = Lead(c) /\ door[r] # "none" /\ asked[c] # <<>>
    BY <1>1, <2>1 DEF Given, Going
  <2>3. r \in Request
    BY <2>2, LeadIs
  <2> QED
    BY <1>1, <2>2, <2>3 DEF BInv, Typed, SInv, Ending
<1> HIDE DEF r
<1>3. ASSUME NEW d \in Conns PROVE Held(d)' /\ Unended(d)'
  BY <1>1 DEF SInv, Held, Unended
<1>4. ASSUME NEW q \in Request PROVE Ending(q)'
  BY <1>1, <1>2 DEF SInv, Ending
<1> QED
  BY <1>3, <1>4 DEF SInv

-----------------------------------------------------------------------------
(* SInv holds at first, every step keeps it, and it holds with the others. *)
LEMMA StreamInit == Init => SInv
<1> SUFFICES ASSUME Init PROVE SInv
  OBVIOUS
<1>1. ASSUME NEW c \in Conns PROVE Held(c) /\ Unended(c)
  BY DEF Init, Fresh, Held, Unended
<1>2. ASSUME NEW q \in Request PROVE Ending(q)
  BY DEF Init, Ending
<1> QED
  BY <1>1, <1>2 DEF SInv

LEMMA StreamStep == IInv /\ BInv /\ SInv /\ [Next]_vars => SInv'
<1> SUFFICES ASSUME IInv, BInv, SInv, [Next]_vars PROVE SInv'
  OBVIOUS
<1>1. CASE UNCHANGED vars
  <2>1. Calm
    BY <1>1 DEF vars, Calm, Shows, network
  <2> QED
    BY <2>1, CalmKeeps
<1>2. ASSUME NEW c \in Conns, Connect(c) \/ Close(c) PROVE SInv'
  BY <1>2, ConnectHolds, CloseHolds
<1>3. ASSUME NEW c \in Conns, NEW ms \in Writes, NEW bad \in BOOLEAN,
             Send(c, ms, bad)
      PROVE  SInv'
  BY <1>3, CalmWrites, CalmKeeps
<1>4. ASSUME NEW c \in Conns, Recv(c) PROVE SInv'
  <2>1. ASSUME NEW max \in 1..2, NEW outcome \in Outcomes,
               RecvOutbox(c, max, outcome)
        PROVE  SInv'
    BY <2>1, RecvFirstHolds, CalmCalls, CalmKeeps
  <2>2. "error" \in Outcomes /\ 1 \in 1..2
    BY DEF Outcomes
  <2>3. ASSUME NEW max \in 1..2, RecvBlocking(c, max) \/ RecvAwaited(c, max)
        PROVE  SInv'
    BY <2>2, <2>3, CalmCalls, CalmKeeps
  <2>4. ASSUME NEW outcome \in Outcomes, RecvError(c, outcome) PROVE SInv'
    BY <2>4, CalmAsks, CalmKeeps
  <2>5. CASE RecvEnd(c)
    BY <2>5, RecvEndHolds
  <2>6. CASE RecvHup(c)
    BY <2>2, <2>6, CalmCalls, CalmKeeps
  <2> QED
    BY <1>4, <2>1, <2>3, <2>4, <2>5, <2>6 DEF Recv
<1>5. ASSUME NEW c \in Conns, ReadyAsync(c) PROVE SInv'
  <2>1. "error" \in Outcomes
    BY DEF Outcomes
  <2> QED
    BY <1>5, <2>1, CalmAsks, CalmKeeps, ReadyPullHolds DEF ReadyAsync
<1>6. ASSUME NEW r \in Request, Settle(r) PROVE SInv'
  BY <1>6, FetchSettlesHolds, CalmSettles, CalmKeeps, PullEndHolds DEF Settle
<1>7. ASSUME NEW r \in Request, TimerFires(r) PROVE SInv'
  BY <1>7, CalmSettles, CalmKeeps
<1> QED
  BY <1>1, <1>2, <1>3, <1>4, <1>5, <1>6, <1>7 DEF Next

(* With it, the invariants of the outbound half: when a byte of an answer  *)
(* is given or held, recv() has its response or is past its end, and what  *)
(* is still being pulled has not ended.                                    *)
THEOREM StreamInvariance == Spec => [](IInv /\ BInv /\ SInv)
<1>1. IInv /\ [Next]_vars => IInv'
  BY IInvInductive
<1>2. Init => IInv
  BY Initially
<1> QED
  BY <1>1, <1>2, BytesInit, BytesStep, StreamInit, StreamStep, PTL DEF Spec

-----------------------------------------------------------------------------
(* Bytes that run from the first are so much of the answer, and no more    *)
(* are given than are handed over.                                         *)
LEMMA RunsAnswer ==
  ASSUME NEW g \in Seq(Byte), NEW r, Runs(g, 0, r)
  PROVE  Len(g) \in Nat /\ g = Stream!Answer(r, Len(g))
<1> DEFINE n == Len(g)
<1>1. n \in Nat /\ g = [k \in 1..n |-> g[k]]
  OBVIOUS
<1>2. ASSUME NEW k \in 1..n PROVE g[k] = Stream!At(r, k)
  <2>1. g[k] = At(r, 0 + k) /\ 0 + k = k
    BY <1>1 DEF Runs
  <2> QED
    BY <2>1 DEF At, Stream!At
<1> HIDE DEF n
<1>3. [k \in 1..n |-> g[k]] = [k \in 1..n |-> Stream!At(r, k)]
  BY <1>2
<1> QED
  BY <1>1, <1>3 DEF n, Stream!Answer

LEMMA NoMoreThanHanded ==
  ASSUME NEW k \in Record, NEW g \in Seq(Byte), NEW r, Follows(k, g, r)
  PROVE  Len(g) \in Nat /\ Amount(k, g) \in Nat /\ Len(g) <= Amount(k, g)
<1>1. Len(g) \in Nat
  OBVIOUS
<1>2. Left(k) \in Nat
  BY DEF Follows, InHand, Left, Record
<1> QED
  BY <1>1, <1>2 DEF Amount

(* A read that gives bytes is a Read of the stream. *)
LEMMA GivingReads ==
  ASSUME IInv', BInv, BInv', SInv', NEW c \in Conns, NEW r \in Request,
         table[c] = "open", ~eof[c], asked'[c] = <<r>>,
         Stream!Asks(c) \/ UNCHANGED asked,
         made[r] <= made'[r], r \in over => made'[r] = made[r],
         made' = [made EXCEPT ![r] = made'[r]],
         Len(got[c]) < Len(got'[c]), got' = [got EXCEPT ![c] = got'[c]],
         UNCHANGED <<table, sent, from, over, eof>>
  PROVE  Stream!Next
<1> DEFINE n == Len(got'[c])
           m == made'[r]
<1>1. /\ Given(c)' /\ Going(c)' /\ Held(c)' /\ Lead(c)' = r
      /\ got[c] \in Seq(Byte) /\ got'[c] \in Seq(Byte) /\ conn'[c] \in Record
      /\ table'[c] = "open"
  BY DEF BInv, Typed, SInv, Lead
<1>2. Runs(got'[c], 0, r) /\ Follows(conn'[c], got'[c], r)
  BY <1>1 DEF Given, Going, Follows, InHand, Fits, Runs
<1>3. n \in Nat /\ got'[c] = Stream!Answer(r, n)
  BY <1>1, <1>2, RunsAnswer
<1>4. m \in 0..MaxChunks /\ m \in Nat
  BY ConnectionAssumption DEF BInv, Typed
<1>5. n <= Amount(conn'[c], got'[c]) /\ Amount(conn'[c], got'[c]) \in Nat
  BY <1>1, <1>2, NoMoreThanHanded
<1>6. Handed(c)' = Amount(conn'[c], got'[c])
  BY DEF Handed, Amount, Left
<1>7. Handed(c)' <= 2 * (m + 1)
  <2>1. conn'[c].response # None \/ conn'[c].hup
    <3>1. got'[c] # <<>>
      <4>1. Len(got[c]) \in Nat
        BY <1>1
      <4>2. Len(got'[c]) > 0
        BY <1>3, <4>1
      <4> QED
        BY <4>2
    <3> QED
      BY <1>1, <3>1 DEF Held
  <2>2. CASE conn'[c].hup
    BY <1>1, <1>4, <2>2 DEF Going
  <2>3. CASE conn'[c].response # None
    <3>1. Handed(c)' = 2 * (Read(r)' + 1)
      BY <1>1, <2>3 DEF Going
    <3>2. Read(r)' = m - Len(queue'[r]) /\ Len(queue'[r]) \in Nat
      BY DEF Read, BInv, Typed
    <3> QED
      BY <1>4, <3>1, <3>2
  <2> QED
    BY <2>1, <2>2, <2>3
<1>8. n <= Stream!Available(m) /\ Stream!Available(m) \in Nat /\ n > 0
  <2>1. Len(got[c]) \in Nat
    BY <1>1
  <2> QED
    BY <1>3, <1>4, <1>5, <1>6, <1>7, <2>1 DEF Stream!Available
<1>9. n \in 1..Stream!Available(m)
  BY <1>3, <1>8
<1> HIDE DEF n
<1>10. Stream!Read(c, r, m, n)
  <2>1. n > Len(got[c])
    BY DEF n
  <2>2. m >= made[r]
    OBVIOUS
  <2> HIDE DEF m
  <2>3. made' = [made EXCEPT ![r] = m] /\ (r \in over => m = made[r])
    BY DEF m
  <2>4. got' = [got EXCEPT ![c] = Stream!Answer(r, n)]
    BY <1>3
  <2> QED
    BY <1>8, <2>1, <2>2, <2>3, <2>4 DEF Stream!Read
<1> QED
  BY <1>4, <1>9, <1>10 DEF Stream!Next, Request, Stream!Request

(* The request that is due is the one the stream asks for. *)
LEMMA DueAsks ==
  ASSUME IInv, NEW c \in Conns, Usable(c), Idle(conn[c]),
         asked' = [asked EXCEPT ![c] = Append(@, Due(conn[c]))]
  PROVE  /\ Stream!Asks(c) /\ Due(conn[c]) \in Request
         /\ asked'[c] = <<Due(conn[c])>>
<1> DEFINE r == Due(conn[c])
<1>1. /\ r \in Request /\ r <= sent /\ from[r] = c /\ asked[c] = <<>>
      /\ \A q \in Request : q <= sent /\ from[q] = c => r <= q
  BY IdleFirst DEF Written
<1> HIDE DEF r
<1>2. asked' = [asked EXCEPT ![c] = <<r>>]
  BY <1>1 DEF r
<1>3. asked'[c] = <<r>>
  BY <1>2 DEF IInv, Ranges
<1>4. table[c] = "open"
  BY DEF Usable
<1>5. Stream!Asks(c)
  BY <1>1, <1>2, <1>4
     DEF Stream!Asks, Stream!Earliest, Request, Stream!Request
<1> QED
  BY <1>1, <1>3, <1>5 DEF r

(* Reads that give bytes. *)
LEMMA SliceGives ==
  ASSUME NEW k, NEW g, NEW r, NEW max \in Sizes, Holding(k, g, r), k.outbox # <<>>
  PROVE  Len(g) < Len(g \o Slice(k, Upto(k, max)))
<1> DEFINE p == Head(k.outbox)
           u == Upto(k, max)
           s == Slice(k, u)
<1>1. /\ k \in Record /\ g \in Seq(Byte) /\ k.offset \in 0..1
      /\ Len(p) \in 1..2 /\ k.offset < Len(p) /\ p \in Seq(Byte)
      /\ Fits(p, k.offset, Len(g), r)
  BY DEF Holding, Follows, InHand, Record
<1>2. u = IF k.offset + max < Len(p) THEN k.offset + max ELSE Len(p)
  BY DEF Upto
<1> HIDE DEF p, u
<1>3. u \in Nat /\ k.offset <= u /\ u <= Len(p) /\ k.offset < u /\ k.offset \in Nat
  BY <1>1, <1>2, UptoIs DEF Sizes
<1>4. s \in Seq(Byte) /\ Len(s) = u - k.offset
  <2>1. Len(g) \in Nat
    BY <1>1
  <2> QED
    BY <1>1, <1>3, <2>1, PartOf DEF Slice, p
<1> HIDE DEF s
<1>5. Len(g \o s) = Len(g) + Len(s) /\ Len(g) \in Nat
  BY <1>1, <1>4
<1> QED
  BY <1>3, <1>4, <1>5 DEF s, u

LEMMA RecvOutboxStreams ==
  ASSUME IInv, BInv, IInv', BInv', SInv', NEW c \in Conns, NEW max \in 1..2,
         NEW outcome \in Outcomes, RecvOutbox(c, max, outcome)
  PROVE  Stream!Next
<1>0. max \in Sizes /\ Usable(c) /\ table[c] = "open"
  BY DEF Sizes, RecvOutbox, Usable
<1>1. CASE Idle(conn[c])
  <2>1. PICK r \in Request : r = Due(conn[c])
    BY <1>0, <1>1, Unasked
  <2> DEFINE k == Shifted(conn[c])
             d == Delivered(k, r, outcome)
             h == got[c] \o Slice(d, Upto(d, max))
  <2>2. /\ d.outbox # <<>> /\ got' = [got EXCEPT ![c] = h]
        /\ asked' = [asked EXCEPT ![c] =
                       IF outcome = "refused" THEN @ ELSE Append(@, r)]
        /\ UNCHANGED <<table, sent, from, made, over, eof>>
    BY <1>1, <2>1 DEF RecvOutbox, PumpEffects, Pumped, Upto, Slice, writing,
                      BInv, Typed
  <2>3. got[c] = <<>> /\ ~eof[c] /\ conn[c].outbox = <<>> /\ conn[c].offset = 0
    BY <1>0, <1>1, Unasked
  <2>4. k \in Record /\ k.outbox = <<>> /\ k.offset = 0 /\ k.response = None
        /\ k.hup = FALSE
    BY <1>1, <2>3, ShiftedIs DEF BInv, Typed
  <2> HIDE DEF k
  <2>5. d \in Record /\ Answered(d, k, r, outcome)
    BY <2>4, DeliveredIs
  <2> HIDE DEF d
  <2>6. Starts(d, r, outcome) /\ outcome # "refused"
    <3>1. Bare(k)
      BY <2>4 DEF Bare
    <3>2. outcome \notin Failing
      BY <2>2, <2>5 DEF Answered
    <3> QED
      BY <2>5, <3>1, <3>2, FirstPiece DEF Failing
  <2>7. Holding(d, got[c], r)
    <3>1. got[c] \in Seq(Byte) /\ Runs(<<>>, 0, r)
      BY DEF BInv, Typed, Runs
    <3> QED
      BY <2>3, <2>5, <2>6, <3>1 DEF Holding, Starts
  <2>8. Len(got[c]) < Len(h)
    BY <1>0, <2>2, <2>7, SliceGives
  <2> HIDE DEF h
  <2>9. Stream!Asks(c) /\ asked'[c] = <<r>>
    BY <1>0, <1>1, <2>1, <2>2, <2>6, DueAsks
  <2>10. got'[c] = h /\ made' = [made EXCEPT ![r] = made'[r]] /\ made[r] <= made'[r]
    BY <2>2, ConnectionAssumption DEF BInv, Typed
  <2> QED
    BY <1>0, <2>2, <2>3, <2>8, <2>9, <2>10, GivingReads
<1>2. CASE ~Idle(conn[c])
  <2> DEFINE k == conn[c]
             h == got[c] \o Slice(k, Upto(k, max))
  <2>1. /\ k.outbox # <<>> /\ got' = [got EXCEPT ![c] = h]
        /\ UNCHANGED <<table, sent, from, made, over, asked, eof>>
    BY <1>2 DEF RecvOutbox, PumpEffects, Pumped, Upto, Slice, writing, BInv, Typed
  <2>2. asked[c] # <<>> /\ ~eof[c]
    BY <1>0, <2>1, AtHome DEF Given, Ended
  <2>3. PICK r \in Request : asked[c] = <<r>> /\ Holding(k, got[c], r)
    BY <1>0, <2>2, Answering
  <2>4. Len(got[c]) < Len(h)
    BY <1>0, <2>1, <2>3, SliceGives
  <2> HIDE DEF h
  <2>5. got'[c] = h /\ made' = [made EXCEPT ![r] = made'[r]] /\ made[r] <= made'[r]
    BY <2>1, ConnectionAssumption DEF BInv, Typed
  <2> QED
    BY <1>0, <2>1, <2>2, <2>3, <2>4, <2>5, GivingReads
<1> QED
  BY <1>1, <1>2

LEMMA RecvChunkStreams ==
  ASSUME IInv, BInv, SInv, IInv', BInv', SInv', NEW c \in Conns, NEW max \in 1..2,
         RecvBlocking(c, max) \/ RecvAwaited(c, max)
  PROVE  Stream!Next
<1>1. Readable(c)
  BY DEF RecvBlocking, RecvAwaited
<1>2. PICK r \in Request : r = conn[c].response
  BY <1>1, Reads
<1>3. Usable(c) /\ table[c] = "open" /\ asked[c] # <<>> /\ ~eof[c] /\ r = Lead(c)
  BY <1>1, <1>2, Reads DEF Usable
<1>4. asked[c] = <<r>> /\ r # None
  BY <1>2, <1>3, LeadIs, ConnectionAssumption DEF Request, None
<1>5. /\ UNCHANGED <<table, sent, from, over, asked, eof>>
      /\ \E i \in 0..MaxChunks : TakenPiece(c, Piece(r, i), max)
      /\ made' = [made EXCEPT ![r] = made'[r]] /\ made[r] <= made'[r]
      /\ r \in over => made'[r] = made[r]
  <2>1. made[r] \in 0..MaxChunks /\ made[r] \in Nat
    BY ConnectionAssumption DEF BInv, Typed
  <2>2. CASE RecvBlocking(c, max)
    <3>1. /\ door[r] = "sync" /\ made[r] < MaxChunks
          /\ made' = [made EXCEPT ![r] = made[r] + 1]
          /\ TakenPiece(c, Piece(r, made[r] + 1), max)
      BY <1>2, <2>2 DEF RecvBlocking, BInv, Typed
    <3>2. r \notin over
      BY <1>2, <1>3, <1>4, <3>1 DEF SInv, Unended
    <3>3. made'[r] = made[r] + 1 /\ made[r] + 1 \in 0..MaxChunks
      <4>1. made'[r] = made[r] + 1
        BY <3>1 DEF BInv, Typed
      <4>2. made[r] + 1 \in 0..MaxChunks
        BY <2>1, <3>1, ConnectionAssumption
      <4> QED
        BY <4>1, <4>2
    <3>4. made' = [made EXCEPT ![r] = made'[r]] /\ made[r] <= made'[r]
      <4>1. made' = [made EXCEPT ![r] = made'[r]]
        BY <3>1, <3>3
      <4>2. made[r] <= made'[r]
        BY <2>1, <3>3
      <4> QED
        BY <4>1, <4>2
    <3>5. /\ UNCHANGED <<table, sent, from, over, asked, eof>>
          /\ \E i \in 0..MaxChunks : TakenPiece(c, Piece(r, i), max)
      BY <3>1, <3>3 DEF TakenPiece, writing
    <3> QED
      BY <3>2, <3>4, <3>5
  <2>3. CASE RecvAwaited(c, max)
    <3>1. /\ queue[r] # <<>> /\ made' = made
          /\ TakenPiece(c, Piece(r, Head(queue[r])), max)
      BY <1>2, <2>3 DEF RecvAwaited
    <3>2. Head(queue[r]) \in 0..MaxChunks
      <4>1. PICK s : s = queue[r]
        OBVIOUS
      <4>2. s \in Seq(1..MaxChunks) /\ s # <<>>
        BY <3>1, <4>1 DEF BInv, Typed
      <4>3. Head(s) \in 1..MaxChunks
        <5>1. PICK S : S = 1..MaxChunks
          OBVIOUS
        <5>2. s \in Seq(S) /\ s # <<>>
          BY <4>2, <5>1
        <5>3. Head(s) \in S
          BY <5>2
        <5> QED
          BY <5>1, <5>3
      <4> QED
        BY <4>1, <4>3, ConnectionAssumption
    <3>3. made' = [made EXCEPT ![r] = made'[r]] /\ made'[r] = made[r]
      BY <3>1 DEF BInv, Typed
    <3>4. /\ UNCHANGED <<table, sent, from, over, asked, eof>>
          /\ \E i \in 0..MaxChunks : TakenPiece(c, Piece(r, i), max)
      BY <3>1, <3>2 DEF TakenPiece, writing
    <3> QED
      BY <2>1, <3>3, <3>4
  <2> QED
    BY <2>2, <2>3
<1>6. PICK i \in 0..MaxChunks : TakenPiece(c, Piece(r, i), max)
  BY <1>5
<1> DEFINE p == Piece(r, i)
           h == got[c] \o GivenOf(p, max)
<1>7. got' = [got EXCEPT ![c] = h]
  BY <1>6 DEF TakenPiece, GivenOf, BInv, Typed
<1>8. Len(got[c]) < Len(h)
  <2>1. p \in Seq(Byte) /\ Len(p) = 2 /\ got[c] \in Seq(Byte)
    BY PieceIs DEF BInv, Typed
  <2> HIDE DEF p
  <2> DEFINE s == GivenOf(p, max)
  <2>2. s \in Seq(Byte) /\ Len(s) \in 1..2
    <3>1. CASE max = 1
      <4>1. s = SubSeq(p, 1, 1)
        BY <2>1, <3>1 DEF GivenOf
      <4> QED
        BY <2>1, <4>1
    <3>2. CASE max = 2
      BY <2>1, <3>2 DEF GivenOf
    <3> QED
      BY <3>1, <3>2
  <2> HIDE DEF s
  <2>3. Len(got[c] \o s) = Len(got[c]) + Len(s) /\ Len(got[c]) \in Nat
    BY <2>1, <2>2
  <2> QED
    BY <2>2, <2>3 DEF s
<1> HIDE DEF h
<1>9. got'[c] = h
  BY <1>7 DEF BInv, Typed
<1> QED
  BY <1>3, <1>4, <1>5, <1>7, <1>8, <1>9, GivingReads

(* A read that gives the end. *)
LEMMA EndStreams ==
  ASSUME IInv, BInv, IInv', BInv', NEW c \in Conns, RecvEnd(c) \/ RecvHup(c)
  PROVE  Stream!Next
<1>1. /\ Usable(c) /\ table[c] = "open" /\ eof' = [eof EXCEPT ![c] = TRUE]
      /\ UNCHANGED <<table, sent, from, asked, made, got>>
      /\ over' = over \/ over' = over \cup {conn[c].response}
  BY DEF RecvEnd, RecvHup, Readable, Usable, writing, network
<1>2. eof'[c] = TRUE /\ Ended(c)'
  BY <1>1 DEF BInv, Typed
<1>3. PICK r \in Request : asked[c] = <<r>> /\ r = Lead(c)
  BY <1>1, <1>2, LeadIs DEF Ended
<1>4. /\ Len(got[c]) = 2 * (made[r] + 1)
      /\ door'[r] # "none" => r \in over'
      /\ door'[r] = "none" => made[r] = 0
  <2>1. Lead(c)' = r
    BY <1>1, <1>3 DEF Lead
  <2>2. door'[r] = "none" => made'[r] = 0
    BY DEF BInv, Opened
  <2> QED
    BY <1>1, <1>2, <2>1, <2>2 DEF Ended
<1>5. Stream!Ceases(r) \/ (UNCHANGED over /\ (r \in over \/ made[r] = 0))
  <2>1. CASE RecvEnd(c)
    <3>1. conn[c].response = r
      BY <1>3, <2>1, Reads DEF RecvEnd
    <3> QED
      BY <1>1, <1>4, <3>1 DEF Stream!Ceases
  <2>2. CASE RecvHup(c)
    BY <1>4, <2>2 DEF RecvHup, network
  <2> QED
    BY <2>1, <2>2
<1>6. Stream!End(c, r)
  BY <1>1, <1>3, <1>4, <1>5 DEF Stream!End, Stream!Asked, Stream!Available
<1> QED
  BY <1>6 DEF Stream!Next, Request, Stream!Request

-----------------------------------------------------------------------------
(* The calls that give nothing. *)
LEMMA CallStreams ==
  ASSUME IInv, BInv, NEW c \in Conns, Connect(c) \/ Close(c)
  PROVE  Stream!Next
<1>1. CASE Connect(c)
  <2>1. Stream!Connect(c)
    BY <1>1 DEF Connect, Stream!Connect, writing, network
  <2> QED
    BY <2>1 DEF Stream!Next
<1>2. CASE Close(c)
  <2> DEFINE r == conn[c].response
  <2>1. /\ table[c] = "open" /\ table' = [table EXCEPT ![c] = "closed"]
        /\ UNCHANGED <<sent, from, asked, made, got, eof>>
        /\ over' = over \/ (over' = over \cup {r} /\ r # None /\ door[r] # "none")
    BY <1>2 DEF Close, writing
  <2>2. r # None => r \in Request /\ from[r] = c
    BY DEF IInv, Ranges, RecordOk, Own, Written
  <2> HIDE DEF r
  <2>3. (\E q \in Request : Stream!Asked(c, q) /\ Stream!Ceases(q)) \/ UNCHANGED over
    BY <2>1, <2>2 DEF BInv, Opened, Stream!Asked, Stream!Ceases
  <2>4. Stream!Close(c)
    BY <2>1, <2>3 DEF Stream!Close, Request, Stream!Request
  <2> QED
    BY <2>4 DEF Stream!Next
<1> QED
  BY <1>1, <1>2

LEMMA SendStreams ==
  ASSUME IInv, BInv, NEW c \in Conns, NEW ms \in Writes, NEW bad \in BOOLEAN,
         Send(c, ms, bad)
  PROVE  Stream!Next
<1> DEFINE n == Len(ms)
<1>1. /\ table[c] = "open" /\ ~conn[c].hup /\ sent + n <= Requests
      /\ sent' = sent + n
      /\ from' = [r \in Request |-> IF r \in sent + 1..sent + n THEN c
                                    ELSE from[r]]
      /\ UNCHANGED <<table, asked, made, over, got, eof>>
  BY DEF Send, Usable, network
<1>2. n \in Nat /\ sent \in Nat
  <2>1. n \in Nat
    BY DEF Writes
  <2> QED
    BY <2>1, ConnectionAssumption DEF BInv, Typed
<1> HIDE DEF n
<1>3. n \in 0..Requests - sent
  BY <1>1, <1>2, ConnectionAssumption
<1>4. ~eof[c]
  BY <1>1 DEF BInv, Ended
<1>5. Stream!Write(c, n)
  BY <1>1, <1>4 DEF Stream!Write, Request, Stream!Request
<1> QED
  BY <1>3, <1>5 DEF Stream!Next

LEMMA AskStreams ==
  ASSUME IInv, BInv, NEW c \in Conns, NEW outcome \in Outcomes,
         RecvError(c, outcome) \/ ReadyFetch(c) \/ ReadyRefused(c) \/ ReadyPull(c)
  PROVE  Stream!Next \/ UNCHANGED Stream!vars
<1>1. UNCHANGED <<table, sent, from, made, over, got, eof>>
  BY DEF RecvError, ReadyFetch, ReadyRefused, ReadyPull, writing, network
<1>2. \/ asked' = asked
      \/ /\ Usable(c) /\ Idle(conn[c])
         /\ asked' = [asked EXCEPT ![c] = Append(@, Due(conn[c]))]
  BY DEF RecvError, PumpEffects, ReadyFetch, ReadyRefused, ReadyPull,
         BInv, Typed
<1>3. CASE asked' = asked
  BY <1>1, <1>3 DEF Stream!vars
<1>4. CASE asked' # asked
  <2>1. Stream!Ask(c)
    BY <1>1, <1>2, <1>4, DueAsks DEF Stream!Ask
  <2> QED
    BY <2>1 DEF Stream!Next
<1> QED
  BY <1>3, <1>4

(* What an await comes to. *)
LEMMA SettleStreams ==
  ASSUME IInv, BInv, SInv, BInv', NEW r \in Request, Settle(r)
  PROVE  Stream!Next \/ UNCHANGED Stream!vars
<1>1. /\ UNCHANGED <<table, sent, from, asked, got, eof>>
      /\ r \in flights \cup pulls
  BY DEF Settle, FetchSettles, PullChunk, PullEnd, writing
<1>2. from[r] \in Conns /\ Waiting(from[r])
  BY <1>1 DEF Waiting, BInv, Typed
<1>3. asked[from[r]] = <<r>> /\ ~eof[from[r]] /\ r \notin over
  <2>1. Opened(r) /\ Ending(r) /\ Ended(from[r])
    BY <1>2 DEF BInv, SInv
  <2> QED
    BY <1>1, <1>2, <2>1 DEF Opened, Ending, Ended
<1>4. made[r] \in 0..MaxChunks /\ made'[r] \in 0..MaxChunks /\ made[r] \in Nat
  BY ConnectionAssumption DEF BInv, Typed
<1>5. \/ UNCHANGED <<made, over>>
      \/ /\ made' = [made EXCEPT ![r] = made'[r]] /\ made'[r] >= made[r]
         /\ Stream!Ceases(r) \/ UNCHANGED over
  <2>1. ASSUME NEW outcome \in Outcomes, NEW held \in 0..MaxChunks,
               NEW whole \in BOOLEAN, FetchSettles(r, outcome, held, whole)
        PROVE  \/ UNCHANGED <<made, over>>
               \/ /\ made' = [made EXCEPT ![r] = made'[r]] /\ made'[r] >= made[r]
                  /\ Stream!Ceases(r) \/ UNCHANGED over
    <3>1. CASE Opens(r, outcome)
      <4>1. made' = [made EXCEPT ![r] = held]
        BY <2>1, <3>1 DEF FetchSettles
      <4>2. Stream!Ceases(r) \/ UNCHANGED over
        BY <2>1, <3>1 DEF FetchSettles, Stream!Ceases
      <4>3. made[r] = 0
        BY <2>1 DEF FetchSettles, BInv, Opened
      <4>4. made'[r] = held /\ held \in Nat
        BY <4>1, ConnectionAssumption DEF BInv, Typed
      <4>5. made' = [made EXCEPT ![r] = made'[r]]
        BY <4>1, <4>4
      <4>6. made'[r] >= made[r]
        BY <4>3, <4>4
      <4> QED
        BY <4>2, <4>5, <4>6
    <3>2. CASE ~Opens(r, outcome)
      BY <2>1, <3>2 DEF FetchSettles
    <3> QED
      BY <3>1, <3>2
  <2>2. CASE PullChunk(r)
    <3>1. made' = [made EXCEPT ![r] = made[r] + 1] /\ over' = over
      BY <2>2 DEF PullChunk, BInv, Typed
    <3>2. made'[r] = made[r] + 1
      BY <3>1 DEF BInv, Typed
    <3>3. made' = [made EXCEPT ![r] = made'[r]]
      BY <3>1, <3>2
    <3>4. made'[r] >= made[r]
      BY <1>4, <3>2
    <3> QED
      BY <3>1, <3>3, <3>4
  <2>3. CASE PullEnd(r)
    <3>1. made' = made /\ Stream!Ceases(r)
      BY <2>3 DEF PullEnd, Stream!Ceases
    <3> QED
      BY <1>4, <3>1 DEF BInv, Typed
  <2> QED
    BY <2>1, <2>2, <2>3 DEF Settle
<1>6. CASE UNCHANGED <<made, over>>
  BY <1>1, <1>6 DEF Stream!vars
<1>7. CASE ~UNCHANGED <<made, over>>
  <2>1. Stream!Produce(r, made'[r])
    BY <1>1, <1>3, <1>5, <1>7 DEF Stream!Produce, Stream!Asked
  <2> QED
    BY <1>4, <2>1 DEF Stream!Next, Request, Stream!Request
<1> QED
  BY <1>6, <1>7

-----------------------------------------------------------------------------
(* Each step is one of the stream or a stutter. *)
LEMMA StreamInitially == Init => Stream!Init
<1> SUFFICES ASSUME Init PROVE Stream!Init
  OBVIOUS
<1>1. from \in [Request -> Conns]
  BY ConnectionAssumption DEF Init
<1> QED
  BY <1>1 DEF Init, Stream!Init, Request, Stream!Request

LEMMA RefinesStep ==
  IInv /\ BInv /\ SInv /\ IInv' /\ BInv' /\ SInv' /\ [Next]_vars =>
    [Stream!Next]_Stream!vars
<1> SUFFICES ASSUME IInv, BInv, SInv, IInv', BInv', SInv', [Next]_vars
             PROVE  Stream!Next \/ UNCHANGED Stream!vars
  OBVIOUS
<1>1. CASE UNCHANGED vars
  BY <1>1 DEF vars, writing, network, Stream!vars
<1>2. ASSUME NEW c \in Conns, Connect(c) \/ Close(c) PROVE Stream!Next
  BY <1>2, CallStreams
<1>3. ASSUME NEW c \in Conns, NEW ms \in Writes, NEW bad \in BOOLEAN,
             Send(c, ms, bad)
      PROVE  Stream!Next
  BY <1>3, SendStreams
<1>4. ASSUME NEW c \in Conns, Recv(c)
      PROVE  Stream!Next \/ UNCHANGED Stream!vars
  <2>1. ASSUME NEW max \in 1..2, NEW outcome \in Outcomes,
               RecvOutbox(c, max, outcome)
        PROVE  Stream!Next
    BY <2>1, RecvOutboxStreams
  <2>2. ASSUME NEW max \in 1..2, RecvBlocking(c, max) \/ RecvAwaited(c, max)
        PROVE  Stream!Next
    BY <2>2, RecvChunkStreams
  <2>3. ASSUME NEW outcome \in Outcomes, RecvError(c, outcome)
        PROVE  Stream!Next \/ UNCHANGED Stream!vars
    BY <2>3, AskStreams
  <2>4. CASE RecvEnd(c) \/ RecvHup(c)
    BY <2>4, EndStreams
  <2> QED
    BY <1>4, <2>1, <2>2, <2>3, <2>4 DEF Recv
<1>5. ASSUME NEW c \in Conns, ReadyAsync(c)
      PROVE  Stream!Next \/ UNCHANGED Stream!vars
  <2>1. "error" \in Outcomes
    BY DEF Outcomes
  <2> QED
    BY <1>5, <2>1, AskStreams DEF ReadyAsync
<1>6. ASSUME NEW r \in Request, Settle(r)
      PROVE  Stream!Next \/ UNCHANGED Stream!vars
  BY <1>6, SettleStreams
<1>7. ASSUME NEW r \in Request, TimerFires(r) PROVE UNCHANGED Stream!vars
  BY <1>7 DEF TimerFires, writing, Stream!vars
<1> QED
  BY <1>1, <1>2, <1>3, <1>4, <1>5, <1>6, <1>7 DEF Next

(* Each connection core.mjs opens is a stream of one answer, over either   *)
(* door, for any number of connections, of requests and of chunks.         *)
THEOREM RefinesStream == Spec => StreamSpec
BY StreamInitially, RefinesStep, StreamInvariance, PTL
   DEF Spec, StreamSpec, Stream!Spec
=============================================================================
