------------------------ MODULE ConnectionBytesProofs ------------------------
(***************************************************************************)
(* Machine-checked facts about the bytes of Connection, for every number   *)
(* of connections, requests and chunks and any sizes of reads: they are    *)
(* those of the answer, in order, and the end of file is its end.          *)
(***************************************************************************)
EXTENDS ConnectionBytes, ConnectionProofs, SequenceTheorems

(* Two bytes to a piece. *)
LEMMA PieceIs ==
  ASSUME NEW r \in Request, NEW i \in 0..MaxChunks
  PROVE  /\ Piece(r, i) \in Seq(Byte) /\ Len(Piece(r, i)) = 2
         /\ Piece(r, i)[1] = At(r, 2 * i + 1) /\ Piece(r, i)[2] = At(r, 2 * i + 2)
<1>1. /\ [r |-> r, i |-> i, u |-> 1] \in Byte
      /\ [r |-> r, i |-> i, u |-> 2] \in Byte
  BY DEF Byte
<1>2. Piece(r, i) \in Seq(Byte) /\ Len(Piece(r, i)) = 2
  BY <1>1 DEF Piece
<1>3. i \in Int
  BY ConnectionAssumption
<1>4. /\ (2 * i + 1 - 1) \div 2 = i /\ (2 * i + 1 - 1) % 2 = 0
      /\ (2 * i + 2 - 1) \div 2 = i /\ (2 * i + 2 - 1) % 2 = 1
  BY <1>3
<1>5. /\ At(r, 2 * i + 1) = [r |-> r, i |-> i, u |-> 1]
      /\ At(r, 2 * i + 2) = [r |-> r, i |-> i, u |-> 2]
  BY <1>4 DEF At
<1> QED
  BY <1>2, <1>5 DEF Piece

(* More bytes of the answer after those given. *)
LEMMA Gives ==
  ASSUME NEW g \in Seq(Byte), NEW s \in Seq(Byte), NEW r,
         Runs(g, 0, r), Runs(s, Len(g), r)
  PROVE  /\ g \o s \in Seq(Byte) /\ Len(g \o s) = Len(g) + Len(s)
         /\ Runs(g \o s, 0, r)
<1> DEFINE n == Len(g)
           m == Len(s)
           t == g \o s
<1>1. /\ t \in Seq(Byte) /\ Len(t) = n + m /\ n \in Nat /\ m \in Nat
      /\ \A k \in 1..n : t[k] = g[k]
      /\ \A k \in 1..m : t[n + k] = s[k]
  BY ConcatProperties
<1>2. /\ \A k \in 1..n : g[k] = At(r, 0 + k)
      /\ \A k \in 1..m : s[k] = At(r, n + k)
  BY DEF Runs
<1> HIDE DEF n, m, t
<1>3. ASSUME NEW k \in 1..n + m
      PROVE  t[k] = At(r, 0 + k)
  <2>1. CASE k \in 1..n
    BY <1>1, <1>2, <2>1
  <2>2. CASE k \notin 1..n
    <3>1. k - n \in 1..m /\ n + (k - n) = k /\ 0 + k = k
      BY <1>1, <2>2
    <3>2. t[n + (k - n)] = s[k - n] /\ s[k - n] = At(r, n + (k - n))
      BY <1>1, <1>2, <3>1
    <3> QED
      BY <3>1, <3>2
  <2> QED
    BY <2>1, <2>2
<1>4. Runs(t, 0, r)
  BY <1>1, <1>3 DEF Runs
<1> QED
  BY <1>1, <1>4 DEF n, m, t

(* A part of a piece, of which o bytes are given, and what is left of it. *)
LEMMA PartOf ==
  ASSUME NEW p \in Seq(Byte), NEW o \in Nat, NEW u \in Nat, NEW n \in Nat, NEW r,
         o <= u, u <= Len(p), Fits(p, o, n, r)
  PROVE  /\ SubSeq(p, o + 1, u) \in Seq(Byte)
         /\ Len(SubSeq(p, o + 1, u)) = u - o
         /\ Runs(SubSeq(p, o + 1, u), n, r)
         /\ Fits(p, u, n + (u - o), r)
<1> DEFINE l == Len(p)
           s == SubSeq(p, o + 1, u)
<1>1. l \in Nat /\ \A k \in 1..l : p[k] \in Byte
  OBVIOUS
<1>2. \A k \in o + 1..u : p[k] \in Byte
  BY <1>1
<1>3. /\ s \in Seq(Byte) /\ Len(s) = IF o + 1 <= u THEN u - (o + 1) + 1 ELSE 0
      /\ \A j \in 1..u - (o + 1) + 1 : s[j] = p[o + 1 + j - 1]
  <2> DEFINE m == o + 1
  <2>1. m \in Int /\ u \in Int /\ \A k \in m..u : p[k] \in Byte
    BY <1>2
  <2> HIDE DEF m
  <2>2. /\ SubSeq(p, m, u) \in Seq(Byte)
        /\ Len(SubSeq(p, m, u)) = IF m <= u THEN u - m + 1 ELSE 0
        /\ \A j \in 1..u - m + 1 : SubSeq(p, m, u)[j] = p[m + j - 1]
    BY <2>1, SubSeqProperties
  <2> QED
    BY <2>2 DEF m
<1> HIDE DEF s, l
<1>4. Len(s) = u - o /\ \A j \in 1..u - o : s[j] = p[o + j]
  <2>1. /\ (IF o + 1 <= u THEN u - (o + 1) + 1 ELSE 0) = u - o
        /\ u - (o + 1) + 1 = u - o /\ \A j \in 1..u - o : o + 1 + j - 1 = o + j
    OBVIOUS
  <2> QED
    BY <1>3, <2>1
<1>5. \A j \in 1..l - o : p[o + j] = At(r, n + j)
  BY DEF l, Fits
<1>6. Runs(s, n, r)
  <2>1. \A j \in 1..u - o : j \in 1..l - o
    BY <1>1 DEF l
  <2> QED
    BY <1>4, <1>5, <2>1 DEF Runs
<1>7. ASSUME NEW j \in 1..l - u
      PROVE  p[u + j] = At(r, n + (u - o) + j)
  <2>1. /\ (u - o) + j \in 1..l - o /\ o + ((u - o) + j) = u + j
        /\ n + ((u - o) + j) = n + (u - o) + j
    BY <1>1 DEF l
  <2> QED
    BY <1>5, <2>1
<1> QED
  BY <1>3, <1>4, <1>6, <1>7 DEF s, l, Fits

-----------------------------------------------------------------------------
(* A step of connection c, and of requests written on it.                  *)
Only(c) ==
  /\ UNCHANGED <<sent, from>>
  /\ \A d \in Conns \ {c} :
       /\ conn'[d] = conn[d] /\ got'[d] = got[d] /\ asked'[d] = asked[d]
       /\ eof'[d] = eof[d] /\ table'[d] = table[d]
  /\ \A q \in Request : from[q] # c =>
       /\ made'[q] = made[q] /\ queue'[q] = queue[q] /\ door'[q] = door[q]
       /\ q \in over => q \in over'
       /\ q \in flights' => q \in flights
       /\ q \in pulls' => q \in pulls
       /\ q \in stopped' => q \in stopped

(* What a connection leads with was written on it. *)
LEMMA LeadIs ==
  ASSUME IInv, NEW c \in Conns, asked[c] # <<>>
  PROVE  Lead(c) \in Request /\ Lead(c) <= sent /\ from[Lead(c)] = c
         /\ asked[c] = <<Lead(c)>>
<1> DEFINE a == asked[c]
<1>1. a \in Seq(Request) /\ a # <<>> /\ Len(a) <= 1
  BY DEF IInv, Ranges, Once, First
<1> HIDE DEF a
<1>2. Len(a) = 1 /\ a[1] \in Request
  BY <1>1
<1>3. a = <<a[1]>>
  BY <1>1, <1>2
<1> QED
  BY <1>2, <1>3 DEF Lead, IInv, Once, First, Written, a

(* It touches no other connection. *)
LEMMA Elsewhere ==
  ASSUME IInv, BInv, NEW c \in Conns, Only(c), Typed'
  PROVE  /\ \A d \in Conns \ {c} : Given(d)' /\ Going(d)' /\ Ended(d)'
         /\ \A q \in Request : from[q] # c => Opened(q)'
<1>1. ASSUME NEW d \in Conns \ {c}
      PROVE  Given(d)' /\ Going(d)' /\ Ended(d)'
  <2>1. /\ conn'[d] = conn[d] /\ got'[d] = got[d] /\ asked'[d] = asked[d]
        /\ eof'[d] = eof[d] /\ table'[d] = table[d]
    BY DEF Only
  <2>2. Given(d) /\ Going(d) /\ Ended(d)
    BY DEF BInv
  <2>3. Lead(d)' = Lead(d) /\ Handed(d)' = Handed(d)
    BY <2>1 DEF Lead, Handed, Amount, Left
  <2>4. Given(d)'
    BY <2>1, <2>2, <2>3 DEF Given
  <2>5. Waiting(d)' => Waiting(d)
    BY DEF Only, Waiting, Typed
  <2>6. CASE asked[d] = <<>>
    BY <2>1, <2>2, <2>4, <2>6 DEF Going, Ended
  <2>7. CASE asked[d] # <<>>
    <3> DEFINE r == Lead(d)
    <3>1. r \in Request /\ from[r] # c
      BY <2>7, LeadIs
    <3> HIDE DEF r
    <3>2. /\ made'[r] = made[r] /\ queue'[r] = queue[r] /\ door'[r] = door[r]
          /\ r \in over => r \in over'
      BY <3>1 DEF Only
    <3>3. Going(d)'
      BY <2>1, <2>2, <2>3, <3>2 DEF Going, Read, r
    <3>4. Ended(d)'
      BY <2>1, <2>2, <2>3, <2>5, <3>2 DEF Ended, r
    <3> QED
      BY <2>4, <3>3, <3>4
  <2> QED
    BY <2>6, <2>7
<1>2. ASSUME NEW q \in Request, from[q] # c
      PROVE  Opened(q)'
  <2> DEFINE d == from[q]
  <2>1. d \in Conns \ {c} /\ from' = from /\ sent' = sent
    BY <1>2 DEF Only, BInv, Typed
  <2>2. /\ conn'[d] = conn[d] /\ got'[d] = got[d] /\ asked'[d] = asked[d]
        /\ table'[d] = table[d]
    BY <2>1 DEF Only
  <2>3. /\ made'[q] = made[q] /\ queue'[q] = queue[q] /\ door'[q] = door[q]
        /\ q \in flights' => q \in flights
        /\ q \in pulls' => q \in pulls
        /\ q \in stopped' => q \in stopped
    BY <1>2 DEF Only
  <2>4. Opened(q)
    BY DEF BInv
  <2> QED
    BY <2>1, <2>2, <2>3, <2>4 DEF Opened
<1> QED
  BY <1>1, <1>2

(* So what is left to show of it is its own connection. *)
LEMMA Here ==
  ASSUME IInv, BInv, NEW c \in Conns, Only(c), Typed',
         Given(c)', Going(c)', Ended(c)',
         \A q \in Request : from[q] = c => Opened(q)'
  PROVE  BInv'
<1>1. \A d \in Conns : Given(d)' /\ Going(d)' /\ Ended(d)'
  BY Elsewhere
<1>2. \A q \in Request : Opened(q)'
  BY Elsewhere
<1> QED
  BY <1>1, <1>2 DEF BInv

-----------------------------------------------------------------------------
(* What core.mjs's helpers do to the bytes in hand. *)
LEMMA ShiftedIs ==
  ASSUME NEW k \in Record, Idle(k)
  PROVE  /\ Shifted(k) \in Record /\ Due(k) \in Request
         /\ Shifted(k).outbox = <<>> /\ Shifted(k).offset = k.offset
         /\ Shifted(k).response = None /\ Shifted(k).hup = FALSE
<1>1. /\ k.pending \in Seq(Request) /\ k.pending # <<>>
      /\ k.outbox = <<>> /\ k.response = None /\ k.hup = FALSE
  BY DEF Idle, Record
<1>2. Tail(k.pending) \in Seq(Request) /\ Head(k.pending) \in Request
  BY <1>1
<1> QED
  BY <1>1, <1>2 DEF Shifted, Due, Record

(* A piece queued is all there is in hand. *)
LEMMA QueuedIs ==
  ASSUME NEW k \in Record, NEW bytes \in Seq(Byte), k.outbox = <<>>
  PROVE  /\ Queued(k, bytes) \in Record
         /\ Queued(k, bytes).outbox = <<bytes>>
         /\ Queued(k, bytes).pending = k.pending
         /\ Queued(k, bytes).offset = k.offset /\ Queued(k, bytes).hup = k.hup
         /\ Queued(k, bytes).response = k.response
         /\ Queued(k, bytes).error = k.error
<1>1. Append(k.outbox, bytes) = <<bytes>> /\ <<bytes>> \in Seq(Seq(Byte))
  OBVIOUS
<1> QED
  BY <1>1 DEF Queued, Record

(* Spending hangs up and leaves what is in hand. *)
LEMMA SpentIs ==
  ASSUME NEW k \in Record
  PROVE  /\ Spent(k) \in Record /\ Spent(k).hup = TRUE
         /\ Spent(k).outbox = k.outbox /\ Spent(k).offset = k.offset
         /\ Spent(k).response = k.response
<1> DEFINE h == [k EXCEPT !.hup = TRUE]
<1>1. /\ h \in Record /\ h.hup = TRUE /\ h.outbox = k.outbox
      /\ h.offset = k.offset /\ h.response = k.response
  BY DEF Record
<1>2. Spent(k) = [h EXCEPT !.pending = <<>>] /\ <<>> \in Seq(Request)
  BY DEF Spent
<1> HIDE DEF h
<1> QED
  BY <1>1, <1>2 DEF Record

(* What the answer to r makes of a record with nothing in hand. *)
Answered(d, k, r, outcome) ==
  /\ d.offset = k.offset
  /\ outcome \in Failing =>
       d.outbox = <<>> /\ d.response = k.response /\ d.hup = k.hup
  /\ outcome \notin Failing => d.outbox = <<Piece(r, 0)>>
  /\ Opens(r, outcome) => d.response = r /\ d.hup = k.hup
  /\ outcome \notin Failing /\ ~Opens(r, outcome) =>
       d.response = k.response /\ d.hup = TRUE

(* deliver() does that. *)
LEMMA DeliveredIs ==
  ASSUME NEW k \in Record, NEW r \in Request, NEW outcome \in Outcomes,
         k.outbox = <<>>
  PROVE  /\ Delivered(k, r, outcome) \in Record
         /\ Answered(Delivered(k, r, outcome), k, r, outcome)
<1> DEFINE q == Queued(k, Piece(r, 0))
<1>0. 0 \in 0..MaxChunks
  BY ConnectionAssumption
<1>1. /\ q \in Record /\ q.outbox = <<Piece(r, 0)>>
      /\ q.offset = k.offset /\ q.hup = k.hup /\ q.response = k.response
  BY <1>0, PieceIs, QueuedIs
<1>2. /\ Spent(q) \in Record /\ Spent(q).hup = TRUE /\ Spent(q).outbox = q.outbox
      /\ Spent(q).offset = q.offset /\ Spent(q).response = q.response
  BY <1>1, SpentIs
<1>3. CASE outcome \in Failing
  <2>1. Delivered(k, r, outcome) = [k EXCEPT !.error = TRUE]
    BY <1>3 DEF Delivered, Failing
  <2>2. ~Opens(r, outcome)
    BY <1>3 DEF Failing, Opens
  <2> QED
    BY <1>3, <2>1, <2>2 DEF Answered, Record
<1>4. CASE outcome = "redirect" \/ (outcome = "head" /\ method[r] = "HEAD")
  <2>1. Delivered(k, r, outcome) = Spent(q)
    BY <1>4 DEF Delivered, Failing
  <2>2. ~Opens(r, outcome) /\ outcome \notin Failing
    BY <1>4 DEF Failing, Opens
  <2> HIDE DEF q
  <2> QED
    BY <1>1, <1>2, <2>1, <2>2 DEF Answered
<1>5. CASE outcome = "head" /\ method[r] # "HEAD"
  <2>1. Delivered(k, r, outcome) = [q EXCEPT !.response = r]
    BY <1>5 DEF Delivered, Failing
  <2>2. Opens(r, outcome) /\ outcome \notin Failing
    BY <1>5 DEF Failing, Opens
  <2> HIDE DEF q
  <2> QED
    BY <1>1, <2>1, <2>2 DEF Answered, Record
<1> QED
  BY <1>3, <1>4, <1>5 DEF Outcomes, Failing

(* recv() gives max bytes, or what there is, of the piece in hand, which   *)
(* is what the guest is to have next.                                      *)
Upto(k, max) == IF k.offset + max < Len(Head(k.outbox)) THEN k.offset + max
                                                        ELSE Len(Head(k.outbox))
Cut(k, upto) == IF upto = Len(Head(k.outbox))
                  THEN [k EXCEPT !.outbox = Tail(@), !.offset = 0]
                  ELSE [k EXCEPT !.offset = upto]
Slice(k, upto) == SubSeq(Head(k.outbox), k.offset + 1, upto)
Sizes == 1..2

(* What cutting a piece leaves in the record. *)
LEMMA CutFields ==
  ASSUME NEW k \in Record, NEW upto, upto \in 0..1 \/ upto = Len(Head(k.outbox)),
         k.outbox = <<Head(k.outbox)>>
  PROVE  /\ Cut(k, upto) \in Record
         /\ Cut(k, upto).response = k.response /\ Cut(k, upto).hup = k.hup
         /\ upto = Len(Head(k.outbox)) =>
              Cut(k, upto).outbox = <<>> /\ Cut(k, upto).offset = 0
         /\ upto # Len(Head(k.outbox)) =>
              Cut(k, upto).outbox = k.outbox /\ Cut(k, upto).offset = upto
<1>1. CASE upto = Len(Head(k.outbox))
  <2> DEFINE h == [k EXCEPT !.outbox = <<>>]
  <2>1. Tail(k.outbox) = <<>> /\ <<>> \in Seq(Seq(Byte))
    <3> DEFINE p == Head(k.outbox)
    <3>1. k.outbox = <<p>>
      OBVIOUS
    <3> HIDE DEF p
    <3> QED
      BY <3>1
  <2>2. h \in Record /\ h.outbox = <<>> /\ h.response = k.response /\ h.hup = k.hup
    BY <2>1 DEF Record
  <2>3. Cut(k, upto) = [h EXCEPT !.offset = 0]
    BY <1>1, <2>1 DEF Cut
  <2> HIDE DEF h
  <2> QED
    BY <1>1, <2>2, <2>3 DEF Record
<1>2. CASE upto # Len(Head(k.outbox))
  <2>1. Cut(k, upto) = [k EXCEPT !.offset = upto]
    BY <1>2 DEF Cut
  <2> QED
    BY <1>2, <2>1 DEF Record
<1> QED
  BY <1>1, <1>2

(* A read takes one byte at least, and stops inside a piece only at 1 of 2. *)
LEMMA UptoIs ==
  ASSUME NEW l \in 1..2, NEW o \in 0..1, o < l, NEW max \in 1..2, NEW u,
         u = IF o + max < l THEN o + max ELSE l
  PROVE  /\ u \in Nat /\ o <= u /\ u <= l /\ o < u /\ l \in Nat /\ o \in Nat
         /\ u # l => u = 1 /\ l = 2
OBVIOUS

(* With g given, the record goes on with the answer to r. *)
Holding(k, g, r) ==
  k \in Record /\ g \in Seq(Byte) /\ Runs(g, 0, r) /\ Follows(k, g, r)
Same(k2, h, k, g) ==
  /\ Amount(k2, h) = Amount(k, g)
  /\ k2.response = k.response /\ k2.hup = k.hup
CutOf(k2, h, k, g, max) ==
  k2 = Cut(k, Upto(k, max)) /\ h = g \o Slice(k, Upto(k, max))

(* A read moves bytes from the record to what is given, and loses none. *)
LEMMA CutIs ==
  ASSUME NEW k, NEW g, NEW r \in Request, NEW max \in Sizes, NEW k2, NEW h,
         Holding(k, g, r), k.outbox # <<>>, CutOf(k2, h, k, g, max)
  PROVE  Holding(k2, h, r) /\ Same(k2, h, k, g)
<1> DEFINE p == Head(k.outbox)
           l == Len(p)
           o == k.offset
           n == Len(g)
           upto == Upto(k, max)
           s == Slice(k, upto)
<1>0. /\ InHand(k, n, r) /\ k \in Record /\ g \in Seq(Byte)
      /\ k2 = Cut(k, upto) /\ h = g \o s
  BY DEF Follows, Holding, CutOf
<1>1. /\ k.outbox = <<p>> /\ p \in Seq(Byte) /\ l \in 1..2 /\ l \in Nat
      /\ o \in 0..1 /\ o \in Nat /\ o < l /\ n \in Nat
      /\ k.outbox \in Seq(Seq(Byte))
  <2>1. k.outbox \in Seq(Seq(Byte)) /\ k.offset \in 0..1
    BY <1>0 DEF Record
  <2> QED
    BY <1>0, <2>1 DEF InHand
<1>2. Left(k) = l - o /\ Fits(p, o, n, r)
  BY <1>0 DEF InHand, Left
<1>a. upto = (IF o + max < l THEN o + max ELSE l) /\ Runs(g, 0, r)
  BY DEF Upto, Holding
<1>b. s = SubSeq(p, o + 1, upto) /\ max \in 1..2
  BY DEF Slice, Sizes
<1> HIDE DEF p, l, o, n, s, upto
<1>3. /\ upto \in Nat /\ o <= upto /\ upto <= l /\ o < upto
      /\ upto # l => upto = 1 /\ l = 2
  BY <1>1, <1>a, <1>b, UptoIs
<1>4. /\ s \in Seq(Byte) /\ Len(s) = upto - o /\ Runs(s, n, r)
      /\ Fits(p, upto, n + (upto - o), r)
  <2>2. upto <= Len(p)
    BY <1>3 DEF l
  <2>3. p \in Seq(Byte) /\ o \in Nat /\ upto \in Nat /\ n \in Nat /\ o <= upto
    BY <1>1, <1>3
  <2>4. /\ SubSeq(p, o + 1, upto) \in Seq(Byte)
        /\ Len(SubSeq(p, o + 1, upto)) = upto - o
        /\ Runs(SubSeq(p, o + 1, upto), n, r)
        /\ Fits(p, upto, n + (upto - o), r)
    BY <1>2, <2>2, <2>3, PartOf
  <2> QED
    BY <1>b, <2>4 DEF l
<1>5. h \in Seq(Byte) /\ Len(h) = n + Len(s) /\ Runs(h, 0, r)
  BY <1>0, <1>4, <1>a, Gives DEF n
<1>6. Len(h) = n + (upto - o) /\ Len(h) \in Nat
  BY <1>1, <1>3, <1>4, <1>5
<1>7. ASSUME upto = l
      PROVE  /\ h \in Seq(Byte) /\ Runs(h, 0, r)
             /\ k2 \in Record /\ InHand(k2, Len(h), r)
             /\ Len(h) + Left(k2) = n + Left(k)
             /\ k2.response = k.response /\ k2.hup = k.hup
  <2>3. /\ k2 \in Record /\ k2.outbox = <<>> /\ k2.offset = 0
        /\ k2.response = k.response /\ k2.hup = k.hup
    BY <1>0, <1>1, <1>7, CutFields DEF l, p
  <2>4. InHand(k2, Len(h), r) /\ Left(k2) = 0
    BY <2>3 DEF InHand, Left
  <2>5. Len(h) + 0 = n + (l - o)
    BY <1>1, <1>6, <1>7
  <2> QED
    BY <1>2, <1>5, <1>6, <2>3, <2>4, <2>5
<1>8. ASSUME upto # l
      PROVE  /\ h \in Seq(Byte) /\ Runs(h, 0, r)
             /\ k2 \in Record /\ InHand(k2, Len(h), r)
             /\ Len(h) + Left(k2) = n + Left(k)
             /\ k2.response = k.response /\ k2.hup = k.hup
  <2>1. upto \in 0..1
    BY <1>3, <1>8
  <2>2. /\ k2 \in Record /\ k2.outbox = k.outbox /\ k2.offset = upto
        /\ k2.response = k.response /\ k2.hup = k.hup
    BY <1>0, <1>1, <1>8, <2>1, CutFields DEF l, p
  <2>3. Head(k2.outbox) = p /\ k2.outbox # <<>> /\ k2.outbox = <<Head(k2.outbox)>>
    BY <1>1, <2>2
  <2>4. Left(k2) = l - upto
    BY <2>2, <2>3 DEF Left, l
  <2>5. InHand(k2, Len(h), r)
    <3>1. Fits(p, upto, Len(h), r)
      BY <1>4, <1>6
    <3>2. upto < l
      BY <1>1, <1>3, <1>8
    <3> QED
      BY <1>1, <2>2, <2>3, <3>1, <3>2 DEF InHand, l
  <2>6. Len(h) + (l - upto) = n + (l - o)
    BY <1>1, <1>3, <1>6
  <2> QED
    BY <1>2, <1>5, <1>6, <2>2, <2>4, <2>5, <2>6
<1> QED
  BY <1>7, <1>8 DEF Holding, Same, Follows, Amount, n

(* A piece follows what is given when that is a number of whole pieces.    *)
LEMMA PieceFits ==
  ASSUME NEW r \in Request, NEW i \in 0..MaxChunks, NEW n, n = 2 * i
  PROVE  /\ n \in Nat /\ Fits(Piece(r, i), 0, n, r) /\ Runs(Piece(r, i), n, r)
<1> DEFINE p == Piece(r, i)
<1>1. /\ Len(p) = 2 /\ p[1] = At(r, 2 * i + 1) /\ p[2] = At(r, 2 * i + 2)
  BY PieceIs
<1> HIDE DEF p
<1>2. i \in Nat
  BY ConnectionAssumption
<1>3. \A j \in 1..2 : p[j] = At(r, n + j) /\ p[0 + j] = At(r, n + j)
  <2>1. \A j \in 1..2 : j = 1 \/ j = 2
    OBVIOUS
  <2> QED
    BY <1>1, <2>1
<1>4. 2 - 0 = 2 /\ n \in Nat
  BY <1>2
<1> QED
  BY <1>1, <1>3, <1>4 DEF Fits, Runs, p

(* recv() gives max bytes of a piece it has just read, and keeps the rest. *)
Kept(k, piece, max) ==
  IF max < Len(piece) THEN Queued(k, SubSeq(piece, max + 1, Len(piece))) ELSE k
GivenOf(piece, max) ==
  IF max < Len(piece) THEN SubSeq(piece, 1, max) ELSE piece

TakenOf(k2, h, k, g, piece, max) ==
  k2 = Kept(k, piece, max) /\ h = g \o GivenOf(piece, max)

(* So does the read of the i-th piece, when all before it is given. *)
LEMMA TakenIs ==
  ASSUME NEW k, NEW g, NEW r \in Request, NEW i \in 0..MaxChunks,
         NEW max \in Sizes, NEW k2, NEW h, NEW m, m = 2 * i,
         Holding(k, g, r), k.outbox = <<>>, Amount(k, g) = m,
         TakenOf(k2, h, k, g, Piece(r, i), max)
  PROVE  /\ Holding(k2, h, r) /\ Amount(k2, h) = 2 * (i + 1)
         /\ k2.response = k.response /\ k2.hup = k.hup
<1> DEFINE p == Piece(r, i)
           n == Len(g)
<1>0. /\ k \in Record /\ g \in Seq(Byte) /\ Runs(g, 0, r) /\ k.offset = 0
      /\ Len(g) = 2 * i /\ max \in 1..2
      /\ k2 = Kept(k, p, max) /\ h = g \o GivenOf(p, max)
  <2>1. k \in Record /\ g \in Seq(Byte) /\ Runs(g, 0, r) /\ InHand(k, Len(g), r)
    BY DEF Holding, Follows
  <2>2. k.offset = 0
    BY <2>1 DEF InHand
  <2>3. Len(g) + 0 = 2 * i /\ Len(g) \in Nat
    BY <2>1 DEF Amount, Left
  <2> QED
    BY <2>1, <2>2, <2>3 DEF Sizes, TakenOf
<1>1. /\ p \in Seq(Byte) /\ Len(p) = 2 /\ n \in Nat
      /\ Fits(p, 0, n, r) /\ Runs(p, n, r) /\ n = 2 * i /\ i \in Nat
  BY <1>0, PieceIs, PieceFits, ConnectionAssumption
<1> HIDE DEF p, n
<1>2. CASE max = 2
  <2>1. GivenOf(p, max) = p /\ k2 = k
    BY <1>0, <1>1, <1>2 DEF GivenOf, Kept
  <2>2. h \in Seq(Byte) /\ Len(h) = n + 2 /\ Runs(h, 0, r)
    BY <1>0, <1>1, <2>1, Gives DEF n
  <2>3. InHand(k2, Len(h), r) /\ Left(k2) = 0
    BY <1>0, <2>1 DEF InHand, Left
  <2>4. Len(h) + 0 = 2 * (i + 1)
    BY <1>1, <2>2
  <2> QED
    BY <1>0, <2>1, <2>2, <2>3, <2>4 DEF Holding, Follows, Amount
<1>3. CASE max = 1
  <2> DEFINE s == SubSeq(p, 1, 1)
             q == SubSeq(p, 2, 2)
  <2>1. /\ s \in Seq(Byte) /\ Len(s) = 1 /\ Runs(s, n, r) /\ Fits(p, 1, n + 1, r)
    <3>1. /\ SubSeq(p, 0 + 1, 1) \in Seq(Byte)
          /\ Len(SubSeq(p, 0 + 1, 1)) = 1 - 0
          /\ Runs(SubSeq(p, 0 + 1, 1), n, r) /\ Fits(p, 1, n + (1 - 0), r)
      BY <1>1, PartOf
    <3>2. 0 + 1 = 1 /\ 1 - 0 = 1
      OBVIOUS
    <3> QED
      BY <3>1, <3>2
  <2>2. /\ q \in Seq(Byte) /\ Len(q) = 1 /\ Runs(q, n + 1, r)
    <3>1. n + 1 \in Nat
      BY <1>1
    <3>2. /\ SubSeq(p, 1 + 1, 2) \in Seq(Byte)
          /\ Len(SubSeq(p, 1 + 1, 2)) = 2 - 1
          /\ Runs(SubSeq(p, 1 + 1, 2), n + 1, r)
      BY <1>1, <2>1, <3>1, PartOf
    <3>3. 1 + 1 = 2 /\ 2 - 1 = 1
      OBVIOUS
    <3> QED
      BY <3>2, <3>3
  <2>3. GivenOf(p, max) = s /\ k2 = Queued(k, q)
    <3>1. max < Len(p) /\ max + 1 = 2
      BY <1>1, <1>3
    <3> QED
      BY <1>0, <1>1, <1>3, <3>1 DEF GivenOf, Kept
  <2> HIDE DEF s, q
  <2>4. h \in Seq(Byte) /\ Len(h) = n + 1 /\ Runs(h, 0, r)
    BY <1>0, <1>1, <2>1, <2>3, Gives DEF n
  <2>5. /\ k2 \in Record /\ k2.outbox = <<q>> /\ k2.offset = 0
        /\ k2.response = k.response /\ k2.hup = k.hup
    BY <1>0, <2>2, <2>3, QueuedIs
  <2>6. Head(k2.outbox) = q /\ k2.outbox # <<>>
    BY <2>5
  <2>7. Fits(q, 0, n + 1, r)
    <3>1. 1 - 0 = 1 /\ \A j \in 1..1 : 0 + j = j
      OBVIOUS
    <3> QED
      BY <2>2, <3>1 DEF Fits, Runs
  <2>8. InHand(k2, Len(h), r)
    <3>1. Len(q) \in 1..2 /\ 0 < Len(q)
      BY <2>2
    <3>2. Fits(q, 0, Len(h), r)
      BY <2>4, <2>7
    <3> QED
      BY <2>5, <2>6, <3>1, <3>2 DEF InHand
  <2>9. Left(k2) = 1
    BY <2>2, <2>5, <2>6 DEF Left
  <2>10. Len(h) + 1 = 2 * (i + 1)
    BY <1>1, <2>4
  <2> QED
    BY <2>4, <2>5, <2>8, <2>9, <2>10 DEF Holding, Follows, Amount
<1> QED
  BY <1>0, <1>2, <1>3

-----------------------------------------------------------------------------
(* Steps that move no byte: what they may do, and that it is harmless.     *)
Silent ==
  /\ \A d \in Conns :
       /\ conn'[d].outbox = conn[d].outbox /\ conn'[d].offset = conn[d].offset
       /\ conn'[d].response = conn[d].response /\ conn'[d].hup = conn[d].hup
       /\ table'[d] = "closed" <=> table[d] = "closed"
  /\ UNCHANGED <<sent, from, got, asked, made, queue, door, eof, stopped>>
  /\ over \subseteq over' /\ flights' \subseteq flights
  /\ \A q \in pulls' : q \in pulls \/ (door[q] = "async" /\ ~eof[from[q]])

(* A step that moves no byte keeps the invariant. *)
LEMMA SilentKeeps ==
  ASSUME BInv, Silent, Typed'
  PROVE  BInv'
<1> USE DEF Silent
<1>1. ASSUME NEW d \in Conns
      PROVE  Given(d)' /\ Going(d)' /\ Ended(d)'
  <2>1. Given(d) /\ Going(d) /\ Ended(d)
    BY DEF BInv
  <2>2. Given(d)'
    BY <2>1 DEF Given, Lead
  <2>3. Left(conn[d])' = Left(conn[d]) /\ Handed(d)' = Handed(d)
    BY DEF Left, Amount, Handed
  <2>4. \A n, r : InHand(conn[d], n, r) => InHand(conn'[d], n, r)
    BY DEF InHand
  <2>5. Going(d)'
    BY <2>1, <2>3, <2>4 DEF Going, Follows, Lead, Read
  <2>6. eof[d] /\ Waiting(d)' => Waiting(d)
    BY DEF Waiting, BInv, Typed
  <2>7. Ended(d)'
    BY <2>1, <2>6 DEF Ended, Lead
  <2> QED
    BY <2>2, <2>5, <2>7
<1>2. ASSUME NEW q \in Request
      PROVE  Opened(q)'
  <2>1. Opened(q) /\ from[q] \in Conns
    BY DEF BInv, Typed
  <2> QED
    BY <2>1 DEF Opened
<1> QED
  BY <1>1, <1>2 DEF BInv

(* What holds of a connection the guest may use. *)
LEMMA AtHome ==
  ASSUME IInv, BInv, NEW c \in Conns, Usable(c)
  PROVE  /\ conn[c] \in Record /\ got[c] \in Seq(Byte)
         /\ table[c] = "open" /\ ~Waiting(c)
         /\ Given(c) /\ Going(c) /\ Ended(c)
         /\ \A q \in Request : from[q] = c =>
              q \notin flights /\ q \notin pulls /\ q \notin stopped
BY DEF Usable, BInv, Typed, Waiting, Opened

(* connect(), *)
LEMMA ConnectBytes ==
  ASSUME IInv, BInv, NEW c \in Conns, Connect(c)
  PROVE  BInv'
<1>1. /\ table[c] = "new" /\ table' = [table EXCEPT ![c] = "open"]
      /\ UNCHANGED <<conn, writing, network, asked, got, eof>>
  BY DEF Connect
<1>2. Typed'
  BY <1>1 DEF BInv, Typed, writing, network
<1>3. Silent
  BY <1>1 DEF Silent, writing, network, BInv, Typed
<1> QED
  BY <1>2, <1>3, SilentKeeps

(* a request refused by the policy, *)
LEMMA ReadyRefusedBytes ==
  ASSUME IInv, BInv, NEW c \in Conns, ReadyRefused(c)
  PROVE  BInv'
<1> DEFINE k == Shifted(conn[c])
           k2 == [k EXCEPT !.error = TRUE]
<1>1. /\ Usable(c) /\ Idle(conn[c]) /\ conn' = [conn EXCEPT ![c] = k2]
      /\ UNCHANGED <<table, writing, network, asked, got, eof>>
  BY DEF ReadyRefused, BInv, Typed
<1>2. /\ k \in Record /\ k.outbox = conn[c].outbox /\ k.offset = conn[c].offset
      /\ k.response = conn[c].response /\ k.hup = conn[c].hup
  BY <1>1, AtHome, ShiftedIs DEF Idle, Record
<1> HIDE DEF k
<1>3. /\ k2 \in Record /\ k2.outbox = conn[c].outbox
      /\ k2.offset = conn[c].offset
      /\ k2.response = conn[c].response /\ k2.hup = conn[c].hup
  BY <1>2 DEF Record
<1> HIDE DEF k2
<1>4. Typed'
  BY <1>1, <1>3 DEF BInv, Typed, writing, network
<1>5. Silent
  BY <1>1, <1>3 DEF Silent, writing, network, BInv, Typed
<1> QED
  BY <1>4, <1>5, SilentKeeps

(* the start of a pull, *)
LEMMA ReadyPullBytes ==
  ASSUME IInv, BInv, NEW c \in Conns, ReadyPull(c)
  PROVE  BInv'
<1> DEFINE r == conn[c].response
<1>1. /\ Usable(c) /\ r # None /\ ~Ready(r) /\ pulls' = pulls \cup {r}
      /\ UNCHANGED <<table, conn, writing, door, queue, done, stopped>>
      /\ UNCHANGED <<clock, flights, orphans, made, over, asked, got, eof>>
  BY DEF ReadyPull
<1>2. /\ conn[c] \in Record /\ table[c] = "open"
      /\ Given(c) /\ Going(c) /\ Ended(c)
  BY <1>1, AtHome
<1>3. r \in Request
  BY <1>1, <1>2 DEF Record
<1>4. asked[c] # <<>> /\ r = Lead(c) /\ door[r] # "none" /\ from[r] = c
  <2>1. asked[c] # <<>>
    BY <1>1, <1>2 DEF Given
  <2>2. r = Lead(c) /\ door[r] # "none"
    BY <1>1, <1>2, <2>1 DEF Going
  <2> QED
    BY <2>1, <2>2, LeadIs
<1>5. door[r] = "async"
  BY <1>1, <1>3, <1>4 DEF BInv, Typed, Ready
<1>6. ~eof[c]
  BY <1>1, <1>2 DEF Ended, IInv, HangupFinal
<1>7. Typed'
  BY <1>1, <1>3 DEF BInv, Typed, writing
<1>8. Silent
  BY <1>1, <1>4, <1>5, <1>6 DEF Silent, writing, BInv, Typed
<1> QED
  BY <1>7, <1>8, SilentKeeps

(* its end without a chunk, and the deadline: none moves a byte. *)
LEMMA PullEndBytes ==
  ASSUME IInv, BInv, NEW r \in Request, PullEnd(r) \/ TimerFires(r)
  PROVE  BInv'
<1>1. Typed'
  <2>1. CASE PullEnd(r)
    BY <2>1 DEF BInv, Typed, PullEnd, Disarmed, Clock, writing
  <2>2. CASE TimerFires(r)
    BY <2>2 DEF BInv, Typed, TimerFires, Clock, writing
  <2> QED
    BY <2>1, <2>2
<1>2. Silent
  BY DEF Silent, PullEnd, TimerFires, writing
<1> QED
  BY <1>1, <1>2, SilentKeeps

(* A connection about to ask has given nothing. *)
LEMMA Unasked ==
  ASSUME IInv, BInv, NEW c \in Conns, Usable(c), Idle(conn[c])
  PROVE  LET r == Due(conn[c]) IN
         /\ r \in Request /\ from[r] = c /\ asked[c] = <<>> /\ got[c] = <<>>
         /\ conn[c].outbox = <<>> /\ conn[c].offset = 0
         /\ conn[c].response = None /\ ~eof[c] /\ conn[c].hup = FALSE
         /\ \A q \in Request : from[q] = c =>
              /\ door[q] = "none" /\ made[q] = 0 /\ queue[q] = <<>>
              /\ q \notin flights /\ q \notin pulls /\ q \notin stopped
<1> DEFINE r == Due(conn[c])
<1>1. r \in Request /\ from[r] = c /\ asked[c] = <<>>
  BY IdleFirst DEF Written
<1> HIDE DEF r
<1>2. /\ conn[c] \in Record /\ table[c] = "open" /\ Given(c)
      /\ \A q \in Request : from[q] = c =>
           q \notin flights /\ q \notin pulls /\ q \notin stopped
  BY AtHome
<1>3. /\ got[c] = <<>> /\ ~eof[c] /\ conn[c].outbox = <<>>
      /\ conn[c].offset = 0 /\ conn[c].response = None
      /\ ~conn[c].hup
  BY <1>1, <1>2 DEF Given
<1>4. conn[c].hup = FALSE
  BY <1>2, <1>3 DEF Record
<1>5. ASSUME NEW q \in Request, from[q] = c
      PROVE  door[q] = "none" /\ made[q] = 0 /\ queue[q] = <<>>
  <2>1. Opened(q) /\ asked[c] # <<q>>
    BY <1>1 DEF BInv
  <2> QED
    BY <1>5, <2>1 DEF Opened
<1> QED
  BY <1>1, <1>2, <1>3, <1>4, <1>5 DEF r

(* readyAsync() asks, and awaits. *)
LEMMA ReadyFetchBytes ==
  ASSUME IInv, BInv, NEW c \in Conns, ReadyFetch(c)
  PROVE  BInv'
<1> DEFINE r == Due(conn[c])
           k == Shifted(conn[c])
<1>1. /\ Usable(c) /\ Idle(conn[c]) /\ conn' = [conn EXCEPT ![c] = k]
      /\ flights' = flights \cup {r} /\ clock' = [clock EXCEPT ![r] = "set"]
      /\ asked' = [asked EXCEPT ![c] = Append(@, r)]
      /\ UNCHANGED <<table, writing, door, queue, done, stopped, pulls>>
      /\ UNCHANGED <<orphans, made, over, got, eof>>
  BY DEF ReadyFetch, Armed, BInv, Typed
<1>2. /\ r \in Request /\ from[r] = c /\ asked[c] = <<>> /\ got[c] = <<>>
      /\ conn[c].outbox = <<>> /\ conn[c].offset = 0
      /\ conn[c].response = None /\ ~eof[c] /\ conn[c].hup = FALSE
      /\ \A q \in Request : from[q] = c =>
           /\ door[q] = "none" /\ made[q] = 0 /\ queue[q] = <<>>
           /\ q \notin flights /\ q \notin pulls /\ q \notin stopped
  BY <1>1, Unasked
<1>3. /\ k \in Record /\ k.outbox = <<>> /\ k.offset = 0
      /\ k.response = None /\ k.hup = FALSE
  BY <1>1, <1>2, ShiftedIs DEF BInv, Typed
<1> HIDE DEF k, r
<1>4. Typed'
  <2>1. asked' \in [Conns -> Seq(Request)] /\ conn' \in [Conns -> Record]
    BY <1>1, <1>2, <1>3 DEF BInv, Typed
  <2>2. clock' \in [Request -> Clock] /\ flights' \subseteq Request
    BY <1>1, <1>2 DEF BInv, Typed, Clock
  <2> QED
    BY <1>1, <2>1, <2>2 DEF BInv, Typed, writing
<1>5. conn'[c] = k /\ asked'[c] = <<r>> /\ Append(asked[c], r) = <<r>>
  BY <1>1, <1>2 DEF BInv, Typed
<1>6. Only(c)
  BY <1>1, <1>2 DEF Only, writing, BInv, Typed
<1>7. Given(c)'
  BY <1>1, <1>2, <1>5 DEF Given, Runs, Lead
<1>8. Going(c)'
  BY <1>3, <1>5 DEF Going, Follows, InHand
<1>9. Ended(c)'
  BY <1>1, <1>2 DEF Ended
<1>10. ASSUME NEW q \in Request, from[q] = c
       PROVE  Opened(q)'
  <2>1. from' = from /\ sent' = sent /\ table' = table
    BY <1>1 DEF writing
  <2>2. q \in flights' => q = r
    BY <1>1, <1>2, <1>10
  <2> QED
    BY <1>1, <1>2, <1>3, <1>5, <1>10, <2>1, <2>2 DEF Opened
<1> QED
  BY <1>4, <1>6, <1>7, <1>8, <1>9, <1>10, Here

-----------------------------------------------------------------------------
(* A record with nothing in hand, and one to which the answer to r came.   *)
Bare(k) == /\ k \in Record /\ k.outbox = <<>> /\ k.offset = 0
           /\ k.response = None /\ k.hup = FALSE
Starts(d, r, outcome) ==
  /\ Follows(d, <<>>, r)
  /\ d.response # None => d.response = r
  /\ d.response # None => Opens(r, outcome)
  /\ d.hup => outcome \notin Failing /\ ~Opens(r, outcome)
  /\ outcome \in Failing => d.outbox = <<>>
  /\ outcome \notin Failing => Left(d) = 2
  /\ Opens(r, outcome) => d.response = r /\ ~d.hup

(* deliver() makes of the one the other. *)
LEMMA FirstPiece ==
  ASSUME NEW k, NEW r \in Request, NEW outcome \in Outcomes, NEW d,
         Bare(k), Answered(d, k, r, outcome)
  PROVE  Starts(d, r, outcome)
<1> DEFINE p == Piece(r, 0)
<1>1. 0 \in 0..MaxChunks /\ 0 = 2 * 0
  BY ConnectionAssumption
<1>2. p \in Seq(Byte) /\ Len(p) = 2 /\ Fits(p, 0, 0, r)
  BY <1>1, PieceIs, PieceFits
<1> HIDE DEF p
<1>3. d.offset = 0 /\ Len(<<>>) = 0
  BY DEF Answered, Bare
<1>4. CASE outcome \in Failing
  <2>1. d.outbox = <<>> /\ d.response = None /\ d.hup = FALSE
    BY <1>4 DEF Answered, Bare
  <2>2. ~Opens(r, outcome)
    BY <1>4 DEF Failing, Opens
  <2>3. Follows(d, <<>>, r)
    BY <1>3, <2>1 DEF Follows, InHand
  <2> QED
    BY <1>4, <2>1, <2>2, <2>3 DEF Starts
<1>5. CASE outcome \notin Failing
  <2>1. d.outbox = <<p>>
    BY <1>5 DEF Answered, p
  <2>2. Head(d.outbox) = p /\ d.outbox # <<>>
    BY <2>1
  <2>3. Left(d) = 2
    BY <1>2, <1>3, <2>2 DEF Left
  <2>4. Follows(d, <<>>, r)
    <3>1. Len(p) \in 1..2 /\ 0 < Len(p)
      BY <1>2
    <3> QED
      BY <1>2, <1>3, <2>1, <2>2, <3>1 DEF Follows, InHand
  <2>5. Opens(r, outcome) => d.response = r /\ d.hup = FALSE
    BY DEF Answered, Bare
  <2>6. ~Opens(r, outcome) => d.response = None
    BY <1>5 DEF Answered, Bare
  <2> QED
    BY <1>5, <2>3, <2>4, <2>5, <2>6 DEF Starts
<1> QED
  BY <1>4, <1>5

(* recv() that sends the request due: an error to raise, *)
LEMMA RecvErrorBytes ==
  ASSUME IInv, BInv, NEW c \in Conns, NEW outcome \in Outcomes,
         RecvError(c, outcome)
  PROVE  BInv'
<1> DEFINE r == Due(conn[c])
           k == Shifted(conn[c])
           d == Delivered(k, r, outcome)
<1>1. /\ Usable(c) /\ Idle(conn[c]) /\ outcome \in Failing
      /\ conn' = [conn EXCEPT ![c] = d]
      /\ asked' = [asked EXCEPT ![c] =
                     IF outcome = "refused" THEN @ ELSE Append(@, r)]
      /\ door' = [door EXCEPT ![r] = IF Opens(r, outcome) THEN "sync" ELSE @]
      /\ UNCHANGED <<table, writing, queue, done, stopped, clock>>
      /\ UNCHANGED <<flights, pulls, orphans, made, over, got, eof>>
  BY DEF RecvError, PumpEffects, Pumped
<1>2. /\ r \in Request /\ from[r] = c /\ asked[c] = <<>> /\ got[c] = <<>>
      /\ conn[c].outbox = <<>> /\ conn[c].offset = 0
      /\ conn[c].response = None /\ ~eof[c] /\ conn[c].hup = FALSE
      /\ \A q \in Request : from[q] = c =>
           /\ door[q] = "none" /\ made[q] = 0 /\ queue[q] = <<>>
           /\ q \notin flights /\ q \notin pulls /\ q \notin stopped
  BY <1>1, Unasked
<1>3. /\ k \in Record /\ k.outbox = <<>> /\ k.offset = 0
      /\ k.response = None /\ k.hup = FALSE
  BY <1>1, <1>2, ShiftedIs DEF BInv, Typed
<1> HIDE DEF k, r
<1>4. d \in Record /\ Answered(d, k, r, outcome)
  BY <1>2, <1>3, DeliveredIs
<1> HIDE DEF d
<1>5. /\ d.outbox = <<>> /\ d.response = None /\ d.hup = FALSE /\ d.offset = 0
      /\ ~Opens(r, outcome)
  BY <1>1, <1>3, <1>4 DEF Answered, Opens, Failing
<1>6. /\ door' = door /\ conn'[c] = d
      /\ asked'[c] = <<>> \/ asked'[c] = <<r>>
      /\ asked' \in [Conns -> Seq(Request)]
  <2>1. Append(asked[c], r) = <<r>> /\ <<r>> \in Seq(Request)
    BY <1>2
  <2> QED
    BY <1>1, <1>2, <1>5, <2>1 DEF BInv, Typed
<1>7. Typed'
  BY <1>1, <1>4, <1>6 DEF BInv, Typed, writing
<1>8. Only(c)
  BY <1>1, <1>6 DEF Only, writing, BInv, Typed
<1>9. Given(c)'
  BY <1>1, <1>2, <1>5, <1>6 DEF Given, Runs, Lead
<1>10. Going(c)'
  BY <1>5, <1>6 DEF Going, Follows, InHand
<1>11. Ended(c)'
  BY <1>1, <1>2 DEF Ended
<1>12. ASSUME NEW q \in Request, from[q] = c
       PROVE  Opened(q)'
  <2>1. from' = from /\ sent' = sent /\ table' = table
    BY <1>1 DEF writing
  <2> QED
    BY <1>1, <1>2, <1>6, <1>12, <2>1 DEF Opened
<1> QED
  BY <1>7, <1>8, <1>9, <1>10, <1>11, <1>12, Here

(* or the first bytes of its answer. *)
LEMMA RecvFirstBytes ==
  ASSUME IInv, BInv, NEW c \in Conns, NEW max \in 1..2, NEW outcome \in Outcomes,
         RecvOutbox(c, max, outcome), Idle(conn[c])
  PROVE  BInv'
<1>0. PICK r \in Request : r = Due(conn[c])
  BY Unasked DEF RecvOutbox
<1> DEFINE k == Shifted(conn[c])
           d == Delivered(k, r, outcome)
           upto == Upto(d, max)
           e == Cut(d, upto)
           h == got[c] \o Slice(d, upto)
<1>1. /\ Usable(c) /\ d.outbox # <<>>
      /\ conn' = [conn EXCEPT ![c] = e] /\ got' = [got EXCEPT ![c] = h]
      /\ asked' = [asked EXCEPT ![c] =
                     IF outcome = "refused" THEN @ ELSE Append(@, r)]
      /\ door' = [door EXCEPT ![r] = IF Opens(r, outcome) THEN "sync" ELSE @]
      /\ UNCHANGED <<table, writing, queue, done, stopped, clock>>
      /\ UNCHANGED <<flights, pulls, orphans, made, over, eof>>
  BY <1>0 DEF RecvOutbox, PumpEffects, Pumped, Cut, Upto, Slice,
                BInv, Typed
<1> HIDE DEF upto, e, h
<1>2. /\ r \in Request /\ from[r] = c /\ asked[c] = <<>> /\ got[c] = <<>>
      /\ conn[c].outbox = <<>> /\ conn[c].offset = 0
      /\ conn[c].response = None /\ ~eof[c] /\ conn[c].hup = FALSE
      /\ \A q \in Request : from[q] = c =>
           /\ door[q] = "none" /\ made[q] = 0 /\ queue[q] = <<>>
           /\ q \notin flights /\ q \notin pulls /\ q \notin stopped
  BY <1>0, <1>1, Unasked
<1>3. /\ k \in Record /\ k.outbox = <<>> /\ k.offset = 0
      /\ k.response = None /\ k.hup = FALSE
  BY <1>1, <1>2, ShiftedIs DEF BInv, Typed
<1> HIDE DEF k
<1>4. d \in Record /\ Answered(d, k, r, outcome)
  BY <1>2, <1>3, DeliveredIs
<1> HIDE DEF d
<1>5. Starts(d, r, outcome) /\ outcome \notin Failing
  <2>1. Bare(k)
    BY <1>3 DEF Bare
  <2>2. Starts(d, r, outcome)
    BY <1>2, <1>4, <2>1, FirstPiece
  <2> QED
    BY <1>1, <2>2 DEF Starts
<1>6. Holding(e, h, r) /\ Same(e, h, d, got[c]) /\ Amount(d, got[c]) = 2
  <2>1. got[c] \in Seq(Byte) /\ got[c] = <<>>
    BY <1>2 DEF BInv, Typed
  <2>2. Follows(d, <<>>, r)
    BY <1>5 DEF Starts
  <2>3. Runs(<<>>, 0, r)
    BY DEF Runs
  <2>4. Holding(d, got[c], r)
    BY <1>4, <2>1, <2>2, <2>3 DEF Holding
  <2>5. Amount(d, <<>>) = 0 + Left(d)
    BY DEF Amount
  <2>6. Left(d) = 2
    BY <1>5 DEF Starts
  <2>7. max \in Sizes /\ CutOf(e, h, d, got[c], max) /\ d.outbox # <<>>
    BY <1>1 DEF Sizes, CutOf, e, h, upto
  <2> QED
    BY <1>2, <2>1, <2>4, <2>5, <2>6, <2>7, CutIs
<1>7. /\ conn'[c] = e /\ got'[c] = h /\ asked'[c] = <<r>> /\ Lead(c)' = r
      /\ asked' \in [Conns -> Seq(Request)]
  <2>1. Append(asked[c], r) = <<r>> /\ <<r>> \in Seq(Request) /\ outcome # "refused"
    BY <1>2, <1>5 DEF Failing
  <2> QED
    BY <1>1, <1>2, <2>1 DEF BInv, Typed, Lead
<1>e. /\ h \in Seq(Byte) /\ Runs(h, 0, r)
      /\ e \in Record /\ Follows(e, h, r) /\ Amount(e, h) = 2
      /\ e.response = d.response /\ e.hup = d.hup
  BY <1>6 DEF Holding, Same
<1>8. Typed'
  <2>1. /\ door' \in [Request -> {"none", "sync", "async"}]
        /\ got' \in [Conns -> Seq(Byte)] /\ conn' \in [Conns -> Record]
    BY <1>1, <1>e DEF BInv, Typed
  <2> QED
    BY <1>1, <1>7, <2>1 DEF BInv, Typed, writing
<1>9. Only(c)
  BY <1>1, <1>2 DEF Only, writing, BInv, Typed
<1>10. Given(c)'
  BY <1>e, <1>7 DEF Given
<1>11. Going(c)'
  <2>1. Handed(c)' = Amount(e, h)
    BY <1>7 DEF Handed, Amount, Left
  <2>3. made'[r] = 0 /\ queue'[r] = <<>>
    BY <1>1, <1>2
  <2>4. ASSUME e.response # None
        PROVE  /\ e.response = r /\ door'[r] # "none"
               /\ Handed(c)' = 2 * (Read(r)' + 1)
               /\ Counts(queue[r], Read(r))'
    <3>1. Opens(r, outcome) /\ e.response = r
      BY <1>5, <1>e, <2>4 DEF Starts
    <3>2. door'[r] = "sync"
      BY <1>1, <1>2, <3>1 DEF BInv, Typed
    <3>3. Read(r)' = 0 /\ 1..Len(queue'[r]) = {}
      <4>1. Len(queue'[r]) = 0
        BY <2>3
      <4>2. Read(r)' = made'[r] - Len(queue'[r])
        BY DEF Read
      <4> QED
        BY <2>3, <4>1, <4>2
    <3>4. Counts(queue[r], Read(r))'
      BY <3>3 DEF Counts
    <3> QED
      BY <1>e, <2>1, <3>1, <3>2, <3>3, <3>4
  <2>5. ASSUME e.hup
        PROVE  Handed(c)' = 2 * (made'[r] + 1) /\ door'[r] = "none"
    <3>1. ~Opens(r, outcome)
      BY <1>5, <1>e, <2>5 DEF Starts
    <3>2. door'[r] = door[r]
      BY <1>1, <1>2, <3>1 DEF BInv, Typed
    <3> QED
      BY <1>2, <1>e, <2>1, <2>3, <3>2
  <2>6. Follows(conn[c], got[c], r)'
    BY <1>e, <1>7 DEF Follows, InHand, Fits
  <2> QED
    BY <1>7, <2>4, <2>5, <2>6 DEF Going
<1>12. Ended(c)'
  BY <1>1, <1>2 DEF Ended
<1>13. ASSUME NEW q \in Request, from[q] = c
       PROVE  Opened(q)'
  <2>1. from' = from /\ sent' = sent /\ table' = table
    BY <1>1 DEF writing
  <2>2. q = r \/ door'[q] = "none"
    BY <1>1, <1>2, <1>13 DEF BInv, Typed
  <2>3. door'[q] # "async"
    BY <1>1, <1>2, <1>13 DEF BInv, Typed
  <2> QED
    BY <1>1, <1>2, <1>7, <1>13, <2>1, <2>2 DEF Opened
<1> QED
  BY <1>8, <1>9, <1>10, <1>11, <1>12, <1>13, Here

-----------------------------------------------------------------------------
(* A usable connection that has asked for r. *)
LEMMA Answering ==
  ASSUME IInv, BInv, NEW c \in Conns, Usable(c), asked[c] # <<>>,
         NEW r, r = Lead(c)
  PROVE  /\ r \in Request /\ from[r] = c /\ asked[c] = <<r>>
         /\ Holding(conn[c], got[c], r)
         /\ conn[c].response # None =>
              /\ conn[c].response = r /\ door[r] # "none"
              /\ Amount(conn[c], got[c]) = 2 * (Read(r) + 1)
              /\ Counts(queue[r], Read(r))
         /\ conn[c].hup => /\ Amount(conn[c], got[c]) = 2 * (made[r] + 1)
                           /\ door[r] # "none" => r \in over
<1>1. r \in Request /\ from[r] = c /\ asked[c] = <<r>>
  BY LeadIs
<1>2. /\ conn[c] \in Record /\ got[c] \in Seq(Byte) /\ table[c] = "open"
      /\ Given(c) /\ Going(c)
  BY AtHome
<1>3. Runs(got[c], 0, r) /\ Follows(conn[c], got[c], r)
  BY <1>2 DEF Given, Going
<1>4. Holding(conn[c], got[c], r)
  BY <1>2, <1>3 DEF Holding
<1> QED
  BY <1>1, <1>2, <1>4 DEF Going, Handed

(* A step that gives it bytes, and may read a chunk of the body. *)
LEMMA GivesMore ==
  ASSUME IInv, BInv, NEW c \in Conns, Usable(c), asked[c] # <<>>, ~eof[c],
         NEW r, r = Lead(c), NEW k, NEW h, Holding(k, h, r),
         k.response = conn[c].response, k.hup = conn[c].hup,
         conn' = [conn EXCEPT ![c] = k], got' = [got EXCEPT ![c] = h],
         UNCHANGED <<table, writing, door, done, stopped, clock>>,
         UNCHANGED <<flights, pulls, orphans, over, asked, eof>>,
         made' \in [Request -> 0..MaxChunks],
         queue' \in [Request -> Seq(1..MaxChunks)],
         \A q \in Request \ {r} : made'[q] = made[q] /\ queue'[q] = queue[q],
         door[r] = "none" => made'[r] = made[r],
         door[r] # "async" => queue'[r] = queue[r],
         NEW n, n = made'[r] - Len(queue'[r]),
         k.response # None =>
           Amount(k, h) = 2 * (n + 1) /\ Counts(queue'[r], n),
         k.hup => Amount(k, h) = 2 * (made'[r] + 1)
  PROVE  BInv'
<1>1. /\ r \in Request /\ from[r] = c /\ asked[c] = <<r>>
      /\ conn[c].response # None => conn[c].response = r /\ door[r] # "none"
      /\ conn[c].hup => (door[r] # "none" => r \in over)
  BY Answering
<1>2. \A q \in Request : from[q] = c =>
        q \notin flights /\ q \notin pulls /\ q \notin stopped
  BY AtHome
<1>3. /\ k \in Record /\ h \in Seq(Byte) /\ Runs(h, 0, r) /\ Follows(k, h, r)
      /\ sent' = sent /\ from' = from /\ method' = method
  BY DEF Holding, writing
<1>4. Typed'
  <2>1. conn' \in [Conns -> Record] /\ got' \in [Conns -> Seq(Byte)]
    BY <1>3 DEF BInv, Typed
  <2> QED
    BY <1>3, <2>1 DEF BInv, Typed
<1>5. Only(c)
  BY <1>1, <1>3 DEF Only, BInv, Typed
<1>6. conn'[c] = k /\ got'[c] = h /\ asked'[c] = <<r>> /\ asked'[c][1] = r
  BY <1>1 DEF BInv, Typed
<1>7. Given(c)'
  BY <1>3, <1>6 DEF Given, Lead
<1>8. Handed(c)' = Amount(k, h)
  BY <1>6 DEF Handed, Amount, Left
<1>9. Follows(conn[c], got[c], r)'
  BY <1>3, <1>6 DEF Follows, InHand, Fits
<1>10. Going(c)'
  <2>1. Read(r)' = n
    BY DEF Read
  <2>2. Counts(queue'[r], n) => Counts(queue[r], Read(r))'
    BY <2>1 DEF Counts
  <2> QED
    BY <1>1, <1>6, <1>8, <1>9, <2>1, <2>2 DEF Going, Lead
<1>11. Ended(c)'
  BY DEF Ended
<1>12. ASSUME NEW q \in Request, from[q] = c
       PROVE  Opened(q)'
  <2>1. Opened(q)
    BY DEF BInv
  <2>2. /\ door'[q] = "none" => made'[q] = made[q]
        /\ door'[q] # "async" => queue'[q] = queue[q]
    BY <1>12
  <2>3. q \notin flights' /\ q \notin pulls' /\ q \notin stopped'
    BY <1>2, <1>12
  <2> QED
    BY <1>3, <2>1, <2>2, <2>3 DEF Opened
<1> QED
  BY <1>4, <1>5, <1>7, <1>10, <1>11, <1>12, Here

(* recv() with bytes in hand and nothing to send. *)
LEMMA RecvMoreBytes ==
  ASSUME IInv, BInv, NEW c \in Conns, NEW max \in 1..2, NEW outcome \in Outcomes,
         RecvOutbox(c, max, outcome), ~Idle(conn[c])
  PROVE  BInv'
<1> DEFINE k == conn[c]
           e == Cut(k, Upto(k, max))
           h == got[c] \o Slice(k, Upto(k, max))
<1>1. /\ Usable(c) /\ k.outbox # <<>>
      /\ conn' = [conn EXCEPT ![c] = e] /\ got' = [got EXCEPT ![c] = h]
      /\ UNCHANGED <<table, writing, door, done, stopped, clock>>
      /\ UNCHANGED <<flights, pulls, orphans, over, asked, eof>>
      /\ UNCHANGED <<made, queue>>
  BY DEF RecvOutbox, PumpEffects, Pumped, Cut, Upto, Slice, BInv, Typed
<1>2. Given(c) /\ Ended(c) /\ table[c] = "open"
  BY <1>1, AtHome
<1>3. asked[c] # <<>> /\ ~eof[c]
  BY <1>1, <1>2 DEF Given, Ended
<1>4. PICK r \in Request : r = Lead(c)
  BY <1>3, LeadIs
<1>5. /\ from[r] = c /\ asked[c] = <<r>> /\ Holding(k, got[c], r)
      /\ k.response # None =>
           /\ Amount(k, got[c]) = 2 * (Read(r) + 1)
           /\ Counts(queue[r], Read(r))
      /\ k.hup => Amount(k, got[c]) = 2 * (made[r] + 1)
  BY <1>1, <1>3, <1>4, Answering
<1>6. CutOf(e, h, k, got[c], max) /\ max \in Sizes
  BY DEF CutOf, Sizes
<1> HIDE DEF e, h, k
<1>7. Holding(e, h, r) /\ Same(e, h, k, got[c])
  BY <1>1, <1>4, <1>5, <1>6, CutIs
<1>8. /\ made' \in [Request -> 0..MaxChunks]
      /\ queue' \in [Request -> Seq(1..MaxChunks)]
      /\ made'[r] = made[r] /\ queue'[r] = queue[r]
      /\ \A q \in Request : made'[q] = made[q] /\ queue'[q] = queue[q]
  BY <1>1 DEF BInv, Typed
<1>a. PICK n : n = Read(r)
  OBVIOUS
<1>9. /\ n = made'[r] - Len(queue'[r])
      /\ e.response # None =>
           Amount(e, h) = 2 * (n + 1) /\ Counts(queue'[r], n)
  BY <1>5, <1>7, <1>8, <1>a DEF Same, Read
<1>10. e.hup => Amount(e, h) = 2 * (made'[r] + 1)
  BY <1>5, <1>7, <1>8 DEF Same
<1>11. e.response = conn[c].response /\ e.hup = conn[c].hup
  BY <1>7 DEF Same, k
<1> QED
  BY <1>1, <1>3, <1>4, <1>7, <1>8, <1>9, <1>10, <1>11, GivesMore

(* recv() that reads a chunk. *)
LEMMA Reads ==
  ASSUME IInv, BInv, NEW c \in Conns, Readable(c)
  PROVE  /\ Usable(c) /\ asked[c] # <<>> /\ ~eof[c] /\ conn[c].outbox = <<>>
         /\ conn[c].response \in Request /\ conn[c].response = Lead(c)
         /\ conn[c].hup = FALSE
<1>1. /\ Usable(c) /\ conn[c].outbox = <<>> /\ conn[c].response # None
  BY DEF Readable
<1>2. conn[c] \in Record /\ Given(c) /\ Going(c) /\ Ended(c) /\ table[c] = "open"
  BY <1>1, AtHome
<1>3. asked[c] # <<>>
  BY <1>1, <1>2 DEF Given
<1>4. ~conn[c].hup
  BY <1>1 DEF IInv, HangupFinal
<1>5. ~eof[c]
  BY <1>2, <1>4 DEF Ended
<1>6. conn[c].response = Lead(c) /\ conn[c].response \in Request
  BY <1>1, <1>2, <1>3 DEF Going, Record
<1>7. conn[c].hup = FALSE
  BY <1>2, <1>4 DEF Record
<1> QED
  BY <1>1, <1>3, <1>5, <1>6, <1>7

(* What TakenPiece makes of the record and of what is given. *)
LEMMA TakenPieceIs ==
  ASSUME BInv, NEW c \in Conns, NEW max \in 1..2, NEW r, NEW i,
         TakenPiece(c, Piece(r, i), max)
  PROVE  \E k, h : /\ conn' = [conn EXCEPT ![c] = k]
                   /\ got' = [got EXCEPT ![c] = h]
                   /\ TakenOf(k, h, conn[c], got[c], Piece(r, i), max)
<1> DEFINE p == Piece(r, i)
           k == Kept(conn[c], p, max)
           h == got[c] \o GivenOf(p, max)
<1>1. conn' = [conn EXCEPT ![c] = k]
  BY DEF TakenPiece, Kept, BInv, Typed
<1>2. got' = [got EXCEPT ![c] = h]
  BY DEF TakenPiece, GivenOf, BInv, Typed
<1>3. TakenOf(k, h, conn[c], got[c], Piece(r, i), max)
  BY DEF TakenOf
<1> HIDE DEF k, h
<1> QED
  BY <1>1, <1>2, <1>3

(* recv() over the blocking door. *)
LEMMA RecvBlockingBytes ==
  ASSUME IInv, BInv, NEW c \in Conns, NEW max \in 1..2, RecvBlocking(c, max)
  PROVE  BInv'
<1>1. Readable(c)
  BY DEF RecvBlocking
<1>2. PICK r \in Request : r = conn[c].response
  BY <1>1, Reads
<1>3. /\ Usable(c) /\ asked[c] # <<>> /\ ~eof[c] /\ conn[c].outbox = <<>>
      /\ r = Lead(c) /\ conn[c].hup = FALSE
  BY <1>1, <1>2, Reads
<1>4. PICK i : i = made[r] + 1
  OBVIOUS
<1>5. /\ door[r] = "sync" /\ made[r] < MaxChunks
      /\ made' = [made EXCEPT ![r] = i] /\ queue' = queue
      /\ TakenPiece(c, Piece(r, i), max)
  BY <1>2, <1>4 DEF RecvBlocking, BInv, Typed
<1>6. /\ UNCHANGED <<table, writing, door, done, stopped, clock>>
      /\ UNCHANGED <<flights, pulls, orphans, over, asked, eof>>
  BY <1>5 DEF TakenPiece
<1>7. PICK k, h : /\ conn' = [conn EXCEPT ![c] = k]
                  /\ got' = [got EXCEPT ![c] = h]
                  /\ TakenOf(k, h, conn[c], got[c], Piece(r, i), max)
  BY <1>5, TakenPieceIs
<1>8. made[r] \in Nat /\ i \in 0..MaxChunks /\ queue[r] = <<>> /\ Len(queue[r]) = 0
  <2>1. made[r] \in 0..MaxChunks /\ queue[r] = <<>>
    BY <1>5 DEF BInv, Typed, Opened
  <2>2. Len(queue[r]) = 0
    BY <2>1
  <2>3. made[r] \in Nat /\ i \in 0..MaxChunks
    BY <1>4, <1>5, <2>1, ConnectionAssumption
  <2> QED
    BY <2>1, <2>2, <2>3
<1>9. /\ Holding(conn[c], got[c], r)
      /\ Amount(conn[c], got[c]) = 2 * (Read(r) + 1)
  <2>1. conn[c].response # None
    BY <1>1 DEF Readable
  <2> QED
    BY <1>2, <1>3, <2>1, Answering
<1>10. Amount(conn[c], got[c]) = 2 * i
  BY <1>4, <1>8, <1>9 DEF Read
<1>11. max \in Sizes
  BY DEF Sizes
<1>12. /\ Holding(k, h, r) /\ Amount(k, h) = 2 * (i + 1)
       /\ k.response = conn[c].response /\ k.hup = conn[c].hup
  BY <1>3, <1>7, <1>8, <1>9, <1>10, <1>11, TakenIs
<1>13. /\ made' \in [Request -> 0..MaxChunks]
       /\ queue' \in [Request -> Seq(1..MaxChunks)]
       /\ made'[r] = i /\ queue'[r] = queue[r] /\ Len(queue'[r]) = 0
       /\ \A q \in Request \ {r} : made'[q] = made[q] /\ queue'[q] = queue[q]
  BY <1>5, <1>8 DEF BInv, Typed
<1>14. i = made'[r] - Len(queue'[r]) /\ Counts(queue'[r], i)
  BY <1>8, <1>13, ConnectionAssumption DEF Counts
<1>15. ~k.hup /\ door[r] # "none"
  BY <1>3, <1>5, <1>12
<1> QED
  BY <1>3, <1>6, <1>7, <1>12, <1>13, <1>14, <1>15, GivesMore

(* The head of a queue is the next chunk, and its tail those after it. *)
LEMMA CountsOn ==
  ASSUME NEW S, NEW s \in Seq(S), s # <<>>, NEW n \in Int, Counts(s, n)
  PROVE  /\ Head(s) = n + 1 /\ Head(s) \in S
         /\ Tail(s) \in Seq(S) /\ Len(Tail(s)) = Len(s) - 1
         /\ Counts(Tail(s), n + 1)
<1>1. /\ Len(s) \in Nat \ {0} /\ 1 \in 1..Len(s)
      /\ Head(s) = s[1] /\ s[1] \in S
  OBVIOUS
<1>2. Head(s) = n + 1
  BY <1>1 DEF Counts
<1>3. Tail(s) \in Seq(S) /\ Len(Tail(s)) = Len(s) - 1
  OBVIOUS
<1>4. ASSUME NEW j \in 1..Len(Tail(s))
      PROVE  Tail(s)[j] = n + 1 + j
  <2>1. j + 1 \in 1..Len(s) /\ j \in Int
    BY <1>1, <1>3
  <2>2. Tail(s)[j] = s[j + 1]
    BY <1>1, <1>3
  <2>3. s[j + 1] = n + (j + 1)
    BY <2>1 DEF Counts
  <2> QED
    BY <2>1, <2>2, <2>3
<1> QED
  BY <1>1, <1>2, <1>3, <1>4 DEF Counts

(* recv() of a chunk pulled before. *)
LEMMA RecvAwaitedBytes ==
  ASSUME IInv, BInv, NEW c \in Conns, NEW max \in 1..2, RecvAwaited(c, max)
  PROVE  BInv'
<1>1. Readable(c)
  BY DEF RecvAwaited
<1>2. PICK r \in Request : r = conn[c].response
  BY <1>1, Reads
<1>3. /\ Usable(c) /\ asked[c] # <<>> /\ ~eof[c] /\ conn[c].outbox = <<>>
      /\ r = Lead(c) /\ conn[c].hup = FALSE
  BY <1>1, <1>2, Reads
<1>4. PICK i : i = Head(queue[r])
  OBVIOUS
<1>5. /\ door[r] = "async" /\ queue[r] # <<>>
      /\ queue' = [queue EXCEPT ![r] = Tail(queue[r])] /\ made' = made
      /\ TakenPiece(c, Piece(r, i), max)
  BY <1>2, <1>4 DEF RecvAwaited, BInv, Typed
<1>6. /\ UNCHANGED <<table, writing, door, done, stopped, clock>>
      /\ UNCHANGED <<flights, pulls, orphans, over, asked, eof>>
  BY <1>5 DEF TakenPiece
<1>7. PICK k, h : /\ conn' = [conn EXCEPT ![c] = k]
                  /\ got' = [got EXCEPT ![c] = h]
                  /\ TakenOf(k, h, conn[c], got[c], Piece(r, i), max)
  BY <1>5, TakenPieceIs
<1>9. /\ Holding(conn[c], got[c], r)
      /\ Amount(conn[c], got[c]) = 2 * (Read(r) + 1)
      /\ Counts(queue[r], Read(r))
  <2>1. conn[c].response # None
    BY <1>1 DEF Readable
  <2> QED
    BY <1>2, <1>3, <2>1, Answering
<1>8. PICK s : s = queue[r]
  OBVIOUS
<1>a. PICK n : n = Read(r)
  OBVIOUS
<1>b. /\ s \in Seq(1..MaxChunks) /\ s # <<>> /\ n \in Int /\ i = Head(s)
      /\ Counts(s, n) /\ made[r] \in Int /\ n = made[r] - Len(s)
  <2>1. s \in Seq(1..MaxChunks) /\ made[r] \in 0..MaxChunks
    BY <1>8 DEF BInv, Typed
  <2>2. n = made[r] - Len(s) /\ made[r] \in Int
    BY <1>8, <1>a, <2>1, ConnectionAssumption DEF Read
  <2>3. n \in Int
    BY <2>1, <2>2
  <2>4. Counts(s, n)
    BY <1>8, <1>9, <1>a
  <2> QED
    BY <1>4, <1>5, <1>8, <2>1, <2>2, <2>3, <2>4
<1>c. /\ i = n + 1 /\ i \in 1..MaxChunks
      /\ Tail(s) \in Seq(1..MaxChunks) /\ Len(Tail(s)) = Len(s) - 1
      /\ Counts(Tail(s), n + 1)
  BY <1>b, CountsOn
<1>10. Amount(conn[c], got[c]) = 2 * i /\ i \in 0..MaxChunks
  BY <1>9, <1>a, <1>b, <1>c, ConnectionAssumption
<1>11. max \in Sizes
  BY DEF Sizes
<1>12. /\ Holding(k, h, r) /\ Amount(k, h) = 2 * (i + 1)
       /\ k.response = conn[c].response /\ k.hup = conn[c].hup
  BY <1>3, <1>7, <1>9, <1>10, <1>11, TakenIs
<1>13. /\ made' \in [Request -> 0..MaxChunks]
       /\ queue' \in [Request -> Seq(1..MaxChunks)]
       /\ made'[r] = made[r] /\ queue'[r] = Tail(s)
       /\ \A q \in Request \ {r} : made'[q] = made[q] /\ queue'[q] = queue[q]
  BY <1>5, <1>8, <1>c DEF BInv, Typed
<1>14. i = made'[r] - Len(queue'[r]) /\ Counts(queue'[r], i)
  <2>1. i = made[r] - Len(Tail(s)) /\ Len(s) \in Nat
    BY <1>b, <1>c
  <2>2. Counts(Tail(s), i)
    BY <1>c
  <2> QED
    BY <1>13, <2>1, <2>2
<1>15. ~k.hup /\ door[r] = "async"
  BY <1>3, <1>5, <1>12
<1> QED
  BY <1>3, <1>6, <1>7, <1>12, <1>13, <1>14, <1>15, GivesMore

-----------------------------------------------------------------------------
(* recv() that finds the end, or has found it before. *)
LEMMA RecvEndBytes ==
  ASSUME IInv, BInv, NEW c \in Conns, RecvEnd(c)
  PROVE  BInv'
<1>1. Readable(c)
  BY DEF RecvEnd
<1>2. PICK r \in Request : r = conn[c].response
  BY <1>1, Reads
<1>3. /\ Usable(c) /\ asked[c] # <<>> /\ conn[c].outbox = <<>> /\ r = Lead(c)
      /\ r # None /\ Ready(r)
  BY <1>1, <1>2, Reads DEF Readable
<1>4. /\ from[r] = c /\ asked[c] = <<r>> /\ Holding(conn[c], got[c], r)
      /\ Amount(conn[c], got[c]) = 2 * (Read(r) + 1)
  BY <1>2, <1>3, Answering
<1> DEFINE h == [conn[c] EXCEPT !.response = None]
           k == Spent(h)
<1>5. /\ queue[r] = <<>> /\ conn' = [conn EXCEPT ![c] = k]
      /\ eof' = [eof EXCEPT ![c] = TRUE]
      /\ over' = IF door[r] = "sync" THEN over \cup {r} ELSE over
      /\ UNCHANGED <<table, writing, door, queue, done, stopped>>
      /\ UNCHANGED <<clock, flights, pulls, orphans, made, asked, got>>
  BY <1>2 DEF RecvEnd, BInv, Typed
<1>6. /\ k \in Record /\ k.outbox = <<>> /\ k.offset = conn[c].offset
      /\ k.response = None /\ k.hup = TRUE
  <2>1. conn[c] \in Record
    BY <1>3, AtHome
  <2>2. /\ h \in Record /\ h.response = None /\ h.outbox = conn[c].outbox
        /\ h.offset = conn[c].offset
    BY <2>1 DEF Record
  <2> HIDE DEF h
  <2> QED
    BY <1>3, <2>2, SpentIs
<1> HIDE DEF k
<1>7. /\ table[c] = "open" /\ ~Waiting(c)
      /\ \A q \in Request : from[q] = c =>
           q \notin flights /\ q \notin pulls /\ q \notin stopped
  BY <1>3, AtHome
<1>8. door[r] # "none" => r \in over'
  <2>1. CASE door[r] = "sync"
    BY <1>5, <2>1
  <2>2. CASE door[r] = "async"
    <3>1. r \in done
      BY <1>3, <1>5, <2>2 DEF Ready
    <3>2. r \in over \cup stopped
      BY <3>1 DEF IInv, Accounted
    <3> QED
      BY <1>2, <1>4, <1>5, <1>7, <2>2, <3>2
  <2> QED
    BY <2>1, <2>2 DEF BInv, Typed
<1>9. Amount(conn[c], got[c]) = 2 * (made[r] + 1)
  <2>1. made[r] \in Int
    BY ConnectionAssumption DEF BInv, Typed
  <2>2. Len(queue[r]) = 0
    BY <1>5
  <2> QED
    BY <1>4, <2>1, <2>2 DEF Read
<1>10. Len(got[c]) = 2 * (made[r] + 1) /\ Amount(k, got[c]) = 2 * (made[r] + 1)
  <2>1. Left(conn[c]) = 0 /\ Left(k) = 0
    BY <1>3, <1>6 DEF Left
  <2>2. Len(got[c]) \in Nat
    BY DEF BInv, Typed
  <2> QED
    BY <1>9, <2>1, <2>2 DEF Amount
<1>11. Typed'
  <2>1. conn' \in [Conns -> Record] /\ eof' \in [Conns -> BOOLEAN]
        /\ over' \subseteq Request
    BY <1>5, <1>6 DEF BInv, Typed
  <2> QED
    BY <1>5, <2>1 DEF BInv, Typed, writing
<1>12. Only(c)
  BY <1>4, <1>5 DEF Only, writing, BInv, Typed
<1>13. conn'[c] = k /\ asked'[c] = <<r>> /\ got'[c] = got[c]
  BY <1>4, <1>5 DEF BInv, Typed
<1>14. Given(c)'
  BY <1>4, <1>13 DEF Given, Lead, Holding
<1>15. Going(c)'
  <2>1. Handed(c)' = 2 * (made'[r] + 1)
    BY <1>5, <1>10, <1>13 DEF Handed, Amount, Left
  <2>2. Follows(conn[c], got[c], r)'
    <3>1. conn[c].offset = 0
      BY <1>3, <1>4 DEF Holding, Follows, InHand
    <3> QED
      BY <1>6, <1>13, <3>1 DEF Follows, InHand
  <2> QED
    BY <1>5, <1>6, <1>8, <1>13, <2>1, <2>2 DEF Going, Lead
<1>16. Ended(c)'
  BY <1>5, <1>6, <1>7, <1>8, <1>10, <1>13 DEF Ended, Lead, Waiting, writing
<1>17. ASSUME NEW q \in Request, from[q] = c
       PROVE  Opened(q)'
  <2>1. Opened(q) /\ from' = from /\ sent' = sent
    BY <1>5 DEF BInv, writing
  <2> QED
    BY <1>5, <1>7, <1>17, <2>1 DEF Opened
<1> QED
  BY <1>11, <1>12, <1>14, <1>15, <1>16, <1>17, Here

(* recv() after the hangup. *)
LEMMA RecvHupBytes ==
  ASSUME IInv, BInv, NEW c \in Conns, RecvHup(c)
  PROVE  BInv'
<1>1. /\ Usable(c) /\ conn[c].hup /\ conn[c].outbox = <<>>
      /\ eof' = [eof EXCEPT ![c] = TRUE]
      /\ UNCHANGED <<table, conn, writing, network, asked, got>>
  BY DEF RecvHup
<1>2. /\ table[c] = "open" /\ ~Waiting(c) /\ Given(c) /\ Going(c)
  BY <1>1, AtHome
<1>3. asked[c] # <<>>
  BY <1>1, <1>2 DEF Given
<1>4. Typed'
  BY <1>1 DEF BInv, Typed, writing, network
<1>5. Only(c)
  BY <1>1 DEF Only, writing, network, BInv, Typed
<1>6. Given(c)' /\ Going(c)'
  <2>1. Given(c)'
    BY <1>1, <1>2, <1>3 DEF Given, Lead
  <2>2. Going(c)'
    BY <1>1, <1>2 DEF Going, Follows, InHand, Fits, Handed, Amount, Left, Lead,
                       Read, Counts, network
  <2> QED
    BY <2>1, <2>2
<1>7. Ended(c)'
  <2>1. Left(conn[c]) = 0 /\ Len(got[c]) \in Nat
    BY <1>1 DEF Left, BInv, Typed
  <2>2. Len(got[c]) = Handed(c)
    BY <2>1 DEF Handed, Amount
  <2> QED
    BY <1>1, <1>2, <1>3, <2>2 DEF Ended, Going, Lead, Waiting, writing, network
<1>8. ASSUME NEW q \in Request
      PROVE  Opened(q)'
  BY <1>1 DEF Opened, BInv, writing, network
<1> QED
  BY <1>4, <1>5, <1>6, <1>7, <1>8, Here

-----------------------------------------------------------------------------
(* What an await comes to: a chunk, *)
LEMMA PullChunkBytes ==
  ASSUME IInv, BInv, NEW r \in Request, PullChunk(r)
  PROVE  BInv'
<1> PICK c \in Conns : c = from[r]
  BY DEF BInv, Typed
<1> DEFINE m == made[r] + 1
<1>1. /\ r \in pulls /\ made[r] < MaxChunks /\ pulls' = pulls \ {r}
      /\ clock' = [clock EXCEPT ![r] = "set"]
      /\ queue' = [queue EXCEPT ![r] = Append(queue[r], m)]
      /\ made' = [made EXCEPT ![r] = m]
      /\ UNCHANGED <<table, conn, writing, door, done, stopped>>
      /\ UNCHANGED <<flights, orphans, over, asked, got, eof>>
  BY DEF PullChunk, Armed, BInv, Typed
<1>2. /\ door[r] = "async" /\ asked[c] = <<r>> /\ Given(c) /\ Going(c) /\ Ended(c)
      /\ Waiting(c) /\ ~conn[c].hup /\ ~eof[c]
  <2>1. Waiting(c)
    BY <1>1 DEF Waiting
  <2>2. door[r] = "async" /\ asked[c] = <<r>> /\ Given(c) /\ Going(c) /\ Ended(c)
    BY <1>1 DEF BInv, Opened
  <2>3. ~conn[c].hup /\ ~eof[c]
    BY <2>1, <2>2 DEF IInv, HangupFinal, Ended
  <2> QED
    BY <2>1, <2>2, <2>3
<1>3. PICK s : s = queue[r]
  OBVIOUS
<1>4. PICK n : n = Read(r)
  OBVIOUS
<1>5. /\ s \in Seq(1..MaxChunks) /\ n \in Int /\ n = made[r] - Len(s)
      /\ made[r] \in Int /\ m \in 1..MaxChunks /\ m \in 0..MaxChunks
  <2>1. s \in Seq(1..MaxChunks) /\ made[r] \in 0..MaxChunks
    BY <1>3 DEF BInv, Typed
  <2>2. Len(s) \in Nat
    BY <2>1
  <2> QED
    BY <1>1, <1>3, <1>4, <2>1, <2>2, ConnectionAssumption DEF Read
<1> HIDE DEF m
<1>6. /\ Append(s, m) \in Seq(1..MaxChunks) /\ Len(Append(s, m)) = Len(s) + 1
      /\ queue'[r] = Append(s, m) /\ made'[r] = m
  BY <1>1, <1>3, <1>5 DEF BInv, Typed
<1>7. m = made[r] + 1
  BY DEF m
<1>8. Read(r)' = n
  <2>1. Read(r)' = made'[r] - Len(queue'[r])
    BY DEF Read
  <2>2. Len(s) \in Nat
    BY <1>5
  <2> QED
    BY <1>5, <1>6, <1>7, <2>1, <2>2
<1>9. Counts(s, n) => Counts(Append(s, m), n)
  <2> SUFFICES ASSUME Counts(s, n), NEW j \in 1..Len(Append(s, m))
               PROVE  Append(s, m)[j] = n + j
    BY DEF Counts
  <2>1. Len(s) \in Nat /\ Append(s, m)[Len(s) + 1] = m
        /\ \A k \in 1..Len(s) : Append(s, m)[k] = s[k]
    BY <1>5
  <2>2. CASE j \in 1..Len(s)
    BY <2>1, <2>2 DEF Counts
  <2>3. CASE j = Len(s) + 1
    BY <1>5, <1>7, <2>1, <2>3
  <2> QED
    BY <1>6, <2>1, <2>2, <2>3
<1>10. Typed'
  <2>1. /\ queue' \in [Request -> Seq(1..MaxChunks)]
        /\ made' \in [Request -> 0..MaxChunks]
    BY <1>1, <1>3, <1>5, <1>6 DEF BInv, Typed
  <2>2. clock' \in [Request -> Clock] /\ pulls' \subseteq Request
    BY <1>1 DEF BInv, Typed, Clock
  <2> QED
    BY <1>1, <2>1, <2>2 DEF BInv, Typed, writing
<1>11. Only(c)
  BY <1>1 DEF Only, writing, BInv, Typed
<1>12. Given(c)'
  BY <1>1, <1>2 DEF Given, Lead
<1>13. Going(c)'
  <2>1. Lead(c) = r /\ Lead(c)' = r
    BY <1>1, <1>2 DEF Lead
  <2>2. Handed(c)' = Handed(c)
    BY <1>1 DEF Handed, Amount, Left
  <2>3. Follows(conn[c], got[c], r) => Follows(conn[c], got[c], r)'
    BY <1>1 DEF Follows, InHand, Fits
  <2>4. Counts(queue[r], Read(r)) => Counts(queue[r], Read(r))'
    <3>1. Counts(queue'[r], n) => Counts(queue[r], Read(r))'
      BY <1>8 DEF Counts
    <3> QED
      BY <1>3, <1>4, <1>6, <1>9, <3>1
  <2>5. Read(r)' = Read(r)
    BY <1>4, <1>8
  <2> QED
    BY <1>1, <1>2, <2>1, <2>2, <2>3, <2>4, <2>5 DEF Going
<1>14. Ended(c)'
  BY <1>1, <1>2 DEF Ended
<1>15. ASSUME NEW q \in Request, from[q] = c
       PROVE  Opened(q)'
  <2>1. Opened(q) /\ from' = from /\ sent' = sent
    BY <1>1 DEF BInv, writing
  <2>2. CASE q = r
    <3>1. door'[r] = "async" /\ r \notin flights'
      BY <1>1, <1>2 DEF IInv, Alone
    <3> QED
      BY <1>1, <2>1, <2>2, <3>1 DEF Opened
  <2>3. CASE q # r
    <3>1. made'[q] = made[q] /\ queue'[q] = queue[q]
      BY <1>1, <2>3 DEF BInv, Typed
    <3> QED
      BY <1>1, <2>1, <3>1 DEF Opened
  <2> QED
    BY <2>2, <2>3
<1> QED
  BY <1>10, <1>11, <1>12, <1>13, <1>14, <1>15, Here

(* or the head, with what is buffered behind it, or a failure. *)
LEMMA FetchSettlesBytes ==
  ASSUME IInv, BInv, NEW r \in Request, NEW outcome \in Outcomes,
         NEW held \in 0..MaxChunks, NEW whole \in BOOLEAN,
         FetchSettles(r, outcome, held, whole)
  PROVE  BInv'
<1> PICK c \in Conns : c = from[r]
  BY DEF BInv, Typed
<1> DEFINE k == conn[c]
           d == Delivered(k, r, outcome)
           buffered == [i \in 1..held |-> i]
<1>1. /\ r \in flights /\ flights' = flights \ {r}
      /\ conn' = [conn EXCEPT ![c] = d]
      /\ UNCHANGED <<table, writing, stopped, pulls, orphans, asked>>
      /\ UNCHANGED <<got, eof>>
  BY DEF FetchSettles
<1>2. /\ Opens(r, outcome) =>
           /\ door' = [door EXCEPT ![r] = "async"]
           /\ queue' = [queue EXCEPT ![r] = buffered]
           /\ made' = [made EXCEPT ![r] = held]
      /\ ~Opens(r, outcome) => UNCHANGED <<door, queue, made>>
      /\ over' = over \/ over' = over \cup {r}
      /\ done' = done \/ done' = done \cup {r}
      /\ clock' = clock \/ Disarmed(r)
  BY DEF FetchSettles, SettledClock
<1>3. /\ door[r] = "none" /\ asked[c] = <<r>> /\ got[c] = <<>> /\ made[r] = 0
      /\ queue[r] = <<>> /\ k.outbox = <<>> /\ k.offset = 0 /\ k \in Record
      /\ Waiting(c) /\ Given(c) /\ Going(c) /\ Ended(c)
  BY <1>1 DEF BInv, Typed, Opened, Waiting
<1>4. k.response = None /\ k.hup = FALSE /\ ~eof[c]
  BY <1>1, <1>3 DEF IInv, Alone, HangupFinal, Record, Ended
<1>5. d \in Record /\ Starts(d, r, outcome)
  <2>1. Bare(k)
    BY <1>3, <1>4 DEF Bare
  <2>2. d \in Record /\ Answered(d, k, r, outcome)
    BY <1>3, DeliveredIs
  <2> HIDE DEF d, k
  <2> QED
    BY <2>1, <2>2, FirstPiece
<1> HIDE DEF d, k
<1>6. /\ buffered \in Seq(1..MaxChunks) /\ Len(buffered) = held /\ held \in Int
      /\ Counts(buffered, 0)
  <2>1. held \in Nat
    BY ConnectionAssumption
  <2>2. \A i \in 1..held : i \in 1..MaxChunks /\ buffered[i] = 0 + i
    BY <2>1, ConnectionAssumption
  <2>3. buffered \in Seq(1..MaxChunks) /\ Len(buffered) = held
    BY <2>1, <2>2
  <2> QED
    BY <2>1, <2>2, <2>3 DEF Counts
<1> HIDE DEF buffered
<1>7. Typed'
  <2>1. conn' \in [Conns -> Record] /\ flights' \subseteq Request
    BY <1>1, <1>5 DEF BInv, Typed
  <2>2. /\ door' \in [Request -> {"none", "sync", "async"}]
        /\ queue' \in [Request -> Seq(1..MaxChunks)]
        /\ made' \in [Request -> 0..MaxChunks]
    <3>1. CASE Opens(r, outcome)
      <4>1. queue' \in [Request -> Seq(1..MaxChunks)]
        BY <1>2, <1>6, <3>1 DEF BInv, Typed
      <4>2. door' \in [Request -> {"none", "sync", "async"}]
        BY <1>2, <3>1 DEF BInv, Typed
      <4>3. made' \in [Request -> 0..MaxChunks]
        BY <1>2, <3>1 DEF BInv, Typed
      <4> QED
        BY <4>1, <4>2, <4>3
    <3>2. CASE ~Opens(r, outcome)
      BY <1>2, <3>2 DEF BInv, Typed
    <3> QED
      BY <3>1, <3>2
  <2>3. over' \subseteq Request /\ done' \subseteq Request /\ stopped' \subseteq done'
    BY <1>1, <1>2 DEF BInv, Typed
  <2>4. clock' \in [Request -> Clock]
    <3>1. clock \in [Request -> Clock]
      BY DEF BInv, Typed
    <3>2. CASE Disarmed(r)
      BY <3>1, <3>2 DEF Clock, Disarmed
    <3> QED
      BY <1>2, <3>1, <3>2
  <2> QED
    BY <1>1, <2>1, <2>2, <2>3, <2>4 DEF BInv, Typed, writing
<1>8. \A q \in Request \ {r} :
        made'[q] = made[q] /\ queue'[q] = queue[q] /\ door'[q] = door[q]
  BY <1>2 DEF BInv, Typed
<1>9. Only(c)
  BY <1>1, <1>2, <1>8 DEF Only, writing, BInv, Typed
<1>10. conn'[c] = d /\ asked'[c] = <<r>> /\ got'[c] = <<>>
  BY <1>1, <1>3 DEF BInv, Typed
<1>11. Given(c)'
  BY <1>10 DEF Given, Lead, Runs
<1>12. Going(c)'
  <2>1. d.response # None \/ d.hup => Handed(c)' = 2
    <3>1. d.response # None \/ d.hup => Left(d) = 2
      <4>1. Opens(r, outcome) => outcome \notin Failing
        BY DEF Opens, Failing
      <4> QED
        BY <1>5, <4>1 DEF Starts
    <3>2. Handed(c)' = Len(<<>>) + Left(d)
      BY <1>10 DEF Handed, Amount, Left
    <3> QED
      BY <3>1, <3>2
  <2>2. ASSUME d.response # None
        PROVE  /\ d.response = r /\ door'[r] # "none"
               /\ Handed(c)' = 2 * (Read(r)' + 1)
               /\ Counts(queue[r], Read(r))'
    <3>1. Opens(r, outcome) /\ d.response = r
      BY <1>5, <2>2 DEF Starts
    <3>2. door'[r] = "async" /\ queue'[r] = buffered /\ made'[r] = held
      BY <1>2, <3>1 DEF BInv, Typed
    <3>3. Read(r)' = 0
      <4>1. Read(r)' = made'[r] - Len(queue'[r])
        BY DEF Read
      <4> QED
        BY <1>6, <3>2, <4>1
    <3>4. Counts(queue[r], Read(r))'
      BY <1>6, <3>2, <3>3 DEF Counts
    <3> QED
      BY <2>1, <2>2, <3>1, <3>2, <3>3, <3>4
  <2>3. ASSUME d.hup
        PROVE  Handed(c)' = 2 * (made'[r] + 1) /\ door'[r] = "none"
    <3>1. ~Opens(r, outcome)
      BY <1>5, <2>3 DEF Starts
    <3> QED
      BY <1>2, <1>3, <2>1, <2>3, <3>1
  <2>4. Follows(conn[c], got[c], r)'
    BY <1>5, <1>10 DEF Starts, Follows, InHand, Fits
  <2> QED
    BY <1>10, <2>2, <2>3, <2>4 DEF Going, Lead
<1>13. Ended(c)'
  BY <1>1, <1>4 DEF Ended
<1>14. ASSUME NEW q \in Request, from[q] = c
       PROVE  Opened(q)'
  <2>1. Opened(q) /\ from' = from /\ sent' = sent
    BY <1>1 DEF BInv, writing
  <2>2. q \notin flights' /\ q \notin pulls'
    BY <1>1, <1>14 DEF IInv, Alone
  <2>3. q = r => /\ door'[r] \in {"none", "async"}
                 /\ door'[r] = "none" => made'[r] = 0 /\ queue'[r] = <<>>
    BY <1>2, <1>3 DEF BInv, Typed
  <2> QED
    BY <1>1, <1>3, <1>8, <1>10, <2>1, <2>2, <2>3 DEF Opened
<1> QED
  BY <1>7, <1>9, <1>11, <1>12, <1>13, <1>14, Here

-----------------------------------------------------------------------------
(* close(), with a wait under way or without. *)
LEMMA CloseBytes ==
  ASSUME IInv, BInv, NEW c \in Conns, Close(c)
  PROVE  BInv'
<1> DEFINE r == conn[c].response
<1>1. /\ table[c] = "open" /\ table' = [table EXCEPT ![c] = "closed"]
      /\ conn' = IF Waiting(c) THEN conn ELSE [conn EXCEPT ![c] = Fresh]
      /\ orphans' = orphans \cup {q \in flights : from[q] = c}
      /\ UNCHANGED <<writing, door, flights, pulls, made, asked, got, eof>>
  BY DEF Close
<1>2. /\ over \subseteq over' /\ over' \subseteq over \cup {r}
      /\ stopped' = stopped \/ (stopped' = stopped \cup {r} /\ r # None)
      /\ queue' = queue \/ queue' = [queue EXCEPT ![r] = <<>>]
      /\ clock' = clock \/ Disarmed(r)
      /\ r = None => over' = over
      /\ \/ stopped' = stopped /\ done' = done
         \/ r # None /\ stopped' = stopped \cup {r} /\ done' = done \cup {r}
  BY DEF Close, Stopped
<1>3. r # None => r \in Request /\ r <= sent /\ from[r] = c
  BY DEF IInv, Ranges, RecordOk, Own, Written
<1>4. Fresh \in Record
  BY DEF Fresh, Record
<1>5. Given(c) /\ Ended(c)
  BY DEF BInv
<1> HIDE DEF r
<1>6. Typed'
  <2>1. /\ table' \in [Conns -> {"new", "open", "closed"}]
        /\ conn' \in [Conns -> Record]
    BY <1>1, <1>4 DEF BInv, Typed
  <2>2. /\ over' \subseteq Request /\ done' \subseteq Request
        /\ stopped' \subseteq done' /\ orphans' \subseteq Request
    <3>1. /\ over \subseteq Request /\ done \subseteq Request
          /\ stopped \subseteq done /\ flights \subseteq Request
          /\ orphans \subseteq Request
      BY DEF BInv, Typed
    <3>2. CASE r # None
      BY <1>1, <1>2, <1>3, <3>1, <3>2
    <3>3. CASE r = None
      BY <1>1, <1>2, <3>1, <3>3
    <3> QED
      BY <3>2, <3>3
  <2>3. queue' \in [Request -> Seq(1..MaxChunks)]
    <3>1. queue \in [Request -> Seq(1..MaxChunks)] /\ <<>> \in Seq(1..MaxChunks)
      BY DEF BInv, Typed
    <3>2. CASE queue' = [queue EXCEPT ![r] = <<>>]
      BY <3>1, <3>2
    <3> QED
      BY <1>2, <3>1, <3>2
  <2>4. clock' \in [Request -> Clock]
    <3>1. clock \in [Request -> Clock]
      BY DEF BInv, Typed
    <3>2. CASE Disarmed(r)
      BY <3>1, <3>2 DEF Clock, Disarmed
    <3> QED
      BY <1>2, <3>1, <3>2
  <2> QED
    BY <1>1, <2>1, <2>2, <2>3, <2>4 DEF BInv, Typed, writing
<1>7. \A q \in Request : from[q] # c =>
        queue'[q] = queue[q] /\ (q \in stopped' => q \in stopped)
  <2> SUFFICES ASSUME NEW q \in Request, from[q] # c
               PROVE  queue'[q] = queue[q] /\ (q \in stopped' => q \in stopped)
    OBVIOUS
  <2>1. q # r
    BY <1>3 DEF Request, None
  <2> QED
    BY <1>2, <2>1 DEF BInv, Typed
<1>8. Only(c)
  BY <1>1, <1>2, <1>7 DEF Only, writing, BInv, Typed
<1>9. table'[c] = "closed"
  BY <1>1 DEF BInv, Typed
<1>10. Given(c)'
  BY <1>1, <1>5, <1>9 DEF Given, Lead
<1>11. Going(c)'
  BY <1>9 DEF Going
<1>12. Ended(c)'
  BY <1>1, <1>2, <1>5, <1>9 DEF Ended, Lead, Waiting, writing
<1>13. ASSUME NEW q \in Request, from[q] = c
       PROVE  Opened(q)'
  <2>1. Opened(q) /\ from' = from /\ sent' = sent
    BY <1>1 DEF BInv, writing
  <2>2. queue'[q] = queue[q] \/ queue'[q] = <<>>
    BY <1>2 DEF BInv, Typed
  <2>3. q \in flights => conn' = conn
    BY <1>1, <1>13 DEF Waiting
  <2>4. q \in stopped' => q <= sent
    BY <1>2, <1>3, <2>1 DEF Opened
  <2> QED
    BY <1>1, <1>9, <1>13, <2>1, <2>2, <2>3, <2>4 DEF Opened
<1> QED
  BY <1>6, <1>8, <1>10, <1>11, <1>12, <1>13, Here

(* send(): requests behind those there are. *)
LEMMA SendBytes ==
  ASSUME IInv, BInv, NEW c \in Conns, NEW ms \in Writes, NEW bad \in BOOLEAN,
         Send(c, ms, bad)
  PROVE  BInv'
<1> DEFINE ids == [i \in 1..Len(ms) |-> sent + i]
           p == conn[c].pending \o ids
           k == [conn[c] EXCEPT !.pending = p, !.error = bad]
<1>1. /\ sent + Len(ms) <= Requests
      /\ conn' = [conn EXCEPT ![c] = k] /\ sent' = sent + Len(ms)
      /\ from' = [q \in Request |-> IF q \in sent + 1..sent + Len(ms) THEN c
                                    ELSE from[q]]
      /\ method' = [q \in Request |->
                      IF q \in sent + 1..sent + Len(ms) THEN ms[q - sent]
                      ELSE method[q]]
      /\ UNCHANGED <<table, network, asked, got, eof>>
  BY DEF Send, BInv, Typed
<1>2. /\ Len(ms) \in Nat /\ sent \in Nat
      /\ \A i \in 1..Len(ms) : ms[i] \in {"GET", "HEAD", "POST"}
  <2>1. Len(ms) \in Nat /\ \A i \in 1..Len(ms) : ms[i] \in {"GET", "HEAD", "POST"}
    BY ConnectionAssumption DEF Writes
  <2>2. sent \in Nat
    BY ConnectionAssumption DEF BInv, Typed
  <2> QED
    BY <2>1, <2>2
<1>3. /\ sent' \in 0..Requests /\ from' \in [Request -> Conns]
      /\ method' \in [Request -> {"none", "GET", "HEAD", "POST"}]
      /\ \A q \in Request : q <= sent => from'[q] = from[q] /\ q <= sent'
  <2>1. sent' \in 0..Requests
    BY <1>1, <1>2, ConnectionAssumption
  <2>2. from' \in [Request -> Conns]
    BY <1>1 DEF BInv, Typed
  <2>3. ASSUME NEW q \in Request, q \in sent + 1..sent + Len(ms)
        PROVE  ms[q - sent] \in {"GET", "HEAD", "POST"}
    <3>1. q - sent \in 1..Len(ms)
      BY <1>2, <2>3
    <3> QED
      BY <1>2, <3>1
  <2>4. method' \in [Request -> {"none", "GET", "HEAD", "POST"}]
    BY <1>1, <2>3 DEF BInv, Typed
  <2>5. \A q \in Request : q <= sent => from'[q] = from[q] /\ q <= sent'
    BY <1>1, <1>2, ConnectionAssumption DEF Request
  <2> QED
    BY <2>1, <2>2, <2>4, <2>5
<1>4. p \in Seq(Request)
  <2>1. \A i \in 1..Len(ms) : sent + i \in Request
    BY <1>1, <1>2, ConnectionAssumption DEF Request
  <2>2. ids \in Seq(Request)
    BY <1>2, <2>1
  <2>3. conn[c].pending \in Seq(Request)
    BY DEF BInv, Typed, Record
  <2> HIDE DEF ids
  <2> QED
    BY <2>2, <2>3
<1> HIDE DEF p
<1>5. /\ k \in Record /\ k.outbox = conn[c].outbox /\ k.offset = conn[c].offset
      /\ k.response = conn[c].response /\ k.hup = conn[c].hup
  <2>1. conn[c] \in Record
    BY DEF BInv, Typed
  <2> QED
    BY <1>4, <2>1 DEF Record
<1> HIDE DEF k
<1>6. Typed'
  <2>1. conn' \in [Conns -> Record]
    BY <1>1, <1>5 DEF BInv, Typed
  <2> QED
    BY <1>1, <1>3, <2>1 DEF BInv, Typed, network
<1>7. \A d \in Conns :
        /\ conn'[d].outbox = conn[d].outbox /\ conn'[d].offset = conn[d].offset
        /\ conn'[d].response = conn[d].response /\ conn'[d].hup = conn[d].hup
  BY <1>1, <1>5 DEF BInv, Typed
<1>8. \A q \in flights \cup pulls : q \in Request /\ q <= sent
  BY DEF IInv, Ranges, Own
<1>9. ASSUME NEW d \in Conns
      PROVE  Given(d)' /\ Going(d)' /\ Ended(d)'
  <2>1. Given(d) /\ Going(d) /\ Ended(d)
    BY DEF BInv
  <2>2. Given(d)'
    BY <1>1, <1>7, <2>1 DEF Given, Lead
  <2>3. Handed(d)' = Handed(d)
    BY <1>1, <1>7 DEF Handed, Amount, Left
  <2>4. \A q : Follows(conn[d], got[d], q) => InHand(conn[d], Len(got[d]), q)
    BY DEF Follows
  <2>5. \A n, q : InHand(conn[d], n, q) => InHand(conn'[d], n, q)
    BY <1>7 DEF InHand
  <2>6. \A q : Follows(conn[d], got[d], q) => Follows(conn'[d], got'[d], q)
    BY <1>1, <2>4, <2>5 DEF Follows
  <2>7. Going(d)'
    BY <1>1, <1>7, <2>1, <2>3, <2>6 DEF Going, Lead, Read, network
  <2>8. Waiting(d)' => Waiting(d)
    BY <1>1, <1>3, <1>8 DEF Waiting, network
  <2>9. Ended(d)'
    BY <1>1, <1>7, <2>1, <2>8 DEF Ended, Lead, network
  <2> QED
    BY <2>2, <2>7, <2>9
<1>10. ASSUME NEW q \in Request
       PROVE  Opened(q)'
  <2>1. Opened(q)
    BY DEF BInv
  <2>2. door[q] # "none" => q <= sent
    BY DEF IInv, Own
  <2>3. q \in flights \/ q \in stopped => q <= sent
    BY <1>8, <2>1 DEF Opened
  <2>4. q <= sent => from'[q] = from[q] /\ q <= sent' /\ from[q] \in Conns
    BY <1>3 DEF BInv, Typed
  <2> QED
    BY <1>1, <1>7, <2>1, <2>2, <2>3, <2>4 DEF Opened, network
<1> QED
  BY <1>6, <1>9, <1>10 DEF BInv

-----------------------------------------------------------------------------
(* The invariant holds at first, *)
LEMMA BytesInit == Init => BInv
<1> SUFFICES ASSUME Init PROVE BInv
  OBVIOUS
<1>1. Typed
  <2>1. Fresh \in Record
    BY DEF Fresh, Record
  <2>2. (CHOOSE c \in Conns : TRUE) \in Conns
    BY ConnectionAssumption
  <2>3. 0 \in 0..Requests /\ 0 \in 0..MaxChunks
    BY ConnectionAssumption
  <2> QED
    BY <2>1, <2>2, <2>3 DEF Init, Typed, Clock
<1>2. ASSUME NEW c \in Conns
      PROVE  Given(c) /\ Going(c) /\ Ended(c)
  BY DEF Init, Fresh, Given, Going, Ended
<1>3. ASSUME NEW r \in Request
      PROVE  Opened(r)
  BY DEF Init, Opened
<1> QED
  BY <1>1, <1>2, <1>3 DEF BInv

(* and every step keeps it. *)
LEMMA BytesStep == IInv /\ BInv /\ [Next]_vars => BInv'
<1> SUFFICES ASSUME IInv, BInv, [Next]_vars PROVE BInv'
  OBVIOUS
<1>1. ASSUME UNCHANGED vars PROVE BInv'
  <2>1. Typed'
    BY <1>1 DEF vars, BInv, Typed, writing, network
  <2>2. Silent
    BY <1>1 DEF vars, Silent, writing, network
  <2> QED
    BY <2>1, <2>2, SilentKeeps
<1>2. ASSUME NEW c \in Conns, Connect(c) PROVE BInv'
  BY <1>2, ConnectBytes
<1>3. ASSUME NEW c \in Conns, Close(c) PROVE BInv'
  BY <1>3, CloseBytes
<1>4. ASSUME NEW c \in Conns, NEW ms \in Writes, NEW bad \in BOOLEAN,
             Send(c, ms, bad)
      PROVE  BInv'
  BY <1>4, SendBytes
<1>5. ASSUME NEW c \in Conns, Recv(c) PROVE BInv'
  <2>1. ASSUME NEW max \in 1..2, NEW outcome \in Outcomes,
               RecvOutbox(c, max, outcome)
        PROVE  BInv'
    BY <2>1, RecvFirstBytes, RecvMoreBytes
  <2>2. ASSUME NEW max \in 1..2, RecvBlocking(c, max) PROVE BInv'
    BY <2>2, RecvBlockingBytes
  <2>3. ASSUME NEW max \in 1..2, RecvAwaited(c, max) PROVE BInv'
    BY <2>3, RecvAwaitedBytes
  <2>4. ASSUME NEW outcome \in Outcomes, RecvError(c, outcome) PROVE BInv'
    BY <2>4, RecvErrorBytes
  <2>5. CASE RecvEnd(c) \/ RecvHup(c)
    BY <2>5, RecvEndBytes, RecvHupBytes
  <2> QED
    BY <1>5, <2>1, <2>2, <2>3, <2>4, <2>5 DEF Recv
<1>6. ASSUME NEW c \in Conns, ReadyAsync(c) PROVE BInv'
  BY <1>6, ReadyFetchBytes, ReadyRefusedBytes, ReadyPullBytes DEF ReadyAsync
<1>7. ASSUME NEW r \in Request, Settle(r) PROVE BInv'
  BY <1>7, FetchSettlesBytes, PullChunkBytes, PullEndBytes DEF Settle
<1>8. ASSUME NEW r \in Request, TimerFires(r) PROVE BInv'
  BY <1>8, PullEndBytes
<1> QED
  BY <1>1, <1>2, <1>3, <1>4, <1>5, <1>6, <1>7, <1>8 DEF Next

(* BInv holds along every behaviour, with IInv. *)
THEOREM BytesInvariance == Spec => [](IInv /\ BInv)
<1>1. IInv /\ [Next]_vars => IInv'
  BY IInvInductive
<1>2. Init => IInv
  BY Initially
<1> QED
  BY <1>1, <1>2, BytesInit, BytesStep, PTL DEF Spec

(* The bytes recv() has given on a connection are those of the answer to   *)
(* its one request, from the first byte on, in order and none twice.       *)
THEOREM BytesAreExact == Spec => []BytesExact
<1>1. IInv /\ BInv => BytesExact
  <2> SUFFICES ASSUME BInv, NEW c \in Conns, NEW k \in 1..Len(got[c])
               PROVE  /\ asked[c] # <<>>
                      /\ got[c][k] = [r |-> asked[c][1], i |-> (k - 1) \div 2,
                                      u |-> ((k - 1) % 2) + 1]
    BY DEF BytesExact
  <2>1. Given(c) /\ got[c] \in Seq(Byte)
    BY DEF BInv, Typed
  <2>2. asked[c] # <<>>
    BY <2>1 DEF Given
  <2>3. got[c][k] = At(Lead(c), 0 + k) /\ 0 + k = k
    BY <2>1, <2>2 DEF Given, Runs
  <2> QED
    BY <2>2, <2>3 DEF At, Lead
<1> QED
  BY <1>1, BytesInvariance, PTL

(* When recv() says end of file, all the origin made has been given, and   *)
(* it makes no more.                                                       *)
THEOREM EndIsHonest == Spec => []EofHonest
<1>1. IInv /\ BInv => EofHonest
  BY DEF BInv, Ended, EofHonest, Lead
<1> QED
  BY <1>1, BytesInvariance, PTL

(* Each variable keeps its type. *)
THEOREM TypeCorrect == Spec => []TypeOK
<1>1. IInv /\ BInv => TypeOK
  <2> SUFFICES ASSUME Typed PROVE TypeOK
    BY DEF BInv
  <2>1. ASSUME NEW c \in Conns
        PROVE  /\ \A i \in 1..Len(conn[c].pending) : conn[c].pending[i] \in Request
               /\ \A i \in 1..Len(conn[c].outbox) :
                    \A j \in 1..Len(conn[c].outbox[i]) :
                      conn[c].outbox[i][j] \in Byte
               /\ conn[c].offset \in 0..1
               /\ conn[c].response \in Request \cup {None}
               /\ conn[c].hup \in BOOLEAN /\ conn[c].error \in BOOLEAN
               /\ \A i \in 1..Len(got[c]) : got[c][i] \in Byte
    <3>1. /\ conn[c].pending \in Seq(Request) /\ conn[c].outbox \in Seq(Seq(Byte))
          /\ got[c] \in Seq(Byte)
      BY DEF Typed, Record
    <3>2. \A i \in 1..Len(conn[c].outbox) : conn[c].outbox[i] \in Seq(Byte)
      BY <3>1
    <3> QED
      BY <3>1, <3>2 DEF Typed, Record
  <2> QED
    BY <2>1 DEF Typed, TypeOK
<1> QED
  BY <1>1, BytesInvariance, PTL
=============================================================================
