-------------------------- MODULE ConnectionBytes --------------------------
(***************************************************************************)
(* The inductive invariant behind the bytes of Connection: what recv() has *)
(* given, what is in hand and what is still queued are consecutive pieces  *)
(* of one answer.  ConnectionBytesProofs proves BInv, over IInv, and       *)
(* ConnectionStreamProofs SInv, which the refinement needs besides.        *)
(***************************************************************************)
EXTENDS ConnectionInvariant

Record == [pending : Seq(Request), outbox : Seq(Seq(Byte)), offset : 0..1,
           response : Request \cup {None}, hup : BOOLEAN, error : BOOLEAN]

Typed ==
  /\ table \in [Conns -> {"new", "open", "closed"}]
  /\ conn \in [Conns -> Record]
  /\ sent \in 0..Requests /\ from \in [Request -> Conns]
  /\ method \in [Request -> {"none", "GET", "HEAD", "POST"}]
  /\ door \in [Request -> {"none", "sync", "async"}]
  /\ queue \in [Request -> Seq(1..MaxChunks)]
  /\ made \in [Request -> 0..MaxChunks]
  /\ done \subseteq Request /\ stopped \subseteq done /\ over \subseteq Request
  /\ flights \subseteq Request /\ pulls \subseteq Request
  /\ clock \in [Request -> Clock] /\ orphans \subseteq Request
  /\ asked \in [Conns -> Seq(Request)]
  /\ got \in [Conns -> Seq(Byte)] /\ eof \in [Conns -> BOOLEAN]

(* The k-th byte of the answer to r. *)
At(r, k) == [r |-> r, i |-> (k - 1) \div 2, u |-> ((k - 1) % 2) + 1]
Lead(c) == asked[c][1]

(* A sequence of bytes is the answer to r from its n-th byte on, and all   *)
(* but the first o are.                                                    *)
Runs(s, n, r) == \A k \in 1..Len(s) : s[k] = At(r, n + k)
Fits(s, o, n, r) == \A j \in 1..Len(s) - o : s[o + j] = At(r, n + j)

(* What a record has in hand: a piece at most, of which offset bytes are   *)
(* given.                                                                  *)
Left(k) == IF k.outbox = <<>> THEN 0 ELSE Len(Head(k.outbox)) - k.offset
InHand(k, n, r) ==
  \/ k.outbox = <<>> /\ k.offset = 0
  \/ /\ k.outbox = <<Head(k.outbox)>>
     /\ Len(Head(k.outbox)) \in 1..2 /\ k.offset < Len(Head(k.outbox))
     /\ Fits(Head(k.outbox), k.offset, n, r)

(* With g given, the record has in hand what comes next, and so much in    *)
(* all has been handed over.                                               *)
Follows(k, g, r) == InHand(k, Len(g), r)
Amount(k, g) == Len(g) + Left(k)
Handed(c) == Amount(conn[c], got[c])

(* Chunks of r's body read off the awaited response's queue, or off the    *)
(* blocking door.                                                          *)
Read(r) == made[r] - Len(queue[r])
Counts(s, n) == \A i \in 1..Len(s) : s[i] = n + i

(* Given so far: the answer from its first byte. *)
Given(c) ==
  IF asked[c] = <<>>
    THEN /\ got[c] = <<>> /\ ~eof[c]
         /\ table[c] # "closed" =>
              /\ conn[c].outbox = <<>> /\ conn[c].offset = 0
              /\ conn[c].response = None /\ ~conn[c].hup
    ELSE Runs(got[c], 0, Lead(c))

(* On a connection still in the table, what is in hand goes on from there. *)
Going(c) ==
  table[c] # "closed" /\ asked[c] # <<>> =>
    LET r == Lead(c)
        k == conn[c] IN
    /\ Follows(k, got[c], r)
    /\ k.response # None =>
         /\ k.response = r /\ door[r] # "none"
         /\ Handed(c) = 2 * (Read(r) + 1)
         /\ Counts(queue[r], Read(r))
    /\ k.hup => /\ Handed(c) = 2 * (made[r] + 1)
                /\ door[r] # "none" => r \in over

(* The end has been said. *)
Ended(c) ==
  eof[c] =>
    /\ asked[c] # <<>> /\ ~Waiting(c)
    /\ Len(got[c]) = 2 * (made[Lead(c)] + 1)
    /\ door[Lead(c)] # "none" => Lead(c) \in over
    /\ table[c] # "closed" => conn[c].hup /\ conn[c].outbox = <<>>

(* A response is of its connection's one exchange, and starts from nothing. *)
Opened(r) ==
  /\ door[r] # "none" => asked[from[r]] = <<r>>
  /\ door[r] = "none" => made[r] = 0
  /\ door[r] # "async" => queue[r] = <<>>
  /\ r \in flights =>
       /\ door[r] = "none" /\ asked[from[r]] = <<r>> /\ got[from[r]] = <<>>
       /\ conn[from[r]].outbox = <<>> /\ conn[from[r]].offset = 0
  /\ r \in pulls => door[r] = "async"
  /\ r \in stopped => r <= sent /\ table[from[r]] = "closed"

BInv == /\ Typed
        /\ \A c \in Conns : Given(c) /\ Going(c) /\ Ended(c)
        /\ \A r \in Request : Opened(r)

(* A connection that has given or holds a byte is in its response or past  *)
(* it, and an origin still asked has not ended.                            *)
Held(c) ==
  table[c] # "closed" /\ (got[c] # <<>> \/ conn[c].outbox # <<>>) =>
    conn[c].response # None \/ conn[c].hup
Unended(c) ==
  LET r == conn[c].response IN
  table[c] # "closed" /\ r # None /\ door[r] = "sync" => r \notin over
Ending(r) ==
  /\ door[r] = "none" => r \notin over
  /\ door[r] = "async" /\ r \in over => r \in done
  /\ r \in pulls => r \notin over

SInv == /\ \A c \in Conns : Held(c) /\ Unended(c)
        /\ \A r \in Request : Ending(r)
=============================================================================
