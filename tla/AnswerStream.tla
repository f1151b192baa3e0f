---------------------------- MODULE AnswerStream ----------------------------
(***************************************************************************)
(* What a guest may rely on of a connection it opened, with no queue, no   *)
(* door and no deadline in sight: whatever it writes, the connection is    *)
(* one stream, the answer to the first request written on it.  Reads give  *)
(* that answer from its first byte, never ahead of its origin; the end of  *)
(* file comes when all of it is given and the origin has no more, and      *)
(* nothing comes after it, or after a close.  Whether it comes is not      *)
(* promised.                                                               *)
(*                                                                         *)
(* Connection.tla implements this with the records of core.mjs and the     *)
(* responses of its two doors.                                             *)
(***************************************************************************)
EXTENDS Integers, Sequences

CONSTANTS Conns,      \* the guest's connections, by handle
          Requests,   \* bound: requests it writes are 1..Requests
          MaxChunks   \* bound: chunks of a response body

Request == 1..Requests

VARIABLES
  table,  \* of each connection: new, open or closed
  sent,   \* requests the guest has written
  from,   \* of each request: the connection it was written on
  asked,  \* of each connection: <<>>, or the request it asked for
  made,   \* of each request: chunks its origin has produced
  over,   \* the requests whose origin has no more to say
  got,    \* of each connection: the bytes given
  eof     \* of each connection: the end of file was given

vars == <<table, sent, from, asked, made, over, got, eof>>

Init ==
  /\ table = [c \in Conns |-> "new"]
  /\ sent = 0 /\ from \in [Request -> Conns]
  /\ asked = [c \in Conns |-> <<>>]
  /\ made = [r \in Request |-> 0] /\ over = {}
  /\ got = [c \in Conns |-> <<>>] /\ eof = [c \in Conns |-> FALSE]

(* The answer to r: a head and then the chunks of a body, of two bytes     *)
(* each.                                                                   *)
At(r, k) == [r |-> r, i |-> (k - 1) \div 2, u |-> ((k - 1) % 2) + 1]
Answer(r, n) == [k \in 1..n |-> At(r, k)]
Available(chunks) == 2 * (chunks + 1)

Asked(c, r) == asked[c] = <<r>>
Earliest(c, r) ==
  /\ r <= sent /\ from[r] = c
  /\ \A q \in Request : q <= sent /\ from[q] = c => r <= q

(* connect() succeeds at once: nothing is asked yet. *)
Connect(c) ==
  /\ table[c] = "new"
  /\ table' = [table EXCEPT ![c] = "open"]
  /\ UNCHANGED <<sent, from, asked, made, over, got, eof>>

(* A write, of any number of requests, before the end has been given. *)
Write(c, n) ==
  /\ table[c] = "open" /\ ~eof[c]
  /\ sent' = sent + n
  /\ from' = [r \in Request |-> IF r \in sent + 1..sent + n THEN c ELSE from[r]]
  /\ UNCHANGED <<table, asked, made, over, got, eof>>

(* The one request that goes out on a connection, *)
Asks(c) ==
  /\ table[c] = "open" /\ asked[c] = <<>>
  /\ \E r \in Request :
       Earliest(c, r) /\ asked' = [asked EXCEPT ![c] = <<r>>]

(* ahead of the read that waits for it, *)
Ask(c) == Asks(c) /\ UNCHANGED <<table, sent, from, made, over, got, eof>>

(* or in the read itself.  A read may be what makes the origin go on; it   *)
(* gives at least a byte, and none the origin has not made.                *)
Read(c, r, chunks, n) ==
  /\ table[c] = "open" /\ ~eof[c]
  /\ Asks(c) \/ UNCHANGED asked
  /\ asked'[c] = <<r>>
  /\ chunks >= made[r] /\ (r \in over => chunks = made[r])
  /\ made' = [made EXCEPT ![r] = chunks]
  /\ n > Len(got[c]) /\ n <= Available(chunks)
  /\ got' = [got EXCEPT ![c] = Answer(r, n)]
  /\ UNCHANGED <<table, sent, from, over, eof>>

(* The origin has no more to say. *)
Ceases(r) == over' = over \cup {r}

(* The origin makes so much, and perhaps ends, whether the connection that *)
(* asked is still open or not.                                             *)
Produce(r, chunks) ==
  /\ Asked(from[r], r) /\ ~eof[from[r]] /\ r \notin over
  /\ chunks >= made[r]
  /\ made' = [made EXCEPT ![r] = chunks]
  /\ Ceases(r) \/ UNCHANGED over
  /\ UNCHANGED <<table, sent, from, asked, got, eof>>

(* A read that gives the end of file.  An answer without a body has no     *)
(* origin left to end.                                                     *)
End(c, r) ==
  /\ table[c] = "open" /\ Asked(c, r)
  /\ Len(got[c]) = Available(made[r])
  /\ Ceases(r) \/ (UNCHANGED over /\ (r \in over \/ made[r] = 0))
  /\ eof' = [eof EXCEPT ![c] = TRUE]
  /\ UNCHANGED <<table, sent, from, asked, made, got>>

(* close(), which may stop the origin. *)
Close(c) ==
  /\ table[c] = "open"
  /\ table' = [table EXCEPT ![c] = "closed"]
  /\ (\E r \in Request : Asked(c, r) /\ Ceases(r)) \/ UNCHANGED over
  /\ UNCHANGED <<sent, from, asked, made, got, eof>>

Next ==
  \/ \E c \in Conns :
       \/ Connect(c) \/ Close(c) \/ Ask(c)
       \/ \E n \in 0..Requests - sent : Write(c, n)
       \/ \E r \in Request :
            \/ End(c, r)
            \/ \E chunks \in 0..MaxChunks : \E n \in 1..Available(chunks) :
                 Read(c, r, chunks, n)
  \/ \E r \in Request, chunks \in 0..MaxChunks : Produce(r, chunks)

Spec == Init /\ [][Next]_vars
=============================================================================
