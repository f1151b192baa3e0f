------------------------ MODULE ConnectionInvariant ------------------------
(***************************************************************************)
(* The inductive invariant of Connection, as conjunctions of named parts.  *)
(* ConnectionProofs proves that every step preserves it and that it        *)
(* implies that a connection has one exchange, that a hangup is final and  *)
(* that no response is left adrift.                                        *)
(***************************************************************************)
EXTENDS Connection

(* The ranges the proofs need: the bytes themselves are left out. *)
RecordOk(k) ==
  k \in [pending : Seq(Request), outbox : {k.outbox}, offset : {k.offset},
         response : Request \cup {None}, hup : BOOLEAN, error : BOOLEAN]

Ranges ==
  /\ table \in [Conns -> {"new", "open", "closed"}]
  /\ conn = [c \in Conns |-> conn[c]] /\ \A c \in Conns : RecordOk(conn[c])
  /\ sent \in 0..Requests
  /\ from \in [Request -> Conns]
  /\ door \in [Request -> {"none", "sync", "async"}]
  /\ flights \subseteq Request /\ pulls \subseteq Request
  /\ asked \in [Conns -> Seq(Request)]

(* What a connection has queued or open, and what it waits for, are        *)
(* requests written on it.                                                 *)
Written(r, c) == r <= sent /\ from[r] = c
Own ==
  /\ \A c \in Conns : \A i \in 1..Len(conn[c].pending) :
       Written(conn[c].pending[i], c)
  /\ \A c \in Conns : conn[c].response # None => Written(conn[c].response, c)
  /\ \A r \in flights \cup pulls : r <= sent
  /\ \A r \in Request : door[r] # "none" => r <= sent

(* A connection waits for one thing at a time, and for a head only while   *)
(* it has no response.                                                     *)
Alone ==
  /\ \A r, q \in flights \cup pulls : from[r] = from[q] => r = q
  /\ flights \cap pulls = {}
  /\ \A r \in flights : conn[from[r]].response = None

(* A connection that has asked is in its exchange or past it.  One that    *)
(* has not, and still can, has its first request at the head of its queue. *)
Begun(c) == \/ \E r \in flights : from[r] = c
            \/ conn[c].response # None \/ conn[c].error \/ conn[c].hup
First(c) ==
  /\ Len(asked[c]) <= 1
  /\ asked[c] # <<>> =>
       /\ Written(asked[c][1], c)
       /\ \A r \in Request : Written(r, c) => asked[c][1] <= r
  /\ asked[c] # <<>> /\ table[c] # "closed" => Begun(c)
  /\ asked[c] = <<>> /\ table[c] # "closed" /\ ~conn[c].error /\ ~conn[c].hup =>
       \A r \in Request : Written(r, c) =>
         conn[c].pending # <<>> /\ Head(conn[c].pending) <= r
Once == \A c \in Conns : First(c)

(* What is known to be over was ended or cancelled, and what is in its     *)
(* flight when its connection goes is an orphan.                           *)
Accounted ==
  /\ done \subseteq over \cup stopped
  /\ \A r \in flights : table[from[r]] # "open" => r \in orphans

IInv == /\ Ranges /\ Own /\ Alone /\ HangupFinal /\ Once
        /\ Accounted /\ NoneAdrift
=============================================================================
