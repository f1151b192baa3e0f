------------------------ MODULE AtomicsDoorInvariant ------------------------
(***************************************************************************)
(* The inductive invariants of AtomicsDoor, as conjunctions of named parts. *)
(* Any use of the door keeps IInv, which says whose frame is in the slot   *)
(* even when the guest and the fetcher have lost step, and how much of a   *)
(* foreign answer a guest may then be given.  One with a single response   *)
(* open at a time is given none: Alone.  If it makes no HEAD either, the   *)
(* two threads keep in step: InStep.                                       *)
(***************************************************************************)
EXTENDS AtomicsDoor

(* What is in the slot. *)
Empty == down = <<>>
HasHead == ~Empty /\ IsHead(down[1])
HasChunk == ~Empty /\ down[1].kind = "chunk"
HasEnd == ~Empty /\ down[1].kind = "end"

(* Where handle() is: before its request, before the head of its answer,   *)
(* past that head.                                                         *)
Waiting == {"request", "gone"}
Unled == {"body", "fetch", "discard", "buffer", "refuse", "redirect", "head"}
Led == {"sending", "read", "chunk", "put", "abandon"}

Calling == {"request", "body", "head", "empty"}

(* The guest's thread: what its calls are for, and when CANCEL is up.      *)
Guest ==
  /\ ~joined
  /\ dead => gpc \in {"run", "read", "drain"}
  /\ gpc = "drain" => cancel
  /\ cancel => dead \/ gpc = "drain"
  /\ gpc # "run" => cur \in Ids
  /\ gpc \in Calling => cur = asked /\ resp[cur] = "asking"
  /\ gpc \in {"read", "drain"} => resp[cur] = "open"
  /\ \A x \in Ids : resp[x] = "asking" => gpc \in Calling /\ x = cur
  /\ \A x, y \in Open : x = y

(* The requests: each is taken once, in order, and none before it is sent. *)
Asking ==
  /\ \A x \in Ids : x > asked <=> resp[x] = "none"
  /\ fx <= asked /\ cut \subseteq 1..fx
  /\ gpc \in {"request", "body"} => IF gpc = "body" /\ up = <<>> THEN fx = cur
                                    ELSE fx < cur
  /\ gpc \in {"head", "empty"} => fx = cur
  /\ up # <<>> => IF gpc = "body" THEN /\ up[1].kind = "request" /\ up[1].x = cur
                                       /\ fpc # "body"
                                  ELSE /\ up[1].kind = "body"
                                       /\ fpc \in {"body", "gone"}
  /\ gpc = "body" /\ up = <<>> => fpc \in {"body", "gone"}
  /\ fpc = "body" => up # <<>> \/ gpc = "body"
  /\ fpc \in Unled \cup Led \cup {"end"} => fx \in Ids

(* The fetcher's counters, and the deadline's timer. *)
Counters ==
  /\ sent <= made
  /\ fpc \in Unled \ {"body"} => sent = 0
  /\ fpc \in {"fetch", "buffer", "read"} => ~complete
  /\ fpc \in {"chunk", "put"} => sent < made
  /\ fpc = "read" => sent = made
  /\ fx \in cut => fpc \notin {"body", "fetch", "buffer", "head"} /\ ~complete
  /\ fpc \in Led \cup {"head"} => alarm
  /\ DeadlineCovers

(* The frame in the slot is of the exchange the fetcher is in, unless it   *)
(* is the end of the one before, which nobody has read yet.                *)
Slot ==
  /\ HasHead \/ HasChunk => down[1].x = fx /\ fx \in Ids
  /\ HasHead => /\ sent = 0
                /\ down[1].kind = "head" /\ down[1].n # Unknown =>
                     complete /\ down[1].n = made
                /\ \/ fpc \in {"end", "gone"}
                   \/ down[1].kind = "head" /\ fpc \in Led
  /\ HasChunk => down[1].n = sent /\ fpc \in Led \cup {"end", "gone"}
  /\ HasEnd => \/ fpc \in Waiting \cup Unled
               \/ cancel /\ fpc \in (Led \cup {"end"}) \ {"put"}
  /\ HasHead \/ fpc \in Unled => resp[fx] \in {"asking", "garbled"}

(* A call that awaits its head: the fetcher is about to answer it, has put *)
(* the head, or has not got past the end of the exchange before.           *)
Awaited ==
  /\ gpc = "body" /\ up = <<>> => ~HasHead /\ ~HasChunk
  /\ gpc = "head" => /\ ~HasChunk /\ (HasHead => up = <<>>)
                     /\ fpc \in Led \cup {"end"} => HasHead
                     /\ fpc # "request"
  /\ gpc = "empty" => /\ fpc \in {"end", "request", "gone"}
                      /\ ~HasHead /\ ~HasChunk
                      /\ HasEnd => fpc \in Waiting
                      /\ fpc = "request" => HasEnd
                      /\ up = <<>>

(* A response that is open, and that the fetcher is still answering. *)
Serving(x) ==
  /\ fpc \in Led \cup {"end"} \cup Waiting
  /\ ~HasHead
  /\ gpc # "drain" => sent = Len(got[x]) + (IF HasChunk THEN 1 ELSE 0)
  /\ head[x][1].n # Unknown => complete /\ head[x][1].n = made
  /\ HasEnd => fpc \in Waiting
  /\ fpc = "request" => HasEnd

(* One that it has left behind: its next frame is never a chunk. *)
Left(x) ==
  /\ ~HasChunk
  /\ fpc = "put" => HasHead
  /\ fpc \in Led \cup {"end", "request"} => cancel \/ HasHead
  /\ gpc = "body" /\ up = <<>> => HasEnd
  /\ gpc = "head" => HasEnd
  /\ gpc # "empty"
  /\ ~dead /\ gpc # "drain" /\ head[x][1].n # Unknown =>
       Len(got[x]) = head[x][1].n

Opened ==
  \A x \in Open : /\ head[x] # <<>> /\ head[x][1].kind = "head"
                  /\ IF x = fx THEN Serving(x) ELSE Left(x)

(* The fetcher ends a message that it was not stopped in, and that did not *)
(* fail, only when all there was has gone out.                             *)
Wanted == fx \in Ids /\ (HasHead \/ resp[fx] = "open")
Complete ==
  /\ ~dead /\ gpc # "drain" /\ Wanted => fpc # "abandon"
  /\ ~dead /\ gpc # "drain" /\ Wanted /\ fx \notin cut
       /\ ~(HasHead /\ down[1].kind # "head")
       /\ (fpc \in {"end", "request"} \/ HasEnd) => sent = made
  /\ fx \in Ids /\ resp[fx] \in {"ended", "failed"} => fpc \in Waiting

(* Nothing is kept of a response before its head; one that is open is of a *)
(* request that was taken, and one spent of a request before the last.     *)
Heads == \A x \in Ids :
  /\ resp[x] \in {"none", "asking"} => got[x] = <<>>
  /\ resp[x] \in {"open", "spent", "ended"} => head[x] # <<>>
  /\ resp[x] = "none" => head[x] = <<>>
  /\ resp[x] = "open" => x <= fx
  /\ resp[x] = "spent" => x < fx

(* Whether the last thing read() gave is the answer of another request,    *)
(* and how many of a response's own chunks it gave.                        *)
Final(x) == got[x][Len(got[x])]
Strayed(x) == got[x] # <<>> /\ Final(x).kind # "chunk"
Own(x) == IF Strayed(x) THEN Len(got[x]) - 1 ELSE Len(got[x])

(* A guest is given the head of its own request and the chunks of its own  *)
(* body from the first, in order; then at most the head of one later       *)
(* request, which was reset, and nothing after it.                         *)
AnswersKept ==
  \A x \in Ids :
    /\ head[x] # <<>> => head[x][1].x = x
    /\ \A k \in 1..Own(x) : got[x][k] = F(x, "chunk", k)
    /\ Strayed(x) => /\ resp[x] \in {"spent", "ended", "closed"}
                     /\ IsHead(Final(x)) /\ Final(x).x > x
                     /\ resp[Final(x).x] = "garbled"

(* A length announced is the number of its own chunks a guest was given.   *)
LengthsKept ==
  ~dead => \A x \in Ids :
    resp[x] \in {"spent", "ended"} /\ head[x][1].n # Unknown =>
      Own(x) = head[x][1].n

(* With one response open at a time, an open one is the fetcher's own.     *)
Single == /\ gpc \in Calling => Open = {}
          /\ \A x \in Open : x = fx
          /\ \A x \in Ids : ~Strayed(x)
Alone == OpenLimit = 1 => Single

IInv == /\ TypeOK /\ Guest /\ Asking /\ Counters /\ Slot /\ Awaited
        /\ Opened /\ Complete /\ Heads
        /\ AnswersKept /\ LengthsKept /\ NothingDropped /\ Alone

(* For the contract: a call has its head in hand exactly while it reads    *)
(* the empty body that comes with a refusal or a redirect, which have no   *)
(* length to tell.                                                         *)
Replied == /\ gpc \in Calling \ {"empty"} => head[cur] = <<>>
           /\ gpc = "empty" => head[cur] # <<>>
           /\ ~Empty /\ down[1].kind \in {"error", "redirect"} =>
                down[1].n = 0

(* The guest and the fetcher in step: with no response open and none       *)
(* asked for, or about to be, nothing is on the channels.                  *)
Quiet == /\ up = <<>> /\ Empty /\ ~cancel /\ fpc \in Waiting

InStep ==
  /\ \A x \in Ids : method[x] # "HEAD" /\ resp[x] # "garbled"
  /\ gpc \in Calling => Open = {}
  /\ gpc = "request" \/ (gpc = "run" /\ Open = {} /\ ~dead) => Quiet
  /\ gpc = "body" => Empty /\ (up # <<>> => fpc \in Waiting)
  /\ gpc = "head" => ~HasEnd /\ (fpc \notin {"body", "gone"} => up = <<>>)
  /\ \A x \in Open : x = fx /\ up = <<>> /\ fpc # "body"
=============================================================================
