---------------------------- MODULE BlockingDoor ----------------------------
(***************************************************************************)
(* What core.mjs may rely on when it calls a backend that blocks, with no  *)
(* second thread in sight: each request it makes is answered once, by a    *)
(* head, a refusal or a redirect of its own, or is reset; a head it keeps  *)
(* is read chunk by chunk, in order, to an end that agrees with the length *)
(* it was told, or is let go.  Whether a call returns is not promised.     *)
(*                                                                         *)
(* A caller that keeps several responses open at once gets less: one of    *)
(* them may give it, after all of its body and as the last thing it gives, *)
(* the answer of a later request that was reset.                           *)
(*                                                                         *)
(* AtomicsDoor.tla implements this with a fetcher's thread, two channels   *)
(* and a flag.                                                             *)
(***************************************************************************)
EXTENDS Naturals, Sequences

CONSTANTS Requests,   \* bound: fetches the guest makes
          MaxChunks,  \* bound: chunks of a response body
          Methods,    \* the methods the guest uses
          Shared      \* whether several responses may be open at once

Ids == 1..Requests
Unknown == MaxChunks + 1      \* contentLength: null

(* What a call gives the guest: a head with a length, a refusal, a         *)
(* redirect, or the n-th chunk of a body.                                  *)
F(x, kind, n) == [x |-> x, kind |-> kind, n |-> n]

VARIABLES
  gone,    \* the backend was closed, or is known to have died
  asked,   \* fetches made
  method,  \* of each request
  resp,    \* of each request: what became of it
  head,    \* of each request: <<>>, or what answered it
  got      \* of each request: what read() gave

vars == <<gone, asked, method, resp, head, got>>

Init == /\ gone = FALSE /\ asked = 0
        /\ method = [x \in Ids |-> "none"] /\ resp = [x \in Ids |-> "none"]
        /\ head = [x \in Ids |-> <<>>] /\ got = [x \in Ids |-> <<>>]

Becomes(x, state) == resp' = [resp EXCEPT ![x] = state]

(* fetch() is called: no other call is under way, as the caller has one    *)
(* thread.                                                                 *)
Fetch(m) ==
  /\ asked < Requests /\ \A x \in Ids : resp[x] # "asking"
  /\ asked' = asked + 1
  /\ method' = [method EXCEPT ![asked + 1] = m]
  /\ Becomes(asked + 1, IF gone THEN "failed" ELSE "asking")
  /\ UNCHANGED <<gone, head, got>>

(* It is answered with a head, whose response a HEAD has no use for. *)
Headed(x, n) ==
  /\ resp[x] = "asking" /\ head[x] = <<>>
  /\ head' = [head EXCEPT ![x] = <<F(x, "head", n)>>]
  /\ Becomes(x, IF method[x] = "HEAD" THEN "dropped" ELSE "open")
  /\ UNCHANGED <<gone, asked, method, got>>

(* Or with a refusal or a redirect, after which it has failed.             *)
Told(x, kind) ==
  /\ resp[x] = "asking" /\ head[x] = <<>>
  /\ head' = [head EXCEPT ![x] = <<F(x, kind, 0)>>]
  /\ UNCHANGED <<gone, asked, method, resp, got>>

Failed(x) == /\ resp[x] = "asking" /\ head[x] # <<>>
             /\ Becomes(x, "failed")
             /\ UNCHANGED <<gone, asked, method, head, got>>

(* Or what it read was no answer: the guest's connection is reset. *)
Reset(x) == /\ resp[x] = "asking" /\ head[x] = <<>>
            /\ Becomes(x, "garbled")
            /\ UNCHANGED <<gone, asked, method, head, got>>

(* The length a response was said to have, when it was. *)
Sized(x) == head[x][1].n # Unknown

(* read() gives the next chunk, never one past the length, *)
Chunk(x) ==
  /\ resp[x] = "open" /\ Len(got[x]) < MaxChunks
  /\ Sized(x) => Len(got[x]) < head[x][1].n
  /\ got' = [got EXCEPT ![x] = Append(@, F(x, "chunk", Len(@) + 1))]
  /\ UNCHANGED <<gone, asked, method, resp, head>>

(* or null at the end, never one short of it, *)
AllRead(x) == Sized(x) /\ ~gone => Len(got[x]) = head[x][1].n

End(x) ==
  /\ resp[x] = "open" /\ AllRead(x)
  /\ Becomes(x, "ended")
  /\ UNCHANGED <<gone, asked, method, head, got>>

(* unless cancel() let go of the response. *)
LetGo(x) == /\ resp[x] = "open"
            /\ Becomes(x, "closed")
            /\ UNCHANGED <<gone, asked, method, head, got>>

(* With other responses open it may give, once, what answered a later      *)
(* request y, which was reset for want of it; null follows, or cancel().   *)
Stray(x, y, kind, n) ==
  /\ Shared /\ resp[x] = "open" /\ AllRead(x)
  /\ y > x /\ resp[y] = "garbled"
  /\ got' = [got EXCEPT ![x] = Append(@, F(y, kind, n))]
  /\ Becomes(x, "spent")
  /\ UNCHANGED <<gone, asked, method, head>>

Spent(x, state) == /\ resp[x] = "spent" /\ Becomes(x, state)
                   /\ UNCHANGED <<gone, asked, method, head, got>>

(* close(), or a fetcher that has ended: every fetch() from here fails. *)
Lose == /\ gone' = TRUE
        /\ UNCHANGED <<asked, method, resp, head, got>>

Next == \/ \E m \in Methods : Fetch(m)
        \/ \E x \in Ids : \/ \E n \in 0..Unknown : Headed(x, n)
                          \/ \E kind \in {"error", "redirect"} : Told(x, kind)
                          \/ Failed(x) \/ Reset(x)
                          \/ Chunk(x) \/ End(x) \/ LetGo(x)
                          \/ \E y \in Ids, n \in 0..Unknown,
                               kind \in {"head", "error", "redirect"} :
                               Stray(x, y, kind, n)
                          \/ \E state \in {"ended", "closed"} : Spent(x, state)
        \/ Lose

Spec == Init /\ [][Next]_vars
=============================================================================
