------------------------------ MODULE Inbound ------------------------------
(***************************************************************************)
(* What a host that delivers requests and a guest that serves them may     *)
(* rely on of one another, with no handle, queue or parser in sight.  A    *)
(* request goes to the server at the address it asks for, or else to the   *)
(* longest serving of those that will do; each server is given its         *)
(* requests in the order they came; the host of each is answered at most   *)
(* once, by the guest that holds it or, whoever holds it, by the end of    *)
(* the server that took it.  Only an exception out of an answer leaves     *)
(* some to wait for nobody.                                                *)
(*                                                                         *)
(* Ports.tla implements this with the listeners and connections of         *)
(* serve.mjs.                                                              *)
(***************************************************************************)
EXTENDS Integers, Sequences

CONSTANTS Requests,   \* bound: requests the host delivers are 1..Requests
          Addresses,  \* what a server may serve at
          Wildcards,  \* those that mean anywhere
          NoAddress,  \* what a request that names none asks for
          Times       \* bound: when a server may begin

Request == 1..Requests
Never == 0

VARIABLES
  since,    \* of each address: when its server began, or Never
  asked,    \* of each request: the address it asks for, once it is taken
  clients,  \* of each address: the requests its server has taken
  stage,    \* of each request: new, waiting, held by the guest, or over
  host      \* of each request: what its host has been told, in order

vars == <<since, asked, clients, stage, host>>

Init ==
  /\ since = [a \in Addresses |-> Never]
  /\ asked = [r \in Request |-> NoAddress]
  /\ clients = [a \in Addresses |-> {}]
  /\ stage = [r \in Request |-> "new"]
  /\ host = [r \in Request |-> <<>>]

Serving == {a \in Addresses : since[a] # Never}

(* One server at an address, and the last to begin is the latest. *)
Listen(a, t) ==
  /\ a \notin Serving /\ \A b \in Serving : since[b] < t
  /\ since' = [since EXCEPT ![a] = t]
  /\ UNCHANGED <<asked, clients, stage, host>>

(* The servers that will do for a request: the one it names, or else any   *)
(* that serve anywhere, or all of them if it names none.                   *)
Suited(wish) ==
  IF wish \in Serving THEN {wish}
  ELSE {a \in Serving : a \in Wildcards \/ wish = NoAddress}

(* Requests come in order, each to the longest serving of those.           *)
Take(r, wish, a) ==
  /\ stage[r] = "new" /\ \A q \in Request : q < r => stage[q] # "new"
  /\ a \in Suited(wish) /\ \A b \in Suited(wish) : since[a] <= since[b]
  /\ asked' = [asked EXCEPT ![r] = wish]
  /\ clients' = [clients EXCEPT ![a] = @ \cup {r}]
  /\ stage' = [stage EXCEPT ![r] = "waiting"]
  /\ UNCHANGED <<since, host>>

(* The guest is given the oldest request its server has waiting. *)
Accept(a, r) ==
  /\ r \in clients[a] /\ stage[r] = "waiting"
  /\ \A q \in clients[a] : stage[q] = "waiting" => r <= q
  /\ stage' = [stage EXCEPT ![r] = "held"]
  /\ UNCHANGED <<since, asked, clients, host>>

(* A host that has heard nothing hears this; the others hear no more.      *)
Tell(S, answer) ==
  host' = [r \in Request |-> IF r \in S /\ host[r] = <<>> THEN <<answer>>
                             ELSE host[r]]

(* The guest answers, and still holds the connection; *)
Respond(r, answer) ==
  /\ stage[r] = "held" /\ host[r] = <<>>
  /\ Tell({r}, answer)
  /\ UNCHANGED <<since, asked, clients, stage>>

(* or it lets go, which is an answer if there was none. *)
Leave(r, answer) ==
  /\ stage[r] = "held"
  /\ Tell({r}, answer)
  /\ stage' = [stage EXCEPT ![r] = "over"]
  /\ UNCHANGED <<since, asked, clients>>

(* A server stops, and the address is free.  What the guest holds it keeps *)
(* but what waits is over.                                                 *)
Cease(a, done) ==
  /\ a \in Serving
  /\ since' = [since EXCEPT ![a] = Never]
  /\ clients' = [clients EXCEPT ![a] = {}]
  /\ stage' = [r \in Request |-> IF r \in done /\ stage[r] = "waiting"
                                   THEN "over" ELSE stage[r]]
  /\ UNCHANGED asked

(* Every host it owes hears of it, *)
Stop(a) == Cease(a, clients[a]) /\ Tell(clients[a], "error")

(* or those up to the first that throws, whose successors wait for nobody. *)
StopThrown(a, t) ==
  /\ t \in clients[a] /\ host[t] = <<>>
  /\ LET before == {r \in clients[a] : r < t} IN
       Cease(a, before) /\ Tell(before \cup {t}, "error")

Next ==
  \/ \E a \in Addresses :
       \/ \E t \in Times : Listen(a, t)
       \/ \E r \in Request :
            \/ \E wish \in Addresses \cup {NoAddress} : Take(r, wish, a)
            \/ Accept(a, r) \/ StopThrown(a, r)
       \/ Stop(a)
  \/ \E r \in Request, answer \in {"response", "error"} :
       Respond(r, answer) \/ Leave(r, answer)

Spec == Init /\ [][Next]_vars
=============================================================================
