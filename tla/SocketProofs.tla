---------------------------- MODULE SocketProofs ----------------------------
(***************************************************************************)
(* Machine-checked facts about Socket, for every number of pieces, depth   *)
(* of callbacks and number of events.                                      *)
(***************************************************************************)
EXTENDS SocketInvariant, SequenceTheorems, TLAPS

(* One more frame on the stack, or one more event heard. *)
LEMMA Grown ==
  ASSUME NEW S, NEW s \in Seq(S), NEW e \in S
  PROVE  /\ Append(s, e) \in Seq(S) /\ Len(Append(s, e)) = Len(s) + 1
         /\ Len(s) \in Nat /\ Append(s, e)[Len(s) + 1] = e
         /\ Append(s, e) # <<>>
         /\ \A i \in 1..Len(s) : Append(s, e)[i] = s[i] /\ i \in 1..Len(s) + 1
         /\ \A i \in 1..Len(s) + 1 : i \in 1..Len(s) \/ i = Len(s) + 1
<1> DEFINE t == Append(s, e)
<1>1. t \in Seq(S) /\ Len(t) = Len(s) + 1 /\ Len(s) \in Nat
  OBVIOUS
<1>2. t[Len(s) + 1] = e /\ \A i \in 1..Len(s) : t[i] = s[i]
  OBVIOUS
<1>3. t # <<>>
  BY <1>1
<1>4. /\ \A i \in 1..Len(s) : i \in 1..Len(s) + 1
      /\ \A i \in 1..Len(s) + 1 : i \in 1..Len(s) \/ i = Len(s) + 1
  BY <1>1
<1> QED
  BY <1>1, <1>2, <1>3, <1>4

(* What is below the innermost frame. *)
LEMMA Popped ==
  ASSUME NEW S, NEW s \in Seq(S), s # <<>>
  PROVE  LET b == SubSeq(s, 1, Len(s) - 1) IN
         /\ b \in Seq(S) /\ Len(b) = Len(s) - 1 /\ Len(s) \in Nat
         /\ Len(s) \in 1..Len(s)
         /\ \A i \in 1..Len(b) : b[i] = s[i] /\ i \in 1..Len(s) /\ i # Len(s)
         /\ \A i \in 1..Len(s) : i \in 1..Len(b) \/ i = Len(s)
<1> DEFINE n == Len(s)
           b == SubSeq(s, 1, n - 1)
<1>1. n \in Nat /\ n >= 1
  OBVIOUS
<1>2. b \in Seq(S) /\ Len(b) = n - 1 /\ \A i \in 1..n - 1 : b[i] = s[i]
  <2> DEFINE m == n - 1
  <2>1. m \in Nat /\ \A i \in 1..m : s[i] \in S
    BY <1>1
  <2> HIDE DEF m
  <2>2. /\ SubSeq(s, 1, m) \in Seq(S)
        /\ Len(SubSeq(s, 1, m)) = IF 1 <= m THEN m - 1 + 1 ELSE 0
        /\ \A i \in 1..m - 1 + 1 : SubSeq(s, 1, m)[i] = s[1 + i - 1]
    BY <2>1, SubSeqProperties
  <2>3. /\ (IF 1 <= m THEN m - 1 + 1 ELSE 0) = m
        /\ m - 1 + 1 = m /\ \A i \in 1..m : 1 + i - 1 = i
    BY <2>1
  <2> QED
    BY <2>2, <2>3 DEF m
<1> HIDE DEF n, b
<1>3. /\ n \in 1..n /\ \A i \in 1..n - 1 : i \in 1..n /\ i # n
      /\ \A i \in 1..n : i \in 1..n - 1 \/ i = n
  BY <1>1
<1> QED
  BY <1>1, <1>2, <1>3 DEF n, b

(* Two frames more: what Emit makes of a frame still to run. *)
LEMMA GrownTwice ==
  ASSUME NEW S, NEW s \in Seq(S), NEW e \in S, NEW f \in S
  PROVE  LET t == Append(Append(s, e), f) IN
         /\ t \in Seq(S) /\ Len(t) = Len(s) + 2 /\ Len(s) \in Nat
         /\ t[Len(s) + 1] = e /\ t[Len(s) + 2] = f
         /\ \A i \in 1..Len(s) : t[i] = s[i] /\ i \in 1..Len(s) + 2
         /\ \A i \in 1..Len(s) + 2 :
              i \in 1..Len(s) \/ i = Len(s) + 1 \/ i = Len(s) + 2
         /\ Len(s) + 1 \in 1..Len(s) + 2
<1> DEFINE u == Append(s, e)
           t == Append(u, f)
<1>1. /\ u \in Seq(S) /\ Len(u) = Len(s) + 1 /\ Len(s) \in Nat
      /\ u[Len(s) + 1] = e /\ \A i \in 1..Len(s) : u[i] = s[i]
  BY Grown
<1> HIDE DEF u
<1>2. /\ t \in Seq(S) /\ Len(t) = Len(u) + 1 /\ t[Len(u) + 1] = f
      /\ \A i \in 1..Len(u) : t[i] = u[i]
  BY <1>1, Grown
<1> HIDE DEF t
<1>3. /\ \A i \in 1..Len(s) : i \in 1..Len(s) + 1 /\ i \in 1..Len(s) + 2
      /\ Len(s) + 1 \in 1..Len(s) + 1 /\ Len(s) + 1 \in 1..Len(s) + 2
      /\ Len(s) + 1 + 1 = Len(s) + 2
      /\ \A i \in 1..Len(s) + 2 :
           i \in 1..Len(s) \/ i = Len(s) + 1 \/ i = Len(s) + 2
  BY <1>1
<1> QED
  BY <1>1, <1>2, <1>3 DEF u, t

(* send() and pump() start a drain. *)
LEMMA DrainStarts ==
  ASSUME IInv, stack' = Append(stack, "drain"), nested' = (nested \/ Has("drain")),
         UNCHANGED <<closed, events, thrown>>, pumped' \in BOOLEAN,
         late' \in BOOLEAN, late => late', ~late' => ~closed
  PROVE  IInv'
<1> DEFINE n == Len(stack)
<1>1. /\ stack' \in Seq({"drain", "close", "handler"}) /\ Len(stack') = n + 1
      /\ n \in Nat /\ stack'[n + 1] = "drain" /\ n + 1 \in 1..n + 1
      /\ \A i \in 1..n : stack'[i] = stack[i] /\ i \in 1..n + 1
      /\ \A i \in 1..n + 1 : i \in 1..n \/ i = n + 1
  BY Grown DEF IInv, Ranges
<1> HIDE DEF n
<1>2. \A i \in 1..n : stack[i] = "close" => closed
  BY DEF IInv, Failing, n
<1>3. Has("drain")' /\ (Has("close") => Has("close")')
  BY <1>1 DEF Has, n
<1>4. Ranges'
  BY <1>1 DEF IInv, Ranges, Has
<1>5. Failing'
  BY <1>1, <1>2 DEF Failing
<1>6. Heard'
  BY <1>3 DEF IInv, Heard
<1>7. Plain'
  <2>1. ASSUME ~nested', ~late'
        PROVE  /\ ~closed /\ \A i \in 1..n : stack[i] # "drain"
               /\ \A i \in 1..Len(events) : events[i] # "close"
    BY <2>1 DEF Has, IInv, Heard, n
  <2> QED
    BY <1>1, <2>1 DEF Plain
<1>8. Reading'
  BY <1>3 DEF Reading
<1> QED
  BY <1>4, <1>5, <1>6, <1>7, <1>8 DEF IInv

(* The guest's own call ends the socket: in an error, or a close.          *)
LEMMA CallFails ==
  ASSUME IInv, ~closed, Fail(stack), nested' = (nested \/ Has("drain")),
         UNCHANGED <<pumped, late, thrown>>
  PROVE  IInv'
<1> DEFINE n == Len(stack)
           m == Len(events)
<1>1. /\ stack' \in Seq({"drain", "close", "handler"}) /\ Len(stack') = n + 2
      /\ n \in Nat /\ stack'[n + 1] = "close" /\ stack'[n + 2] = "handler"
      /\ \A i \in 1..n : stack'[i] = stack[i]
      /\ \A i \in 1..n + 2 : i \in 1..n \/ i = n + 1 \/ i = n + 2
      /\ n + 1 \in 1..n + 2
  BY GrownTwice DEF IInv, Ranges, Fail, Emit
<1>2. /\ events' \in Seq({"message", "error", "close"}) /\ Len(events') = m + 1
      /\ m \in Nat /\ events'[m + 1] = "error" /\ events' # <<>>
      /\ \A i \in 1..m : events'[i] = events[i] /\ i \in 1..m + 1
      /\ \A i \in 1..m + 1 : i \in 1..m \/ i = m + 1
  BY Grown DEF IInv, Ranges, Fail, Emit
<1> HIDE DEF n, m
<1>3. closed' = TRUE
  BY DEF Fail
<1>4. /\ \A i \in 1..n : stack[i] # "close"
      /\ \A i \in 1..m : events[i] # "close"
      /\ ~late => \A i \in 1..m : events[i] = "error" =>
           i + 1 \in 1..m /\ events[i + 1] = "close"
  BY DEF IInv, Failing, Heard, Has, n, m
<1>5. Has("close")'
  BY <1>1 DEF Has
<1>6. Ranges'
  BY <1>1, <1>2, <1>3 DEF IInv, Ranges, Has
<1>7. Failing'
  BY <1>1, <1>2, <1>3, <1>4 DEF Failing
<1>8. Heard'
  BY <1>2, <1>3, <1>4, <1>5 DEF Heard
<1>9. Plain'
  <2>1. ASSUME ~nested'
        PROVE  \A i \in 1..n : stack[i] # "drain"
    BY <2>1 DEF Has, n
  <2>2. ~nested' => ~Has("drain")'
    BY <1>1, <2>1 DEF Has
  <2> QED
    BY <1>1, <1>2, <1>4, <2>2 DEF Plain, Has
<1>10. Reading'
  BY <1>3 DEF Reading
<1> QED
  BY <1>6, <1>7, <1>8, <1>9, <1>10 DEF IInv

(* close() ends the socket with no error. *)
LEMMA CloseKeeps ==
  ASSUME IInv, Close
  PROVE  IInv'
<1> DEFINE n == Len(stack)
           m == Len(events)
<1>1. /\ stack' \in Seq({"drain", "close", "handler"}) /\ Len(stack') = n + 1
      /\ n \in Nat /\ stack'[n + 1] = "handler"
      /\ \A i \in 1..n : stack'[i] = stack[i]
      /\ \A i \in 1..n + 1 : i \in 1..n \/ i = n + 1
  BY Grown DEF IInv, Ranges, Close, Hangup, Emit
<1>2. /\ events' \in Seq({"message", "error", "close"}) /\ Len(events') = m + 1
      /\ m \in Nat /\ events'[m + 1] = "close" /\ m + 1 \in 1..m + 1
      /\ \A i \in 1..m : events'[i] = events[i] /\ i \in 1..m + 1
      /\ \A i \in 1..m + 1 : i \in 1..m \/ i = m + 1
  BY Grown DEF IInv, Ranges, Close, Hangup, Emit
<1> HIDE DEF n, m
<1>3. /\ ~closed /\ closed' = TRUE /\ nested' = (nested \/ Has("drain"))
      /\ UNCHANGED <<pumped, late, thrown>>
  BY DEF Close, Calls, Hangup
<1>4. /\ \A i \in 1..n : stack[i] # "close"
      /\ \A i \in 1..m : events[i] # "close"
      /\ ~late => \A i \in 1..m : events[i] = "error" =>
           i + 1 \in 1..m /\ events[i + 1] = "close"
  BY <1>3 DEF IInv, Failing, Heard, Has, n, m
<1>5. Ranges'
  BY <1>1, <1>2, <1>3 DEF IInv, Ranges, Has
<1>6. Failing'
  BY <1>1, <1>4 DEF Failing
<1>7. Heard'
  BY <1>2, <1>3, <1>4 DEF Heard
<1>8. Plain'
  <2>1. ~nested' => ~Has("drain")'
    BY <1>1, <1>3 DEF Has, n
  <2> QED
    BY <1>2, <1>4, <2>1 DEF Plain, Has
<1>9. Reading'
  BY <1>3 DEF Reading
<1> QED
  BY <1>5, <1>6, <1>7, <1>8, <1>9 DEF IInv

(* close() the net throws out of ends it with nothing said. *)
LEMMA CloseThrowsKeeps ==
  ASSUME IInv, CloseThrows
  PROVE  IInv'
<1>1. /\ ~closed /\ closed' = TRUE /\ thrown' = TRUE
      /\ nested' = (nested \/ Has("drain")) /\ stack' \in {stack, <<>>}
      /\ UNCHANGED <<events, pumped, late>>
  BY DEF CloseThrows, Calls
<1>2. /\ ~Has("close")
      /\ \A i \in 1..Len(events) : events[i] # "close"
  BY <1>1 DEF IInv, Failing, Heard, Has
<1>3. /\ \A i \in 1..Len(stack') : stack'[i] # "close"
      /\ ~nested' => \A i \in 1..Len(stack') : stack'[i] # "drain"
  <2>1. CASE stack' = stack
    BY <1>1, <1>2, <2>1 DEF Has
  <2>2. CASE stack' = <<>>
    <3>1. 1..Len(stack') = {}
      BY <2>2
    <3> QED
      BY <3>1
  <2> QED
    BY <1>1, <2>1, <2>2
<1>4. Ranges'
  <2>1. stack' \in Seq({"drain", "close", "handler"})
    <3>1. <<>> \in Seq({"drain", "close", "handler"})
      OBVIOUS
    <3> QED
      BY <1>1, <3>1 DEF IInv, Ranges
  <2> QED
    BY <1>1, <2>1 DEF IInv, Ranges, Has
<1>5. Failing'
  BY <1>3 DEF Failing
<1>6. Heard'
  BY <1>1, <1>2 DEF IInv, Heard
<1>7. Plain'
  BY <1>1, <1>2, <1>3 DEF Plain, Has
<1>8. Reading'
  BY <1>1 DEF Reading
<1> QED
  BY <1>4, <1>5, <1>6, <1>7, <1>8 DEF IInv

(* The innermost frame returns: what is under it, by Popped.               *)
LEMMA Unwound ==
  ASSUME IInv, NEW f, On(f)
  PROVE  /\ Below \in Seq({"drain", "close", "handler"})
         /\ Len(Below) = Len(stack) - 1 /\ Len(stack) \in Nat
         /\ Len(stack) \in 1..Len(stack) /\ stack[Len(stack)] = f
         /\ \A i \in 1..Len(Below) :
              Below[i] = stack[i] /\ i \in 1..Len(stack) /\ i # Len(stack)
         /\ \A i \in 1..Len(stack) : i \in 1..Len(Below) \/ i = Len(stack)
  BY Popped DEF IInv, Ranges, On, Below

(* A handler is done, and what called it goes on. *)
LEMMA HandlerReturnsKeeps ==
  ASSUME IInv, HandlerReturns
  PROVE  IInv'
<1> DEFINE n == Len(stack)
           b == Below
           k == Len(b)
<1>1. /\ b \in Seq({"drain", "close", "handler"}) /\ k = n - 1 /\ n \in Nat
      /\ stack[n] = "handler"
      /\ \A i \in 1..k : b[i] = stack[i] /\ i \in 1..n /\ i # n
      /\ \A i \in 1..n : i \in 1..k \/ i = n
  BY Unwound DEF HandlerReturns
<1>2. /\ stack' = b /\ Len(stack') = k
      /\ UNCHANGED <<closed, ready, fate, events, pumped, nested, late, thrown>>
  BY DEF HandlerReturns, net, past
<1>3. \A i \in 1..n : stack[i] = "close" =>
        closed /\ (~late => /\ i = n \/ i + 1 = n
                          /\ events # <<>> /\ events[Len(events)] = "error")
  BY DEF IInv, Failing
<1> HIDE DEF n, k, b
<1>4. \A f : f # "handler" =>
        ((\E i \in 1..n : stack[i] = f) <=> (\E i \in 1..k : b[i] = f))
  BY <1>1
<1>5. /\ Has("close")' <=> Has("close")
      /\ Has("drain")' <=> Has("drain")
  BY <1>2, <1>4 DEF Has, n
<1>6. Ranges'
  BY <1>1, <1>2 DEF IInv, Ranges
<1>7. Failing'
  <2>1. ASSUME NEW i \in 1..k, b[i] = "close"
        PROVE  closed /\ (~late => /\ i = k
                                 /\ events # <<>>
                                 /\ events[Len(events)] = "error")
    <3>1. i \in 1..n /\ i # n /\ stack[i] = "close"
      BY <1>1, <2>1
    <3>2. closed /\ (~late => i + 1 = n /\ events # <<>>
                               /\ events[Len(events)] = "error")
      BY <1>3, <3>1
    <3>3. i + 1 = n => i = k
      BY <1>1
    <3> QED
      BY <3>2, <3>3
  <2> QED
    BY <1>2, <2>1 DEF Failing
<1>8. Heard'
  BY <1>2, <1>5 DEF IInv, Heard
<1>9. Plain'
  <2>1. ASSUME ~nested, ~late
        PROVE  \A i, j \in 1..k : b[i] = "drain" /\ b[j] = "drain" => i = j
    BY <1>1, <2>1 DEF IInv, Plain, n
  <2> QED
    BY <1>2, <1>5, <2>1 DEF IInv, Plain
<1>10. Reading'
  BY <1>2, <1>5 DEF IInv, Reading
<1> QED
  BY <1>6, <1>7, <1>8, <1>9, <1>10 DEF IInv

(* _fail() comes to its close. *)
LEMMA FailClosesKeeps ==
  ASSUME IInv, FailCloses
  PROVE  IInv'
<1> DEFINE n == Len(stack)
           m == Len(events)
           b == Below
           k == Len(b)
<1>1. /\ b \in Seq({"drain", "close", "handler"}) /\ k = n - 1 /\ n \in Nat
      /\ n \in 1..n /\ stack[n] = "close"
      /\ \A i \in 1..k : b[i] = stack[i] /\ i \in 1..n /\ i # n
  BY Unwound DEF FailCloses
<1>2. /\ stack' \in Seq({"drain", "close", "handler"}) /\ Len(stack') = k + 1
      /\ k \in Nat /\ stack'[k + 1] = "handler"
      /\ \A i \in 1..k : stack'[i] = b[i]
      /\ \A i \in 1..k + 1 : i \in 1..k \/ i = k + 1
  BY <1>1, Grown DEF FailCloses, Emit
<1>3. /\ events' \in Seq({"message", "error", "close"}) /\ Len(events') = m + 1
      /\ m \in Nat /\ events'[m + 1] = "close" /\ m + 1 \in 1..m + 1
      /\ \A i \in 1..m : events'[i] = events[i] /\ i \in 1..m + 1
      /\ \A i \in 1..m + 1 : i \in 1..m \/ i = m + 1
  BY Grown DEF IInv, Ranges, FailCloses, Emit
<1>4. UNCHANGED <<closed, pumped, nested, late, thrown>>
  BY DEF FailCloses, past
<1>5. \A i \in 1..n : stack[i] = "close" =>
        closed /\ (~late => /\ i = n \/ (i + 1 = n /\ stack[n] = "handler")
                          /\ events[m] = "error")
  BY DEF IInv, Failing
<1> HIDE DEF n, m, b, k
<1>6. closed /\ (~late => events[m] = "error")
  BY <1>1, <1>5
<1>7. ~late => \A i \in 1..k : b[i] # "close"
  BY <1>1, <1>5
<1>8. Ranges'
  BY <1>2, <1>3, <1>4 DEF IInv, Ranges
<1>9. Failing'
  BY <1>2, <1>4, <1>6, <1>7 DEF Failing
<1>10. Heard'
  <2>1. ~late => \A i \in 1..m : events[i] = "error" =>
          \/ i + 1 \in 1..m /\ events[i + 1] = "close"
          \/ i = m
    BY DEF IInv, Heard, m
  <2>2. ~late => \A i \in 1..m + 1 : events'[i] = "error" =>
          i + 1 \in 1..m + 1 /\ events'[i + 1] = "close"
    BY <1>3, <2>1
  <2> QED
    BY <1>3, <1>4, <1>6, <2>2 DEF Heard
<1>11. Plain'
  <2>1. ASSUME ~nested, ~late
        PROVE  /\ \A i \in 1..n : stack[i] # "drain"
               /\ \A i \in 1..m : events[i] = "close" => i = m
    BY <1>6, <2>1 DEF IInv, Plain, Has, n, m
  <2>2. ASSUME ~nested, ~late
        PROVE  /\ \A i \in 1..k + 1 : stack'[i] # "drain"
               /\ \A i \in 1..m : events[i] # "close"
    BY <1>1, <1>2, <1>6, <2>1, <2>2
  <2> QED
    BY <1>2, <1>3, <1>4, <2>2 DEF Plain, Has
<1>12. Reading'
  BY <1>4, <1>6 DEF Reading
<1> QED
  BY <1>8, <1>9, <1>10, <1>11, <1>12 DEF IInv

(* What a drain about to read knows of the rest. *)
LEMMA AtDrain ==
  ASSUME IInv, On("drain")
  PROVE  LET b == Below
             n == Len(stack)
             k == Len(b)
             m == Len(events) IN
         /\ b \in Seq({"drain", "close", "handler"}) /\ k \in Nat /\ n = k + 1
         /\ stack[n] = "drain"
         /\ \A i \in 1..k : b[i] = stack[i] /\ i \in 1..n /\ i # n
         /\ \A i \in 1..n : i \in 1..k \/ i = n
         /\ \A i \in 1..k : b[i] = "close" => closed /\ late
         /\ Has("close") => \E i \in 1..k : b[i] = "close"
         /\ ~late => \A i \in 1..m : events[i] = "error" =>
              i + 1 \in 1..m /\ events[i + 1] = "close"
         /\ ~nested /\ ~late =>
              /\ ~closed /\ \A i \in 1..k : b[i] # "drain"
              /\ \A i \in 1..m : events[i] # "close"
<1> DEFINE b == Below
           n == Len(stack)
           k == Len(b)
           m == Len(events)
<1>1. /\ b \in Seq({"drain", "close", "handler"}) /\ k = n - 1 /\ n \in Nat
      /\ n \in 1..n /\ stack[n] = "drain"
      /\ \A i \in 1..k : b[i] = stack[i] /\ i \in 1..n /\ i # n
      /\ \A i \in 1..n : i \in 1..k \/ i = n
  BY Unwound
<1>2. k \in Nat
  BY <1>1
<1>3. \A i \in 1..n : stack[i] = "close" =>
        closed /\ (~late => i = n \/ (i + 1 = n /\ stack[n] = "handler"))
  BY DEF IInv, Failing
<1> HIDE DEF b, n, k
<1>4. /\ \A i \in 1..k : b[i] = "close" => closed /\ late
      /\ \A i \in 1..n : stack[i] = "close" => late /\ i \in 1..k /\ b[i] = "close"
  BY <1>1, <1>3
<1>5. Has("close") => late /\ \E i \in 1..k : b[i] = "close"
  BY <1>4 DEF Has, n
<1>6. ~late => \A i \in 1..m : events[i] = "error" =>
        i + 1 \in 1..m /\ events[i + 1] = "close"
  BY <1>5 DEF IInv, Heard
<1>7. ASSUME ~nested, ~late
      PROVE  /\ ~closed /\ \A i \in 1..k : b[i] # "drain"
             /\ \A i \in 1..m : events[i] # "close"
  <2>1. ~closed /\ \A i, j \in 1..n : stack[i] = "drain" /\ stack[j] = "drain" => i = j
    BY <1>1, <1>7 DEF IInv, Plain, Has, n
  <2> QED
    BY <1>1, <2>1 DEF IInv, Heard
<1>8. n = k + 1
  BY <1>1
<1> QED
  BY <1>1, <1>2, <1>4, <1>5, <1>6, <1>7, <1>8 DEF b, n, k

(* recv() found an end that is an error. *)
LEMMA DrainFails ==
  ASSUME IInv, On("drain"), Fail(Below),
         UNCHANGED <<pumped, nested, late, thrown>>
  PROVE  IInv'
<1> DEFINE b == Below
           k == Len(b)
           m == Len(events)
<1>1. /\ b \in Seq({"drain", "close", "handler"}) /\ k \in Nat
      /\ \A i \in 1..k : b[i] = "close" => late
      /\ ~late => \A i \in 1..m : events[i] = "error" =>
           i + 1 \in 1..m /\ events[i + 1] = "close"
      /\ ~nested /\ ~late => /\ \A i \in 1..k : b[i] # "drain"
                             /\ \A i \in 1..m : events[i] # "close"
  BY AtDrain
<1>2. /\ stack' \in Seq({"drain", "close", "handler"}) /\ Len(stack') = k + 2
      /\ stack'[k + 1] = "close" /\ stack'[k + 2] = "handler"
      /\ \A i \in 1..k : stack'[i] = b[i]
      /\ \A i \in 1..k + 2 : i \in 1..k \/ i = k + 1 \/ i = k + 2
      /\ k + 1 \in 1..k + 2
  BY <1>1, GrownTwice DEF Fail, Emit
<1>3. /\ events' \in Seq({"message", "error", "close"}) /\ Len(events') = m + 1
      /\ m \in Nat /\ events'[m + 1] = "error" /\ events' # <<>>
      /\ \A i \in 1..m : events'[i] = events[i] /\ i \in 1..m + 1
      /\ \A i \in 1..m + 1 : i \in 1..m \/ i = m + 1
  BY Grown DEF IInv, Ranges, Fail, Emit
<1> HIDE DEF b, k, m
<1>4. closed' = TRUE
  BY DEF Fail
<1>5. Has("close")'
  BY <1>2 DEF Has
<1>6. Ranges'
  BY <1>2, <1>3, <1>4 DEF IInv, Ranges
<1>7. Failing'
  BY <1>1, <1>2, <1>3, <1>4 DEF Failing
<1>8. Heard'
  BY <1>1, <1>3, <1>4, <1>5 DEF Heard
<1>9. Plain'
  <2>1. ASSUME ~nested, ~late
        PROVE  \A i \in 1..k + 2 : stack'[i] # "drain"
    BY <1>1, <1>2, <2>1
  <2>2. ASSUME ~nested, ~late
        PROVE  \A i \in 1..m + 1 : events'[i] # "close"
    BY <1>1, <1>3, <2>2
  <2> QED
    BY <1>2, <1>3, <2>1, <2>2 DEF Plain, Has
<1>10. Reading'
  BY <1>4 DEF Reading
<1> QED
  BY <1>6, <1>7, <1>8, <1>9, <1>10 DEF IInv

(* recv() found the end. *)
LEMMA DrainHangsUp ==
  ASSUME IInv, On("drain"), Hangup(Below),
         UNCHANGED <<pumped, nested, late, thrown>>
  PROVE  IInv'
<1> DEFINE b == Below
           k == Len(b)
           m == Len(events)
<1>1. /\ b \in Seq({"drain", "close", "handler"}) /\ k \in Nat
      /\ \A i \in 1..k : b[i] = "close" => late
      /\ ~late => \A i \in 1..m : events[i] = "error" =>
           i + 1 \in 1..m /\ events[i + 1] = "close"
      /\ ~nested /\ ~late => /\ \A i \in 1..k : b[i] # "drain"
                             /\ \A i \in 1..m : events[i] # "close"
  BY AtDrain
<1>2. /\ stack' \in Seq({"drain", "close", "handler"}) /\ Len(stack') = k + 1
      /\ stack'[k + 1] = "handler"
      /\ \A i \in 1..k : stack'[i] = b[i]
      /\ \A i \in 1..k + 1 : i \in 1..k \/ i = k + 1
  BY <1>1, Grown DEF Hangup, Emit
<1>3. /\ events' \in Seq({"message", "error", "close"}) /\ Len(events') = m + 1
      /\ m \in Nat /\ events'[m + 1] = "close" /\ m + 1 \in 1..m + 1
      /\ \A i \in 1..m : events'[i] = events[i] /\ i \in 1..m + 1
      /\ \A i \in 1..m + 1 : i \in 1..m \/ i = m + 1
  BY Grown DEF IInv, Ranges, Hangup, Emit
<1> HIDE DEF b, k, m
<1>4. closed' = TRUE
  BY DEF Hangup
<1>5. Ranges'
  BY <1>2, <1>3, <1>4 DEF IInv, Ranges
<1>6. Failing'
  <2>1. \A i \in 1..k + 1 : stack'[i] = "close" => late
    BY <1>1, <1>2
  <2> QED
    BY <1>2, <1>4, <2>1 DEF Failing
<1>7. Heard'
  <2>1. ~late => \A i \in 1..m + 1 : events'[i] = "error" =>
          i + 1 \in 1..m + 1 /\ events'[i + 1] = "close"
    BY <1>1, <1>3
  <2> QED
    BY <1>3, <1>4, <2>1 DEF Heard
<1>8. Plain'
  <2>1. ASSUME ~nested, ~late
        PROVE  \A i \in 1..k + 1 : stack'[i] # "drain"
    BY <1>1, <1>2, <2>1
  <2>2. ASSUME ~nested, ~late
        PROVE  \A i \in 1..m + 1 : events'[i] = "close" => i = m + 1
    BY <1>1, <1>3, <2>2
  <2> QED
    BY <1>2, <1>3, <2>1, <2>2 DEF Plain, Has
<1>9. Reading'
  BY <1>4 DEF Reading
<1> QED
  BY <1>5, <1>6, <1>7, <1>8, <1>9 DEF IInv

(* recv() gave a piece: its message, and the loop goes on. *)
LEMMA DrainDelivers ==
  ASSUME IInv, On("drain"), Deliver(Below),
         UNCHANGED <<closed, pumped, nested, late, thrown>>
  PROVE  IInv'
<1> DEFINE b == Below
           k == Len(b)
           m == Len(events)
<1>1. /\ b \in Seq({"drain", "close", "handler"}) /\ k \in Nat
      /\ \A i \in 1..k : b[i] = "close" => closed /\ late
      /\ Has("close") => \E i \in 1..k : b[i] = "close"
      /\ ~late => \A i \in 1..m : events[i] = "error" =>
           i + 1 \in 1..m /\ events[i + 1] = "close"
      /\ ~nested /\ ~late => /\ ~closed /\ \A i \in 1..k : b[i] # "drain"
                             /\ \A i \in 1..m : events[i] # "close"
  BY AtDrain
<1>2. /\ stack' \in Seq({"drain", "close", "handler"}) /\ Len(stack') = k + 2
      /\ stack'[k + 1] = "drain" /\ stack'[k + 2] = "handler"
      /\ \A i \in 1..k : stack'[i] = b[i] /\ i \in 1..k + 2
      /\ \A i \in 1..k + 2 : i \in 1..k \/ i = k + 1 \/ i = k + 2
      /\ k + 1 \in 1..k + 2
  BY <1>1, GrownTwice DEF Deliver, Emit
<1>3. /\ events' \in Seq({"message", "error", "close"}) /\ Len(events') = m + 1
      /\ m \in Nat /\ events'[m + 1] = "message"
      /\ \A i \in 1..m : events'[i] = events[i] /\ i \in 1..m + 1
      /\ \A i \in 1..m + 1 : i \in 1..m \/ i = m + 1
  BY Grown DEF IInv, Ranges, Deliver, Emit
<1>4. /\ \A i \in 1..m : events[i] = "close" => closed
      /\ closed => thrown \/ Has("close") \/ \E i \in 1..m : events[i] = "close"
  BY DEF IInv, Heard
<1> HIDE DEF b, k, m
<1>5. Has("drain")' /\ (Has("close") => Has("close")')
  BY <1>1, <1>2 DEF Has
<1>6. Ranges'
  BY <1>2, <1>3 DEF IInv, Ranges
<1>7. Failing'
  <2>1. \A i \in 1..k + 2 : stack'[i] = "close" => closed /\ late
    BY <1>1, <1>2
  <2> QED
    BY <1>2, <2>1 DEF Failing
<1>8. Heard'
  <2>1. ~late => \A i \in 1..m + 1 : events'[i] = "error" =>
          i + 1 \in 1..m + 1 /\ events'[i + 1] = "close"
    BY <1>1, <1>3
  <2>2. /\ \A i \in 1..m + 1 : events'[i] = "close" => closed
        /\ closed => \/ thrown \/ Has("close")
                     \/ \E i \in 1..m + 1 : events'[i] = "close"
    BY <1>3, <1>4
  <2> QED
    BY <1>3, <1>5, <2>1, <2>2 DEF Heard
<1>9. Plain'
  <2>1. ASSUME ~nested, ~late
        PROVE  \A i \in 1..k + 2 : stack'[i] = "drain" => i = k + 1
    BY <1>1, <1>2, <2>1
  <2>2. ASSUME ~nested, ~late
        PROVE  ~closed /\ \A i \in 1..m + 1 : events'[i] # "close"
    BY <1>1, <1>3, <2>2
  <2> QED
    BY <1>2, <1>3, <2>1, <2>2 DEF Plain
<1>10. Reading'
  BY <1>5 DEF Reading
<1> QED
  BY <1>6, <1>7, <1>8, <1>9, <1>10 DEF IInv

(* recv() had nothing more, and the drain is over. *)
LEMMA DrainEmpties ==
  ASSUME IInv, On("drain"), stack' = Below, ready' = 0, fate' = "again",
         UNCHANGED <<closed, events, pumped, nested, late, thrown>>
  PROVE  IInv'
<1> DEFINE b == Below
           k == Len(b)
           m == Len(events)
<1>1. /\ b \in Seq({"drain", "close", "handler"}) /\ k \in Nat
      /\ \A i \in 1..k : b[i] = "close" => closed /\ late
      /\ Has("close") => \E i \in 1..k : b[i] = "close"
      /\ ~late => \A i \in 1..m : events[i] = "error" =>
           i + 1 \in 1..m /\ events[i + 1] = "close"
      /\ ~nested /\ ~late => /\ ~closed /\ \A i \in 1..k : b[i] # "drain"
                             /\ \A i \in 1..m : events[i] # "close"
  BY AtDrain
<1>2. stack' = b /\ Len(stack') = k
  OBVIOUS
<1> HIDE DEF b, k, m
<1>3. Has("close") => Has("close")'
  BY <1>1, <1>2 DEF Has
<1>4. Ranges'
  BY <1>1, <1>2 DEF IInv, Ranges
<1>5. Failing'
  BY <1>1, <1>2 DEF Failing
<1>6. Heard'
  BY <1>1, <1>3 DEF IInv, Heard, m
<1>7. Plain'
  BY <1>1, <1>2 DEF Plain, Has, m
<1>8. Reading'
  BY DEF Reading
<1> QED
  BY <1>4, <1>5, <1>6, <1>7, <1>8 DEF IInv

(* One turn of _drain()'s loop, by what recv() did. *)
LEMMA DrainKeeps ==
  ASSUME NetRanges, IInv, Drain
  PROVE  IInv'
<1>1. /\ On("drain") /\ UNCHANGED <<pumped, nested, late, thrown>>
      /\ fate' = fate /\ ready' = IF live /\ ready > 0 THEN ready - 1 ELSE ready
  BY DEF Drain, past
<1>2. \/ Fail(Below)
      \/ Deliver(Below) /\ UNCHANGED closed
      \/ Hangup(Below)
      \/ /\ live /\ ready = 0 /\ fate = "again"
         /\ stack' = Below /\ UNCHANGED <<closed, events>>
  <2>1. CASE ~live
    BY <2>1 DEF Drain
  <2>2. CASE live /\ ready > 0
    BY <2>2 DEF Drain
  <2>3. CASE live /\ ready = 0 /\ fate = "end"
    BY <2>3 DEF Drain
  <2>4. CASE live /\ ready = 0 /\ fate = "error"
    BY <2>4 DEF Drain
  <2>5. CASE live /\ ready = 0 /\ fate = "again"
    BY <2>5 DEF Drain
  <2> QED
    BY <2>1, <2>2, <2>3, <2>4, <2>5 DEF NetRanges
<1>3. CASE Fail(Below)
  BY <1>1, <1>3, DrainFails
<1>4. CASE Deliver(Below) /\ UNCHANGED closed
  BY <1>1, <1>4, DrainDelivers
<1>5. CASE Hangup(Below)
  BY <1>1, <1>5, DrainHangsUp
<1>6. CASE /\ live /\ ready = 0 /\ fate = "again"
           /\ stack' = Below /\ UNCHANGED <<closed, events>>
  BY <1>1, <1>6, DrainEmpties
<1> QED
  BY <1>2, <1>3, <1>4, <1>5, <1>6

-----------------------------------------------------------------------------
(* Every socket starts in the invariant. *)
LEMMA Initially ==
  ASSUME Init
  PROVE  NetRanges /\ IInv
<1>1. /\ stack = <<>> /\ events = <<>> /\ 1..Len(stack) = {} /\ 1..Len(events) = {}
      /\ closed = FALSE /\ nested = FALSE /\ late = FALSE /\ thrown = FALSE
      /\ pumped \in BOOLEAN
  BY DEF Init
<1>2. Ranges
  <2>1. stack \in Seq({"drain", "close", "handler"})
    BY <1>1
  <2>2. events \in Seq({"message", "error", "close"})
    BY <1>1
  <2> QED
    BY <1>1, <2>1, <2>2 DEF Ranges
<1>3. Failing /\ Heard /\ Plain
  BY <1>1 DEF Failing, Heard, Plain, Has
<1>4. Reading
  BY DEF Init, Reading
<1>5. NetRanges
  BY SocketAssumption DEF Init, NetRanges
<1> QED
  BY <1>2, <1>3, <1>4, <1>5 DEF IInv

(* The pieces to read are counted down to none, and no further. *)
LEMMA NetKeeps ==
  ASSUME NetRanges, [Next]_vars
  PROVE  NetRanges'
<1> USE SocketAssumption DEF NetRanges, net, vars
<1>1. CASE Send
  BY <1>1 DEF Send
<1>2. CASE SendThrows
  BY <1>2 DEF SendThrows
<1>3. CASE Pump \/ CloseThrows \/ FailCloses \/ HandlerReturns \/ UNCHANGED vars
  BY <1>3 DEF Pump, CloseThrows, FailCloses, HandlerReturns
<1>4. CASE Close
  BY <1>4 DEF Close
<1>5. CASE Drain
  <2>1. ready' = (IF live /\ ready > 0 THEN ready - 1 ELSE ready) /\ UNCHANGED <<live, fate>>
    BY <1>5 DEF Drain
  <2> QED
    BY <2>1
<1> QED
  BY <1>1, <1>2, <1>3, <1>4, <1>5 DEF Next

(* Every step, a stutter included, keeps the invariant. *)
LEMMA IInvInductive ==
  ASSUME NetRanges, IInv, [Next]_vars
  PROVE  IInv'
<1> USE DEF vars, net, past
<1>1. CASE Send
  <2>1. /\ ~closed /\ stack' = Append(stack, "drain")
        /\ nested' = (nested \/ Has("drain"))
        /\ UNCHANGED <<closed, events, pumped, late, thrown>>
    BY <1>1 DEF Send, Calls
  <2>2. pumped \in BOOLEAN /\ late \in BOOLEAN
    BY DEF IInv, Ranges
  <2> QED
    BY <2>1, <2>2, DrainStarts
<1>2. CASE SendThrows
  BY <1>2, CallFails DEF SendThrows, Calls
<1>3. CASE Pump
  <2>1. /\ stack' = Append(stack, "drain") /\ nested' = (nested \/ Has("drain"))
        /\ pumped' = TRUE /\ late' = (late \/ closed)
        /\ UNCHANGED <<closed, events, thrown>>
    BY <1>3 DEF Pump, Calls
  <2>2. late \in BOOLEAN /\ closed \in BOOLEAN
    BY DEF IInv, Ranges
  <2> QED
    BY <2>1, <2>2, DrainStarts
<1>4. CASE Close
  BY <1>4, CloseKeeps
<1>5. CASE CloseThrows
  BY <1>5, CloseThrowsKeeps
<1>6. CASE Drain
  BY <1>6, DrainKeeps
<1>7. CASE FailCloses
  BY <1>7, FailClosesKeeps
<1>8. CASE HandlerReturns
  BY <1>8, HandlerReturnsKeeps
<1>9. CASE UNCHANGED vars
  BY <1>9 DEF IInv, Ranges, Failing, Heard, Plain, Reading, Has
<1> QED
  BY <1>1, <1>2, <1>3, <1>4, <1>5, <1>6, <1>7, <1>8, <1>9 DEF Next

(* The invariant holds of every reachable state, whatever the bounds. *)
THEOREM Invariance == Spec => [](NetRanges /\ IInv)
<1>1. Init => NetRanges /\ IInv
  BY Initially
<1>2. NetRanges /\ IInv /\ [Next]_vars => NetRanges' /\ IInv'
  BY NetKeeps, IInvInductive
<1> QED
  BY <1>1, <1>2, PTL DEF Spec

(* websocket.mjs, every path that ends a socket: a guest at rest has heard *)
(* a close exactly when the socket is closed (unless the net threw out of  *)
(* it), a close behind each error, and one close, last, while no handler   *)
(* calls back into a drain.                                                *)
THEOREM EventsInOrder == Spec => []EventsOrdered
<1>1. ASSUME IInv
      PROVE  EventsOrdered
  <2>1. SUFFICES ASSUME stack = <<>>, ~late
                 PROVE  LET closes == {i \in 1..Len(events) : events[i] = "close"} IN
                        /\ closes # {} => closed
                        /\ closed /\ closes = {} => thrown
                        /\ \A i \in 1..Len(events) :
                             events[i] = "error" => i + 1 \in closes
                        /\ ~nested => closes \subseteq {Len(events)}
    BY DEF EventsOrdered
  <2>2. 1..Len(stack) = {}
    BY <2>1
  <2>3. ~Has("close")
    BY <2>2 DEF Has
  <2>4. Heard /\ Plain
    BY <1>1 DEF IInv
  <2> QED
    BY <2>1, <2>3, <2>4 DEF Heard, Plain
<1> QED
  BY <1>1, Invariance, PTL

(* websocket.mjs, _drain(): a guest at rest on an open socket has been     *)
(* handed all there was to read, however its handlers called back.         *)
THEOREM NothingLeftBehind == Spec => []NothingLeft
<1>1. ASSUME IInv
      PROVE  NothingLeft
  <2>1. stack = <<>> => 1..Len(stack) = {}
    OBVIOUS
  <2>2. stack = <<>> => ~Has("drain")
    BY <2>1 DEF Has
  <2> QED
    BY <1>1, <2>2 DEF IInv, Reading, NothingLeft
<1> QED
  BY <1>1, Invariance, PTL
=============================================================================
