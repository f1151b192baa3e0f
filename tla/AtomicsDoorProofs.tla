------------------------- MODULE AtomicsDoorProofs -------------------------
(***************************************************************************)
(* Machine-checked facts about AtomicsDoor.                                *)
(*                                                                         *)
(* For any use of the door: every number of requests and chunks, every     *)
(* threshold and set of methods, any number of responses left open, and a  *)
(* fetcher that may end.  The guest and the fetcher may lose step and park *)
(* for ever, but IInv holds on to whose frame is in the slot, and with it  *)
(* how much of another's answer a guest may be given: one head, at the     *)
(* end, and none at all with one response open at a time.                  *)
(*                                                                         *)
(* RefinesDoor says it as one contract, BlockingDoor's: all that core.mjs  *)
(* is given is what that allows, though the two may have lost step.        *)
(*                                                                         *)
(* For a guest with one response open at a time that makes no HEAD: the    *)
(* two stay in step, so every call finds its head, nothing is left on the  *)
(* channels, and the threads never park on each other.                     *)
(***************************************************************************)
EXTENDS AtomicsDoorInvariant, FiniteSetTheorems, TLAPS

(* A channel is empty or holds one frame.                                  *)
LEMMA SlotFacts ==
  /\ <<>> \in AtMostOne(Frame) /\ <<>> \in AtMostOne(Asked)
  /\ \A s \in Frame \cup Asked : <<s>> # <<>> /\ <<s>>[1] = s
  /\ \A s \in Frame : <<s>> \in AtMostOne(Frame)
  /\ \A s \in Asked : <<s>> \in AtMostOne(Asked)
  /\ \A q \in AtMostOne(Frame) : q # <<>> => q[1] \in Frame /\ q = <<q[1]>>
  /\ \A q \in AtMostOne(Asked) : q # <<>> => q[1] \in Asked /\ q = <<q[1]>>
BY DEF AtMostOne

(* The kinds of frames there are.                                          *)
Kinds == {"head", "error", "redirect", "chunk", "end"}

(* The fields of a frame, and which frames there are.                      *)
LEMMA FieldFacts ==
  /\ \A f \in Frame : f.x \in Ids /\ f.kind \in Kinds /\ f.n \in 0..Unknown
  /\ \A f \in Frame : f = F(f.x, f.kind, f.n)
  /\ \A u \in Asked : u.x \in Ids /\ u.kind \in {"request", "body"}
BY DEF Frame, F, Asked, Kinds

(* A frame made for a request is a frame, with what it was made of.        *)
LEMMA MadeFacts ==
  ASSUME NEW x \in Ids
  PROVE  /\ \A kind \in Kinds, n \in 0..Unknown : F(x, kind, n) \in Frame
         /\ \A kind, n : /\ F(x, kind, n).x = x /\ F(x, kind, n).kind = kind
                         /\ F(x, kind, n).n = n
         /\ [x |-> x, kind |-> "request"] \in Asked
         /\ [x |-> x, kind |-> "body"] \in Asked
         /\ \A k \in 0..MaxChunks : k \in 0..Unknown
         /\ Unknown \in 0..Unknown /\ 0 \in 0..Unknown /\ 0 \in 0..MaxChunks
BY AtomicsDoorAssumption DEF Frame, F, Asked, Kinds, Unknown

(* A chunk appended to what a guest has.                                   *)
LEMMA GotFacts ==
  ASSUME NEW s \in Seq(Frame), NEW f \in Frame
  PROVE  /\ Append(s, f) \in Seq(Frame) /\ Len(s) \in Nat
         /\ Append(s, f) # <<>>
         /\ Len(Append(s, f)) = Len(s) + 1
         /\ Append(s, f)[Len(s) + 1] = f
         /\ \A k \in 1..Len(s) : Append(s, f)[k] = s[k]
OBVIOUS

(* The frame before a body is put in an empty slot, for the exchange in    *)
(* hand.                                                                   *)
LEMMA LeadingFacts ==
  ASSUME TypeOK, Asking, WriteLeading
  PROVE  /\ fx \in Ids /\ Empty
         /\ HasHead' /\ ~HasChunk' /\ ~HasEnd'
         /\ down'[1].x = fx
         /\ IF fpc = "head" THEN /\ down'[1].kind = "head"
                                 /\ down'[1].n = Announced
                            ELSE down'[1].kind \in {"error", "redirect"}
<1>1. fx \in Ids /\ Announced \in 0..Unknown
  BY AtomicsDoorAssumption DEF TypeOK, WriteLeading, Asking, Unled,
     Announced, Unknown
<1>2. /\ Leading(fpc) \in Frame /\ Leading(fpc).x = fx
      /\ IF fpc = "head" THEN Leading(fpc) = F(fx, "head", Announced)
         ELSE Leading(fpc).kind \in {"error", "redirect"}
  <2>1. \A k \in {"error", "redirect", "head"}, n \in {0, Announced} :
          /\ F(fx, k, n) \in Frame /\ F(fx, k, n).x = fx
          /\ F(fx, k, n).kind = k /\ F(fx, k, n).n = n
    BY <1>1, AtomicsDoorAssumption DEF F, Frame, Unknown
  <2> QED
    BY <2>1 DEF WriteLeading, Leading
<1>3. down' # <<>> /\ down'[1] = Leading(fpc)
  BY <1>2, SlotFacts DEF WriteLeading
<1>4. fpc = "head" => Leading(fpc).kind = "head" /\ Leading(fpc).n = Announced
  BY <1>2 DEF F
<1> QED
  BY <1>1, <1>2, <1>3, <1>4
  DEF HasHead, HasChunk, HasEnd, Empty, IsHead, WriteLeading

(* A chunk put is the next of its body.                                    *)
LEMMA ChunkFacts ==
  ASSUME TypeOK, Asking, Counters, PutChunk
  PROVE  /\ fx \in Ids /\ Empty
         /\ HasChunk' /\ ~HasHead' /\ ~HasEnd'
         /\ down'[1] = F(fx, "chunk", sent + 1)
         /\ down'[1].x = fx /\ down'[1].n = sent + 1
<1>1. fx \in Ids /\ sent + 1 \in 0..MaxChunks
  BY AtomicsDoorAssumption DEF TypeOK, PutChunk, Asking, Led, Counters
<1>2. LET f == F(fx, "chunk", sent + 1) IN
        f \in Frame /\ f.x = fx /\ f.kind = "chunk" /\ f.n = sent + 1
  BY <1>1, AtomicsDoorAssumption DEF F, Frame, Unknown
<1>3. down' # <<>> /\ down'[1] = F(fx, "chunk", sent + 1)
  BY <1>2, SlotFacts DEF PutChunk
<1> QED
  BY <1>1, <1>2, <1>3 DEF HasHead, HasChunk, HasEnd, Empty, IsHead, PutChunk

(* An end put is the end of the exchange in hand.                          *)
LEMMA EndFacts ==
  ASSUME TypeOK, Asking, End
  PROVE  /\ fx \in Ids /\ Empty
         /\ HasEnd' /\ ~HasHead' /\ ~HasChunk'
<1>1. fx \in Ids
  BY DEF End, Asking
<1>2. LET f == F(fx, "end", 0) IN f \in Frame /\ f.kind = "end"
  BY <1>1, AtomicsDoorAssumption DEF F, Frame, Unknown
<1>3. down' # <<>> /\ down'[1] = F(fx, "end", 0)
  BY <1>2, SlotFacts DEF End
<1> QED
  BY <1>1, <1>2, <1>3 DEF HasHead, HasChunk, HasEnd, Empty, IsHead, End

(* A frame is one of three sorts, and only a chunk does not end a message. *)
LEMMA SortFacts ==
  ASSUME TypeOK
  PROVE  /\ Empty \/ HasHead \/ HasChunk \/ HasEnd
         /\ ~Empty => /\ down[1] \in Frame
                      /\ Last(down[1]) <=> ~HasChunk
                      /\ IsHead(down[1]) <=> HasHead
         /\ ~(HasHead /\ HasChunk) /\ ~(HasHead /\ HasEnd)
         /\ ~(HasChunk /\ HasEnd)
BY SlotFacts, FieldFacts
DEF TypeOK, HasHead, HasChunk, HasEnd, Empty, IsHead, Last, Kinds

(* What reading a head can come to: a response, the head of a HEAD, an     *)
(* error or a redirect, and the end of the exchange before.                *)
Opening ==
  /\ HasHead /\ Open = {} /\ down[1].kind = "head" /\ gpc' = "run"
  /\ head' = [head EXCEPT ![cur] = <<down[1]>>]
  /\ resp' = [resp EXCEPT ![cur] = "open"]
Dropping ==
  /\ HasHead /\ Open = {} /\ down[1].kind = "head" /\ gpc' = "run"
  /\ head' = [head EXCEPT ![cur] = <<down[1]>>]
  /\ method[cur] = "HEAD" /\ resp' = [resp EXCEPT ![cur] = "dropped"]
Refusing ==
  /\ HasHead /\ Open = {} /\ down[1].kind # "head" /\ gpc' = "empty"
  /\ head' = [head EXCEPT ![cur] = <<down[1]>>]
  /\ resp' = resp
Garbling ==
  /\ HasEnd /\ gpc' = "run" /\ head' = head
  /\ resp' = [resp EXCEPT ![cur] = "garbled"]

(* A call that looks for its head finds that head, with no other response  *)
(* open, or the end of the exchange before.                                *)
LEMMA ReadHeadFacts ==
  ASSUME TypeOK, Guest, Asking, Slot, Awaited, Opened, ReadHead
  PROVE  /\ cur \in Ids /\ cur = fx /\ down' = <<>> /\ ~joined'
         /\ gpc = "head" /\ resp[cur] = "asking"
         /\ HasHead => /\ <<down[1]>> # <<>> /\ <<down[1]>>[1] = down[1]
                       /\ down[1].x = cur
         /\ Opening \/ Dropping \/ Refusing \/ Garbling
<1>1. /\ cur \in Ids /\ cur = fx /\ ~Empty /\ ~HasChunk /\ ~joined
      /\ gpc = "head" /\ resp[cur] = "asking"
  BY DEF ReadHead, Guest, Asking, Awaited, Empty, Calling
<1>2. down[1] \in Frame /\ Last(down[1])
  BY <1>1, SortFacts
<1>3. CASE HasHead
  <2>1. Open = {}
    BY <1>1, <1>3, SortFacts DEF Opened, Left, Open, TypeOK
  <2>2. /\ down[1].x = cur /\ Parses(down[1])
        /\ <<down[1]>> # <<>> /\ <<down[1]>>[1] = down[1]
    BY <1>1, <1>2, <1>3, SortFacts, SlotFacts DEF Slot, Parses
  <2>3. /\ down' = <<>> /\ joined' = joined
        /\ gpc' = IF down[1].kind = "head" THEN "run" ELSE "empty"
        /\ head' = [head EXCEPT ![cur] = <<down[1]>>]
        /\ resp' = [resp EXCEPT ![cur] = Delivered(down[1])]
    BY <1>2, <2>2 DEF ReadHead
  <2>4. resp = [resp EXCEPT ![cur] = "asking"]
    BY <1>1 DEF TypeOK
  <2> QED
    BY <1>1, <1>2, <1>3, <2>1, <2>2, <2>3, <2>4
    DEF Delivered, Opening, Dropping, Refusing
<1>4. CASE HasEnd
  <2>1. ~Parses(down[1])
    BY <1>1, <1>4, SortFacts DEF Parses
  <2> QED
    BY <1>1, <1>2, <1>4, <2>1, SortFacts DEF ReadHead, Garbling
<1> QED
  BY <1>1, <1>3, <1>4, SortFacts

(* What follows a chunk, or a head.                                        *)
LEMMA ContinueFacts ==
  ASSUME TypeOK, Counters, Continue
  PROVE  \/ sent < made /\ fpc' = "chunk"
         \/ sent = made /\ complete /\ fpc' = "end"
         \/ sent = made /\ ~complete /\ fpc' = "read"
BY DEF TypeOK, Counters, Continue, FetcherAwaits

(* A request made in vain is none of those before.                         *)
LEMMA FetchFacts ==
  ASSUME TypeOK, Asking, asked < Requests
  PROVE  asked + 1 \in Ids /\ resp[asked + 1] = "none"
<1>1. asked + 1 \in Ids /\ asked \in Nat
  BY AtomicsDoorAssumption DEF TypeOK, Ids
<1> QED
  BY <1>1 DEF Asking

(* The one response that is open is the one a call is for.                 *)
LEMMA OpenFacts ==
  ASSUME Guest, gpc \in {"read", "drain"}
  PROVE  Open = {cur}
<1>1. cur \in Open
  BY DEF Guest, Open
<1> QED
  BY <1>1 DEF Guest

(* What read() can take: the next chunk, the end of the response, or what  *)
(* answered the request after it.                                          *)
LEMMA TakeChunkFacts ==
  ASSUME TypeOK, Guest, TakeChunk
  PROVE  /\ cur \in Ids /\ cur \in Open /\ resp[cur] = "open" /\ gpc = "read"
         /\ down' = <<>> /\ gpc' = "run"
         /\ UNCHANGED <<up, cancel, dead, cur, joined, asked, method, head>>
         /\ UNCHANGED fetcher
         /\ \/ /\ HasChunk /\ down[1] \in Frame /\ resp' = resp
               /\ got' = [got EXCEPT ![cur] = Append(@, down[1])]
            \/ /\ HasEnd
               /\ got' = got /\ resp' = [resp EXCEPT ![cur] = "ended"]
            \/ /\ HasHead /\ down[1] \in Frame
               /\ got' = [got EXCEPT ![cur] = Append(@, down[1])]
               /\ resp' = [resp EXCEPT ![cur] = "spent"]
<1>1. ~Empty /\ down[1] \in Frame
  BY SortFacts DEF TakeChunk, Empty
<1>2. /\ cur \in Ids /\ cur \in Open /\ resp[cur] = "open" /\ gpc = "read"
      /\ down' = <<>> /\ gpc' = "run"
      /\ UNCHANGED <<up, cancel, dead, cur, joined, asked, method, head>>
      /\ UNCHANGED fetcher
  BY DEF TakeChunk, Guest, Open
<1>3. CASE HasChunk
  BY <1>1, <1>2, <1>3, SortFacts DEF TakeChunk, HasChunk
<1>4. CASE HasEnd
  BY <1>1, <1>2, <1>4, SortFacts DEF TakeChunk, HasEnd
<1>5. CASE HasHead
  <2>1. down[1].kind # "end" /\ Last(down[1])
    BY <1>1, <1>5, SortFacts DEF HasHead, IsHead
  <2> QED
    BY <1>1, <1>2, <1>5, <2>1 DEF TakeChunk
<1> QED
  BY <1>1, <1>3, <1>4, <1>5, SortFacts

(* Every variable keeps its range; the counters because a chunk is only put *)
(* while there is one to send, and a frame because it is of a request made. *)
LEMMA TypeStep ==
  ASSUME TypeOK, Guest, Asking, Counters, [Next]_vars
  PROVE  TypeOK'
<1> USE AtomicsDoorAssumption
    DEF TypeOK, wires, guest, fetcher
<1>1. ASSUME NEW m \in Methods, Fetch(m)
      PROVE  TypeOK'
  <2>1. asked + 1 \in Ids
    BY <1>1 DEF Fetch, Ids
  <2>2. m \in {"GET", "HEAD", "POST"} /\ cur' \in 0..Requests
    BY <1>1, <2>1 DEF Fetch, Ids
  <2> QED
    BY <1>1, <2>1, <2>2 DEF Fetch
<1>2. ASSUME NEW m \in Methods, FetchDead(m)
      PROVE  TypeOK'
  <2>1. asked + 1 \in Ids
    BY <1>2 DEF FetchDead, Ids
  <2>2. m \in {"GET", "HEAD", "POST"}
    OBVIOUS
  <2> QED
    BY <1>2, <2>1, <2>2 DEF FetchDead, Ids
<1>3. ASSUME NEW x \in Ids, Read(x)
      PROVE  TypeOK'
  BY <1>3 DEF Read, Ids
<1>4. ASSUME NEW x \in Ids, Close(x)
      PROVE  TypeOK'
  BY <1>4 DEF Close, Ids
<1>5. CASE CloseBackend
  BY <1>5 DEF CloseBackend
<1>6. CASE Notice
  BY <1>6 DEF Notice
<1>7. CASE WriteRequest
  BY <1>7, SlotFacts, MadeFacts DEF WriteRequest, Guest
<1>8. CASE WriteBody
  BY <1>8, SlotFacts, MadeFacts DEF WriteBody, Guest
<1>9. CASE ReadHead
  <2>1. down[1] \in Frame /\ cur \in Ids
    BY <1>9, SlotFacts DEF ReadHead, Guest
  <2>2. <<>> \in AtMostOne(Frame) /\ <<down[1]>> \in AtMostOne(Frame)
    BY <2>1, SlotFacts
  <2>3. Delivered(down[1]) \in {"asking", "dropped", "open"}
    BY DEF Delivered
  <2> QED
    BY <1>9, <2>1, <2>2, <2>3 DEF ReadHead
<1>10. CASE ReadEmpty
  BY <1>10, SlotFacts DEF ReadEmpty, Guest
<1>11. CASE TakeChunk
  <2>1. down[1] \in Frame /\ cur \in Ids
    BY <1>11, SlotFacts DEF TakeChunk, Guest
  <2>2. got[cur] \in Seq(Frame) /\ Append(got[cur], down[1]) \in Seq(Frame)
    BY <2>1, GotFacts
  <2> QED
    BY <1>11, <2>1, <2>2, SlotFacts DEF TakeChunk
<1>12. CASE Drain
  BY <1>12, SlotFacts DEF Drain, Guest
<1>13. CASE TakeRequest
  BY <1>13, SlotFacts, FieldFacts DEF TakeRequest, FetcherReads, Ids
<1>14. CASE TakeBody
  <2>1. 0 \in 0..MaxChunks /\ <<>> \in AtMostOne(Asked)
    BY SlotFacts
  <2>2. /\ up' = <<>> /\ fpc' = "fetch" /\ UNCHANGED <<down, cancel>>
        /\ UNCHANGED guest
    BY <1>14 DEF TakeBody, FetcherReads
  <2>3. /\ made' = 0 /\ sent' = 0 /\ complete' = FALSE /\ alarm' = TRUE
        /\ UNCHANGED <<fx, cut>>
    BY <1>14 DEF TakeBody
  <2> QED
    BY <2>1, <2>2, <2>3
<1>15. CASE WriteLeading
  <2>1. fx \in Ids /\ Announced \in 0..Unknown
    BY <1>15 DEF WriteLeading, Asking, Unled, Announced, Unknown
  <2>2. \A k \in {"error", "redirect", "head"} :
          F(fx, k, 0) \in Frame /\ F(fx, k, Announced) \in Frame
    BY <2>1, MadeFacts DEF Kinds
  <2>3. Leading(fpc) \in Frame
    BY <1>15, <2>2 DEF WriteLeading, Leading
  <2> QED
    BY <1>15, <2>3, SlotFacts DEF WriteLeading, AfterLeading
<1>16. CASE LeadingRefused
  BY <1>16 DEF LeadingRefused, AfterLeading
<1>17. CASE Continue
  BY <1>17 DEF Continue, FetcherAwaits, Counters
<1>18. CASE ChunkAdmitted
  BY <1>18 DEF ChunkAdmitted, FetcherAwaits
<1>19. CASE ChunkRefused
  BY <1>19 DEF ChunkRefused, FetcherAwaits
<1>20. CASE ChunkRechecked
  BY <1>20 DEF ChunkRechecked, FetcherAwaits
<1>21. CASE PutChunk
  <2>1. fx \in Ids /\ sent + 1 \in 0..MaxChunks
    BY <1>21 DEF PutChunk, Asking, Led, Counters
  <2>2. F(fx, "chunk", sent + 1) \in Frame
    BY <2>1, MadeFacts DEF Kinds
  <2> QED
    BY <1>21, <2>1, <2>2, SlotFacts DEF PutChunk
<1>22. CASE Abandon
  BY <1>22 DEF Abandon, FetcherAwaits
<1>23. CASE End
  <2>1. fx \in Ids /\ 0 \in 0..MaxChunks
    BY <1>23 DEF End, Asking
  <2>2. F(fx, "end", 0) \in Frame
    BY <2>1, MadeFacts DEF Kinds
  <2> QED
    BY <1>23, <2>2, SlotFacts DEF End
<1>24. CASE Redirected
  BY <1>24 DEF Redirected, FetcherAwaits
<1>25. CASE NoStream
  BY <1>25 DEF NoStream, FetcherAwaits
<1>26. CASE HasStream
  BY <1>26 DEF HasStream, FetcherAwaits
<1>27. CASE BufferChunk
  BY <1>27 DEF BufferChunk, FetcherAwaits, Buffering
<1>28. CASE BufferDone
  BY <1>28 DEF BufferDone, FetcherAwaits
<1>29. CASE StreamChunk
  BY <1>29 DEF StreamChunk, FetcherAwaits
<1>30. CASE StreamDone
  BY <1>30 DEF StreamDone, FetcherAwaits
<1>31. CASE FetchFails
  BY <1>31 DEF FetchFails, FetcherAwaits
<1>32. CASE BufferFails
  BY <1>32 DEF BufferFails, FetcherAwaits
<1>33. CASE StreamFails
  <2>1. fx \in Ids
    BY <1>33 DEF StreamFails, FetcherAwaits, Asking, Led
  <2> QED
    BY <1>33, <2>1 DEF StreamFails, FetcherAwaits
<1>34. CASE Die
  BY <1>34 DEF Die
<1>35. CASE UNCHANGED vars
  BY <1>35 DEF vars
<1>36. ASSUME NEW x \in Ids, ReadSpent(x)
      PROVE  TypeOK'
  BY <1>36 DEF ReadSpent
<1>37. ASSUME NEW x \in Ids, CloseSpent(x)
      PROVE  TypeOK'
  BY <1>37 DEF CloseSpent
<1>38. CASE Discarded
  BY <1>38 DEF Discarded, FetcherAwaits
<1> QED
  BY <1>1, <1>2, <1>3, <1>4, <1>5, <1>6, <1>7, <1>8, <1>9, <1>10, <1>11,
     <1>12, <1>13, <1>14, <1>15, <1>16, <1>17, <1>18, <1>19, <1>20,
     <1>21, <1>22, <1>23, <1>24, <1>25, <1>26, <1>27, <1>28, <1>29,
     <1>30, <1>31, <1>32, <1>33, <1>34, <1>35,
     <1>36, <1>37, <1>38
  DEF Next, GuestStep, FetcherStep, OriginStep, Finished

(* The guest awaits one answer at a time, CANCEL is up for a drain or for  *)
(* good, and no head comes while a response is open.                       *)
LEMMA GuestInvStep ==
  ASSUME TypeOK, Guest, Asking, Slot, Awaited, Opened, [Next]_vars
  PROVE  Guest'
<1> USE AtomicsDoorAssumption
    DEF TypeOK, wires, guest, fetcher, Guest, Calling, Open, Ids
<1>1. ASSUME NEW m \in Methods, Fetch(m)
      PROVE  Guest'
  BY <1>1, FetchFacts DEF Fetch
<1>2. ASSUME NEW m \in Methods, FetchDead(m)
      PROVE  Guest'
  BY <1>2, FetchFacts DEF FetchDead
<1>3. ASSUME NEW x \in Ids, Read(x)
      PROVE  Guest'
  BY <1>3 DEF Read
<1>4. ASSUME NEW x \in Ids, Close(x)
      PROVE  Guest'
  BY <1>4 DEF Close
<1>5. CASE CloseBackend
  BY <1>5 DEF CloseBackend
<1>6. CASE Notice
  BY <1>6 DEF Notice
<1>7. CASE WriteRequest
  BY <1>7 DEF WriteRequest
<1>8. CASE WriteBody
  BY <1>8 DEF WriteBody
<1>9. CASE ReadHead
  <2>1. CASE Opening
    BY <1>9, <2>1, ReadHeadFacts DEF ReadHead, Opening
  <2>2. CASE Dropping
    BY <1>9, <2>2, ReadHeadFacts DEF ReadHead, Dropping
  <2>3. CASE Refusing
    BY <1>9, <2>3, ReadHeadFacts DEF ReadHead, Refusing
  <2>4. CASE Garbling
    BY <1>9, <2>4, ReadHeadFacts DEF ReadHead, Garbling
  <2> QED
    BY <1>9, <2>1, <2>2, <2>3, <2>4, ReadHeadFacts
<1>10. CASE ReadEmpty
  BY <1>10 DEF ReadEmpty
<1>11. CASE TakeChunk
  BY <1>11 DEF TakeChunk
<1>12. CASE Drain
  BY <1>12 DEF Drain
<1>13. CASE TakeRequest
  BY <1>13 DEF TakeRequest, FetcherReads
<1>14. CASE TakeBody
  BY <1>14 DEF TakeBody, FetcherReads
<1>15. CASE WriteLeading
  BY <1>15 DEF WriteLeading, Leading, AfterLeading, Announced
<1>16. CASE LeadingRefused
  BY <1>16 DEF LeadingRefused, AfterLeading
<1>17. CASE Continue
  BY <1>17, ContinueFacts DEF Continue, FetcherAwaits
<1>18. CASE ChunkAdmitted
  BY <1>18 DEF ChunkAdmitted, FetcherAwaits
<1>19. CASE ChunkRefused
  BY <1>19 DEF ChunkRefused, FetcherAwaits
<1>20. CASE ChunkRechecked
  BY <1>20 DEF ChunkRechecked, FetcherAwaits
<1>21. CASE PutChunk
  BY <1>21 DEF PutChunk
<1>22. CASE Abandon
  BY <1>22 DEF Abandon, FetcherAwaits
<1>23. CASE End
  BY <1>23 DEF End
<1>24. CASE Redirected
  BY <1>24 DEF Redirected, FetcherAwaits
<1>25. CASE NoStream
  BY <1>25 DEF NoStream, FetcherAwaits
<1>26. CASE HasStream
  BY <1>26 DEF HasStream, FetcherAwaits
<1>27. CASE BufferChunk
  BY <1>27 DEF BufferChunk, FetcherAwaits, Buffering
<1>28. CASE BufferDone
  BY <1>28 DEF BufferDone, FetcherAwaits
<1>29. CASE StreamChunk
  BY <1>29 DEF StreamChunk, FetcherAwaits
<1>30. CASE StreamDone
  BY <1>30 DEF StreamDone, FetcherAwaits
<1>31. CASE FetchFails
  BY <1>31 DEF FetchFails, FetcherAwaits
<1>32. CASE BufferFails
  BY <1>32 DEF BufferFails, FetcherAwaits
<1>33. CASE StreamFails
  BY <1>33 DEF StreamFails, FetcherAwaits
<1>34. CASE Die
  BY <1>34 DEF Die
<1>35. CASE UNCHANGED vars
  BY <1>35 DEF vars
<1>36. ASSUME NEW x \in Ids, ReadSpent(x)
      PROVE  Guest'
  BY <1>36 DEF ReadSpent
<1>37. ASSUME NEW x \in Ids, CloseSpent(x)
      PROVE  Guest'
  BY <1>37 DEF CloseSpent
<1>38. CASE Discarded
  BY <1>38 DEF Discarded, FetcherAwaits
<1> QED
  BY <1>1, <1>2, <1>3, <1>4, <1>5, <1>6, <1>7, <1>8, <1>9, <1>10, <1>11,
     <1>12, <1>13, <1>14, <1>15, <1>16, <1>17, <1>18, <1>19, <1>20,
     <1>21, <1>22, <1>23, <1>24, <1>25, <1>26, <1>27, <1>28, <1>29,
     <1>30, <1>31, <1>32, <1>33, <1>34, <1>35,
     <1>36, <1>37, <1>38
  DEF Next, GuestStep, FetcherStep, OriginStep, Finished

(* A request is taken after it was sent, once, and before the next is.     *)
LEMMA AskingStep ==
  ASSUME TypeOK, Guest, Asking, Counters, Slot, Awaited, Opened, [Next]_vars
  PROVE  Asking'
<1> USE AtomicsDoorAssumption
    DEF TypeOK, wires, guest, fetcher, Guest, Calling, Asking, Unled, Led,
        Waiting, Ids
<1>1. ASSUME NEW m \in Methods, Fetch(m)
      PROVE  Asking'
  BY <1>1, FetchFacts DEF Fetch
<1>2. ASSUME NEW m \in Methods, FetchDead(m)
      PROVE  Asking'
  BY <1>2, FetchFacts DEF FetchDead
<1>3. ASSUME NEW x \in Ids, Read(x)
      PROVE  Asking'
  BY <1>3 DEF Read
<1>4. ASSUME NEW x \in Ids, Close(x)
      PROVE  Asking'
  BY <1>4 DEF Close
<1>5. CASE CloseBackend
  BY <1>5 DEF CloseBackend
<1>6. CASE Notice
  BY <1>6 DEF Notice
<1>7. CASE WriteRequest
  BY <1>7 DEF WriteRequest
<1>8. CASE WriteBody
  BY <1>8 DEF WriteBody
<1>9. CASE ReadHead
  BY <1>9 DEF ReadHead, Parses, Delivered
<1>10. CASE ReadEmpty
  BY <1>10 DEF ReadEmpty
<1>11. CASE TakeChunk
  BY <1>11 DEF TakeChunk
<1>12. CASE Drain
  BY <1>12 DEF Drain
<1>13. CASE TakeRequest
  BY <1>13 DEF TakeRequest, FetcherReads
<1>14. CASE TakeBody
  BY <1>14 DEF TakeBody, FetcherReads
<1>15. CASE WriteLeading
  BY <1>15 DEF WriteLeading, Leading, AfterLeading, Announced
<1>16. CASE LeadingRefused
  BY <1>16 DEF LeadingRefused, AfterLeading
<1>17. CASE Continue
  BY <1>17, ContinueFacts DEF Continue, FetcherAwaits
<1>18. CASE ChunkAdmitted
  BY <1>18 DEF ChunkAdmitted, FetcherAwaits
<1>19. CASE ChunkRefused
  BY <1>19 DEF ChunkRefused, FetcherAwaits
<1>20. CASE ChunkRechecked
  BY <1>20 DEF ChunkRechecked, FetcherAwaits
<1>21. CASE PutChunk
  BY <1>21 DEF PutChunk
<1>22. CASE Abandon
  BY <1>22 DEF Abandon, FetcherAwaits
<1>23. CASE End
  BY <1>23 DEF End
<1>24. CASE Redirected
  BY <1>24 DEF Redirected, FetcherAwaits
<1>25. CASE NoStream
  BY <1>25 DEF NoStream, FetcherAwaits
<1>26. CASE HasStream
  BY <1>26 DEF HasStream, FetcherAwaits
<1>27. CASE BufferChunk
  BY <1>27 DEF BufferChunk, FetcherAwaits, Buffering
<1>28. CASE BufferDone
  BY <1>28 DEF BufferDone, FetcherAwaits
<1>29. CASE StreamChunk
  BY <1>29 DEF StreamChunk, FetcherAwaits
<1>30. CASE StreamDone
  BY <1>30 DEF StreamDone, FetcherAwaits
<1>31. CASE FetchFails
  BY <1>31 DEF FetchFails, FetcherAwaits
<1>32. CASE BufferFails
  BY <1>32 DEF BufferFails, FetcherAwaits
<1>33. CASE StreamFails
  BY <1>33 DEF StreamFails, FetcherAwaits
<1>34. CASE Die
  BY <1>34 DEF Die
<1>35. CASE UNCHANGED vars
  BY <1>35 DEF vars
<1>36. ASSUME NEW x \in Ids, ReadSpent(x)
      PROVE  Asking'
  BY <1>36 DEF ReadSpent
<1>37. ASSUME NEW x \in Ids, CloseSpent(x)
      PROVE  Asking'
  BY <1>37 DEF CloseSpent
<1>38. CASE Discarded
  BY <1>38 DEF Discarded, FetcherAwaits
<1> QED
  BY <1>1, <1>2, <1>3, <1>4, <1>5, <1>6, <1>7, <1>8, <1>9, <1>10, <1>11,
     <1>12, <1>13, <1>14, <1>15, <1>16, <1>17, <1>18, <1>19, <1>20,
     <1>21, <1>22, <1>23, <1>24, <1>25, <1>26, <1>27, <1>28, <1>29,
     <1>30, <1>31, <1>32, <1>33, <1>34, <1>35,
     <1>36, <1>37, <1>38
  DEF Next, GuestStep, FetcherStep, OriginStep, Finished

(* The fetcher's counters and its timer follow where it is in handle().    *)
LEMMA CountersStep ==
  ASSUME TypeOK, Guest, Asking, Counters, [Next]_vars
  PROVE  Counters'
<1> USE AtomicsDoorAssumption
    DEF TypeOK, wires, guest, fetcher, Asking, Counters, DeadlineCovers,
        Unled, Led, Waiting, Ids
<1>1. ASSUME NEW m \in Methods, Fetch(m)
      PROVE  Counters'
  BY <1>1, FetchFacts DEF Fetch
<1>2. ASSUME NEW m \in Methods, FetchDead(m)
      PROVE  Counters'
  BY <1>2, FetchFacts DEF FetchDead
<1>3. ASSUME NEW x \in Ids, Read(x)
      PROVE  Counters'
  BY <1>3 DEF Read
<1>4. ASSUME NEW x \in Ids, Close(x)
      PROVE  Counters'
  BY <1>4 DEF Close
<1>5. CASE CloseBackend
  BY <1>5 DEF CloseBackend
<1>6. CASE Notice
  BY <1>6 DEF Notice
<1>7. CASE WriteRequest
  BY <1>7 DEF WriteRequest
<1>8. CASE WriteBody
  BY <1>8 DEF WriteBody
<1>9. CASE ReadHead
  BY <1>9 DEF ReadHead, Parses, Delivered
<1>10. CASE ReadEmpty
  BY <1>10 DEF ReadEmpty
<1>11. CASE TakeChunk
  BY <1>11 DEF TakeChunk
<1>12. CASE Drain
  BY <1>12 DEF Drain
<1>13. CASE TakeRequest
  BY <1>13 DEF TakeRequest, FetcherReads
<1>14. CASE TakeBody
  BY <1>14 DEF TakeBody, FetcherReads
<1>15. CASE WriteLeading
  BY <1>15 DEF WriteLeading, Leading, AfterLeading, Announced
<1>16. CASE LeadingRefused
  BY <1>16 DEF LeadingRefused, AfterLeading
<1>17. CASE Continue
  BY <1>17, ContinueFacts DEF Continue, FetcherAwaits
<1>18. CASE ChunkAdmitted
  BY <1>18 DEF ChunkAdmitted, FetcherAwaits
<1>19. CASE ChunkRefused
  BY <1>19 DEF ChunkRefused, FetcherAwaits
<1>20. CASE ChunkRechecked
  BY <1>20 DEF ChunkRechecked, FetcherAwaits
<1>21. CASE PutChunk
  BY <1>21 DEF PutChunk
<1>22. CASE Abandon
  BY <1>22 DEF Abandon, FetcherAwaits
<1>23. CASE End
  BY <1>23 DEF End
<1>24. CASE Redirected
  BY <1>24 DEF Redirected, FetcherAwaits
<1>25. CASE NoStream
  BY <1>25 DEF NoStream, FetcherAwaits
<1>26. CASE HasStream
  BY <1>26 DEF HasStream, FetcherAwaits
<1>27. CASE BufferChunk
  BY <1>27 DEF BufferChunk, FetcherAwaits, Buffering
<1>28. CASE BufferDone
  BY <1>28 DEF BufferDone, FetcherAwaits
<1>29. CASE StreamChunk
  BY <1>29 DEF StreamChunk, FetcherAwaits
<1>30. CASE StreamDone
  BY <1>30 DEF StreamDone, FetcherAwaits
<1>31. CASE FetchFails
  BY <1>31 DEF FetchFails, FetcherAwaits
<1>32. CASE BufferFails
  BY <1>32 DEF BufferFails, FetcherAwaits
<1>33. CASE StreamFails
  BY <1>33 DEF StreamFails, FetcherAwaits
<1>34. CASE Die
  BY <1>34 DEF Die
<1>35. CASE UNCHANGED vars
  BY <1>35 DEF vars
<1>36. ASSUME NEW x \in Ids, ReadSpent(x)
      PROVE  Counters'
  BY <1>36 DEF ReadSpent
<1>37. ASSUME NEW x \in Ids, CloseSpent(x)
      PROVE  Counters'
  BY <1>37 DEF CloseSpent
<1>38. CASE Discarded
  BY <1>38 DEF Discarded, FetcherAwaits
<1> QED
  BY <1>1, <1>2, <1>3, <1>4, <1>5, <1>6, <1>7, <1>8, <1>9, <1>10, <1>11,
     <1>12, <1>13, <1>14, <1>15, <1>16, <1>17, <1>18, <1>19, <1>20,
     <1>21, <1>22, <1>23, <1>24, <1>25, <1>26, <1>27, <1>28, <1>29,
     <1>30, <1>31, <1>32, <1>33, <1>34, <1>35,
     <1>36, <1>37, <1>38
  DEF Next, GuestStep, FetcherStep, OriginStep, Finished

(* The slot holds a frame of the exchange in hand, or the end of the last. *)
LEMMA SlotStep ==
  ASSUME TypeOK, Guest, Asking, Counters, Slot, Awaited, Opened, [Next]_vars
  PROVE  Slot'
<1> USE AtomicsDoorAssumption
    DEF TypeOK, wires, guest, fetcher, Guest, Asking, Counters, Slot,
        HasHead, HasChunk, HasEnd, Empty, IsHead, Calling, Unled, Led,
        Waiting
<1>1. ASSUME NEW m \in Methods, Fetch(m)
      PROVE  Slot'
  BY <1>1, FetchFacts DEF Fetch
<1>2. ASSUME NEW m \in Methods, FetchDead(m)
      PROVE  Slot'
  BY <1>2, FetchFacts DEF FetchDead
<1>3. ASSUME NEW x \in Ids, Read(x)
      PROVE  Slot'
  BY <1>3 DEF Read
<1>4. ASSUME NEW x \in Ids, Close(x)
      PROVE  Slot'
  BY <1>4 DEF Close
<1>5. CASE CloseBackend
  BY <1>5 DEF CloseBackend
<1>6. CASE Notice
  BY <1>6 DEF Notice
<1>7. CASE WriteRequest
  BY <1>7 DEF WriteRequest
<1>8. CASE WriteBody
  BY <1>8 DEF WriteBody
<1>9. CASE ReadHead
  <2>1. CASE Opening
    BY <1>9, <2>1, ReadHeadFacts DEF ReadHead, Opening
  <2>2. CASE Dropping
    BY <1>9, <2>2, ReadHeadFacts DEF ReadHead, Dropping
  <2>3. CASE Refusing
    BY <1>9, <2>3, ReadHeadFacts DEF ReadHead, Refusing
  <2>4. CASE Garbling
    BY <1>9, <2>4, ReadHeadFacts DEF ReadHead, Garbling
  <2> QED
    BY <1>9, <2>1, <2>2, <2>3, <2>4, ReadHeadFacts
<1>10. CASE ReadEmpty
  <2>1. fpc \in {"end", "request", "gone"}
    BY <1>10 DEF ReadEmpty, Awaited
  <2>2. down' = <<>>
    BY <1>10 DEF ReadEmpty
  <2>3. UNCHANGED fetcher
    BY <1>10 DEF ReadEmpty
  <2> QED
    BY <2>1, <2>2, <2>3
<1>11. CASE TakeChunk
  BY <1>11, SortFacts DEF TakeChunk
<1>12. CASE Drain
  BY <1>12, SortFacts DEF Drain
<1>13. CASE TakeRequest
  BY <1>13 DEF TakeRequest, FetcherReads
<1>14. CASE TakeBody
  BY <1>14 DEF TakeBody, FetcherReads
<1>15. CASE WriteLeading
  BY <1>15, LeadingFacts DEF WriteLeading, AfterLeading, Announced
<1>16. CASE LeadingRefused
  BY <1>16 DEF LeadingRefused, AfterLeading
<1>17. CASE Continue
  BY <1>17, ContinueFacts DEF Continue, FetcherAwaits
<1>18. CASE ChunkAdmitted
  BY <1>18 DEF ChunkAdmitted, FetcherAwaits
<1>19. CASE ChunkRefused
  BY <1>19 DEF ChunkRefused, FetcherAwaits
<1>20. CASE ChunkRechecked
  BY <1>20 DEF ChunkRechecked, FetcherAwaits
<1>21. CASE PutChunk
  BY <1>21, ChunkFacts DEF PutChunk
<1>22. CASE Abandon
  BY <1>22 DEF Abandon, FetcherAwaits
<1>23. CASE End
  BY <1>23, EndFacts DEF End
<1>24. CASE Redirected
  BY <1>24 DEF Redirected, FetcherAwaits
<1>25. CASE NoStream
  BY <1>25 DEF NoStream, FetcherAwaits
<1>26. CASE HasStream
  BY <1>26 DEF HasStream, FetcherAwaits
<1>27. CASE BufferChunk
  BY <1>27 DEF BufferChunk, FetcherAwaits, Buffering
<1>28. CASE BufferDone
  BY <1>28 DEF BufferDone, FetcherAwaits
<1>29. CASE StreamChunk
  BY <1>29 DEF StreamChunk, FetcherAwaits
<1>30. CASE StreamDone
  BY <1>30 DEF StreamDone, FetcherAwaits
<1>31. CASE FetchFails
  BY <1>31 DEF FetchFails, FetcherAwaits
<1>32. CASE BufferFails
  BY <1>32 DEF BufferFails, FetcherAwaits
<1>33. CASE StreamFails
  BY <1>33 DEF StreamFails, FetcherAwaits
<1>34. CASE Die
  BY <1>34 DEF Die
<1>35. CASE UNCHANGED vars
  BY <1>35 DEF vars
<1>36. ASSUME NEW x \in Ids, ReadSpent(x)
      PROVE  Slot'
  BY <1>36 DEF ReadSpent
<1>37. ASSUME NEW x \in Ids, CloseSpent(x)
      PROVE  Slot'
  BY <1>37 DEF CloseSpent
<1>38. CASE Discarded
  BY <1>38 DEF Discarded, FetcherAwaits
<1> QED
  BY <1>1, <1>2, <1>3, <1>4, <1>5, <1>6, <1>7, <1>8, <1>9, <1>10, <1>11,
     <1>12, <1>13, <1>14, <1>15, <1>16, <1>17, <1>18, <1>19, <1>20,
     <1>21, <1>22, <1>23, <1>24, <1>25, <1>26, <1>27, <1>28, <1>29,
     <1>30, <1>31, <1>32, <1>33, <1>34, <1>35,
     <1>36, <1>37, <1>38
  DEF Next, GuestStep, FetcherStep, OriginStep, Finished

(* A call that awaits its head has the fetcher at work on its answer.      *)
LEMMA AwaitedStep ==
  ASSUME TypeOK, Guest, Asking, Counters, Slot, Awaited, Opened, [Next]_vars
  PROVE  Awaited'
<1> USE AtomicsDoorAssumption
    DEF TypeOK, wires, guest, fetcher, Guest, Asking, Slot, Awaited, HasHead,
        HasChunk, HasEnd, Empty, IsHead, Calling, Unled, Led, Waiting
<1>1. ASSUME NEW m \in Methods, Fetch(m)
      PROVE  Awaited'
  BY <1>1, FetchFacts DEF Fetch
<1>2. ASSUME NEW m \in Methods, FetchDead(m)
      PROVE  Awaited'
  BY <1>2, FetchFacts DEF FetchDead
<1>3. ASSUME NEW x \in Ids, Read(x)
      PROVE  Awaited'
  BY <1>3 DEF Read
<1>4. ASSUME NEW x \in Ids, Close(x)
      PROVE  Awaited'
  BY <1>4 DEF Close
<1>5. CASE CloseBackend
  BY <1>5 DEF CloseBackend
<1>6. CASE Notice
  BY <1>6 DEF Notice
<1>7. CASE WriteRequest
  BY <1>7 DEF WriteRequest
<1>8. CASE WriteBody
  BY <1>8 DEF WriteBody
<1>9. CASE ReadHead
  <2>1. CASE Opening
    BY <1>9, <2>1, ReadHeadFacts DEF ReadHead, Opening
  <2>2. CASE Dropping
    BY <1>9, <2>2, ReadHeadFacts DEF ReadHead, Dropping
  <2>3. CASE Refusing
    BY <1>9, <2>3, ReadHeadFacts DEF ReadHead, Refusing
  <2>4. CASE Garbling
    BY <1>9, <2>4, ReadHeadFacts DEF ReadHead, Garbling
  <2> QED
    BY <1>9, <2>1, <2>2, <2>3, <2>4, ReadHeadFacts
<1>10. CASE ReadEmpty
  BY <1>10, SortFacts DEF ReadEmpty
<1>11. CASE TakeChunk
  BY <1>11, SortFacts DEF TakeChunk
<1>12. CASE Drain
  BY <1>12, SortFacts DEF Drain
<1>13. CASE TakeRequest
  BY <1>13 DEF TakeRequest, FetcherReads
<1>14. CASE TakeBody
  BY <1>14 DEF TakeBody, FetcherReads
<1>15. CASE WriteLeading
  BY <1>15, LeadingFacts DEF WriteLeading, AfterLeading, Announced
<1>16. CASE LeadingRefused
  BY <1>16 DEF LeadingRefused, AfterLeading
<1>17. CASE Continue
  BY <1>17, ContinueFacts DEF Continue, FetcherAwaits
<1>18. CASE ChunkAdmitted
  BY <1>18 DEF ChunkAdmitted, FetcherAwaits
<1>19. CASE ChunkRefused
  BY <1>19 DEF ChunkRefused, FetcherAwaits
<1>20. CASE ChunkRechecked
  BY <1>20 DEF ChunkRechecked, FetcherAwaits
<1>21. CASE PutChunk
  BY <1>21, ChunkFacts DEF PutChunk
<1>22. CASE Abandon
  BY <1>22 DEF Abandon, FetcherAwaits
<1>23. CASE End
  BY <1>23, EndFacts DEF End
<1>24. CASE Redirected
  BY <1>24 DEF Redirected, FetcherAwaits
<1>25. CASE NoStream
  BY <1>25 DEF NoStream, FetcherAwaits
<1>26. CASE HasStream
  BY <1>26 DEF HasStream, FetcherAwaits
<1>27. CASE BufferChunk
  BY <1>27 DEF BufferChunk, FetcherAwaits, Buffering
<1>28. CASE BufferDone
  BY <1>28 DEF BufferDone, FetcherAwaits
<1>29. CASE StreamChunk
  BY <1>29 DEF StreamChunk, FetcherAwaits
<1>30. CASE StreamDone
  BY <1>30 DEF StreamDone, FetcherAwaits
<1>31. CASE FetchFails
  BY <1>31 DEF FetchFails, FetcherAwaits
<1>32. CASE BufferFails
  BY <1>32 DEF BufferFails, FetcherAwaits
<1>33. CASE StreamFails
  BY <1>33 DEF StreamFails, FetcherAwaits
<1>34. CASE Die
  BY <1>34 DEF Die
<1>35. CASE UNCHANGED vars
  BY <1>35 DEF vars
<1>36. ASSUME NEW x \in Ids, ReadSpent(x)
      PROVE  Awaited'
  BY <1>36 DEF ReadSpent
<1>37. ASSUME NEW x \in Ids, CloseSpent(x)
      PROVE  Awaited'
  BY <1>37 DEF CloseSpent
<1>38. CASE Discarded
  BY <1>38 DEF Discarded, FetcherAwaits
<1> QED
  BY <1>1, <1>2, <1>3, <1>4, <1>5, <1>6, <1>7, <1>8, <1>9, <1>10, <1>11,
     <1>12, <1>13, <1>14, <1>15, <1>16, <1>17, <1>18, <1>19, <1>20,
     <1>21, <1>22, <1>23, <1>24, <1>25, <1>26, <1>27, <1>28, <1>29,
     <1>30, <1>31, <1>32, <1>33, <1>34, <1>35,
     <1>36, <1>37, <1>38
  DEF Next, GuestStep, FetcherStep, OriginStep, Finished

(* An open response is the one being answered, from the chunk the guest is *)
(* at, or has been left behind with nothing but an end to come.            *)
LEMMA OpenedStep ==
  ASSUME TypeOK, Guest, Asking, Counters, Slot, Awaited, Opened, Complete,
         Heads, [Next]_vars
  PROVE  Opened'
<1> USE AtomicsDoorAssumption
    DEF TypeOK, wires, guest, fetcher, Guest, Asking, Counters, Slot,
        Awaited, Opened, Serving, Left, Open, HasHead, HasChunk, HasEnd,
        Empty, IsHead, Calling, Unled, Led, Waiting
<1>1. ASSUME NEW m \in Methods, Fetch(m)
      PROVE  Opened'
  <2>1. \A x \in Ids : resp'[x] = "open" <=> resp[x] = "open"
    BY <1>1, FetchFacts DEF Fetch
  <2> QED
    BY <1>1, <2>1 DEF Fetch
<1>2. ASSUME NEW m \in Methods, FetchDead(m)
      PROVE  Opened'
  <2>1. \A x \in Ids : resp'[x] = "open" <=> resp[x] = "open"
    BY <1>2, FetchFacts DEF FetchDead
  <2> QED
    BY <1>2, <2>1 DEF FetchDead
<1>3. ASSUME NEW x \in Ids, Read(x)
      PROVE  Opened'
  BY <1>3 DEF Read
<1>4. ASSUME NEW x \in Ids, Close(x)
      PROVE  Opened'
  BY <1>4 DEF Close
<1>5. CASE CloseBackend
  BY <1>5 DEF CloseBackend
<1>6. CASE Notice
  BY <1>6 DEF Notice
<1>7. CASE WriteRequest
  BY <1>7 DEF WriteRequest
<1>8. CASE WriteBody
  BY <1>8 DEF WriteBody
<1>9. CASE ReadHead
  <2>1. CASE Opening
    <3>1. Open' = {cur} /\ ~HasHead' /\ ~HasChunk' /\ ~HasEnd'
      BY <1>9, <2>1, ReadHeadFacts DEF Opening
    <3>2. head'[cur] # <<>> /\ head'[cur][1] = down[1] /\ cur = fx'
      BY <1>9, <2>1, ReadHeadFacts DEF Opening, ReadHead
    <3>3. fpc \in Led \cup {"end", "gone"} /\ got[cur] = <<>>
      BY <1>9, <2>1, ReadHeadFacts DEF Opening, Heads
    <3>4. ASSUME NEW x \in Open'
          PROVE  /\ head'[x] # <<>> /\ head'[x][1].kind = "head"
                 /\ x = fx' /\ Serving(x)'
      <4>1. x = cur
        BY <3>1
      <4>2. head'[x] # <<>> /\ head'[x][1].kind = "head" /\ x = fx'
        BY <2>1, <3>2, <4>1 DEF Opening
      <4>3. Serving(x)'
        BY <1>9, <2>1, <3>1, <3>2, <3>3, <4>1 DEF Opening, ReadHead
      <4> QED
        BY <4>2, <4>3
    <3> HIDE DEF Serving, Left
    <3> QED
      BY <3>4
  <2>2. CASE Dropping
    BY <1>9, <2>2, ReadHeadFacts DEF ReadHead, Dropping
  <2>3. CASE Refusing
    BY <1>9, <2>3, ReadHeadFacts DEF ReadHead, Refusing
  <2>4. CASE Garbling
    BY <1>9, <2>4, ReadHeadFacts DEF ReadHead, Garbling
  <2> QED
    BY <1>9, <2>1, <2>2, <2>3, <2>4, ReadHeadFacts
<1>10. CASE ReadEmpty
  BY <1>10, SortFacts DEF ReadEmpty
<1>11. CASE TakeChunk
  BY <1>11, SortFacts DEF TakeChunk
<1>12. CASE Drain
  <2>1. CASE Last(down[1])
    <3>1. \A x \in Ids : resp'[x] # "open"
      <4>1. resp' = [resp EXCEPT ![cur] = "closed"] /\ cur \in Open
        BY <1>12, <2>1 DEF Drain
      <4> QED
        BY <4>1
    <3> QED
      BY <3>1
  <2>2. CASE ~Last(down[1])
    <3>1. down # <<>> /\ gpc = "drain"
      BY <1>12 DEF Drain
    <3>2. HasChunk
      BY <2>2, <3>1, SortFacts
    <3>3. Open = {cur}
      BY <3>1, OpenFacts
    <3> QED
      BY <1>12, <2>2, <3>2, <3>3 DEF Drain
  <2> QED
    BY <2>1, <2>2
<1>13. CASE TakeRequest
  <2>1. /\ gpc = "body" /\ up # <<>> /\ up[1].x = cur
        /\ ~cancel /\ ~dead /\ ~HasHead /\ ~HasChunk
    BY <1>13 DEF TakeRequest, FetcherReads
  <2>2. \A x \in Open : x = fx /\ HasEnd
    BY <1>13, <2>1 DEF TakeRequest, FetcherReads
  <2>3. \A x \in Open : head[x][1].n # Unknown => Len(got[x]) = head[x][1].n
    BY <1>13, <2>1, <2>2 DEF TakeRequest, FetcherReads, Complete, Wanted
  <2> QED
    BY <1>13, <2>1, <2>2, <2>3 DEF TakeRequest, FetcherReads
<1>14. CASE TakeBody
  BY <1>14 DEF TakeBody, FetcherReads
<1>15. CASE WriteLeading
  BY <1>15, LeadingFacts DEF WriteLeading, AfterLeading, Announced
<1>16. CASE LeadingRefused
  BY <1>16 DEF LeadingRefused, AfterLeading
<1>17. CASE Continue
  BY <1>17, ContinueFacts DEF Continue, FetcherAwaits
<1>18. CASE ChunkAdmitted
  BY <1>18 DEF ChunkAdmitted, FetcherAwaits
<1>19. CASE ChunkRefused
  BY <1>19 DEF ChunkRefused, FetcherAwaits
<1>20. CASE ChunkRechecked
  BY <1>20 DEF ChunkRechecked, FetcherAwaits
<1>21. CASE PutChunk
  BY <1>21, ChunkFacts DEF PutChunk
<1>22. CASE Abandon
  BY <1>22 DEF Abandon, FetcherAwaits
<1>23. CASE End
  BY <1>23, EndFacts DEF End
<1>24. CASE Redirected
  BY <1>24 DEF Redirected, FetcherAwaits
<1>25. CASE NoStream
  BY <1>25 DEF NoStream, FetcherAwaits
<1>26. CASE HasStream
  BY <1>26 DEF HasStream, FetcherAwaits
<1>27. CASE BufferChunk
  BY <1>27 DEF BufferChunk, FetcherAwaits, Buffering
<1>28. CASE BufferDone
  BY <1>28 DEF BufferDone, FetcherAwaits
<1>29. CASE StreamChunk
  BY <1>29 DEF StreamChunk, FetcherAwaits
<1>30. CASE StreamDone
  BY <1>30 DEF StreamDone, FetcherAwaits
<1>31. CASE FetchFails
  BY <1>31 DEF FetchFails, FetcherAwaits
<1>32. CASE BufferFails
  BY <1>32 DEF BufferFails, FetcherAwaits
<1>33. CASE StreamFails
  BY <1>33 DEF StreamFails, FetcherAwaits
<1>34. CASE Die
  BY <1>34 DEF Die
<1>35. CASE UNCHANGED vars
  <2>1. /\ up' = up /\ down' = down /\ cancel' = cancel /\ dead' = dead
        /\ gpc' = gpc /\ resp' = resp /\ head' = head /\ got' = got
        /\ fpc' = fpc /\ fx' = fx /\ made' = made /\ sent' = sent
        /\ complete' = complete
    BY ONLY <1>35 DEF vars
  <2> QED
    BY <2>1
<1>36. ASSUME NEW x \in Ids, ReadSpent(x)
      PROVE  Opened'
  BY <1>36 DEF ReadSpent
<1>37. ASSUME NEW x \in Ids, CloseSpent(x)
      PROVE  Opened'
  BY <1>37 DEF CloseSpent
<1>38. CASE Discarded
  BY <1>38 DEF Discarded, FetcherAwaits
<1> QED
  BY <1>1, <1>2, <1>3, <1>4, <1>5, <1>6, <1>7, <1>8, <1>9, <1>10, <1>11,
     <1>12, <1>13, <1>14, <1>15, <1>16, <1>17, <1>18, <1>19, <1>20,
     <1>21, <1>22, <1>23, <1>24, <1>25, <1>26, <1>27, <1>28, <1>29,
     <1>30, <1>31, <1>32, <1>33, <1>34, <1>35,
     <1>36, <1>37, <1>38
  DEF Next, GuestStep, FetcherStep, OriginStep, Finished

(* A message the guest wants is ended when all there was has gone out.     *)
LEMMA CompleteStep ==
  ASSUME TypeOK, Guest, Asking, Counters, Slot, Awaited, Opened, Complete,
         Heads, [Next]_vars
  PROVE  Complete'
<1> USE AtomicsDoorAssumption
    DEF TypeOK, wires, guest, fetcher, Guest, Asking, Counters, Slot,
        Complete, Wanted, Awaited, Opened, Open, Serving, Left, HasHead,
        HasChunk, HasEnd, Empty, IsHead, Calling, Unled, Led, Waiting
<1>1. ASSUME NEW m \in Methods, Fetch(m)
      PROVE  Complete'
  BY <1>1, FetchFacts DEF Fetch
<1>2. ASSUME NEW m \in Methods, FetchDead(m)
      PROVE  Complete'
  BY <1>2, FetchFacts DEF FetchDead
<1>3. ASSUME NEW x \in Ids, Read(x)
      PROVE  Complete'
  BY <1>3 DEF Read
<1>4. ASSUME NEW x \in Ids, Close(x)
      PROVE  Complete'
  BY <1>4 DEF Close
<1>5. CASE CloseBackend
  BY <1>5 DEF CloseBackend
<1>6. CASE Notice
  BY <1>6 DEF Notice
<1>7. CASE WriteRequest
  BY <1>7 DEF WriteRequest
<1>8. CASE WriteBody
  BY <1>8 DEF WriteBody
<1>9. CASE ReadHead
  <2>1. CASE Opening
    BY <1>9, <2>1, ReadHeadFacts DEF ReadHead, Opening
  <2>2. CASE Dropping
    BY <1>9, <2>2, ReadHeadFacts DEF ReadHead, Dropping
  <2>3. CASE Refusing
    BY <1>9, <2>3, ReadHeadFacts DEF ReadHead, Refusing
  <2>4. CASE Garbling
    BY <1>9, <2>4, ReadHeadFacts DEF ReadHead, Garbling
  <2> QED
    BY <1>9, <2>1, <2>2, <2>3, <2>4, ReadHeadFacts
<1>10. CASE ReadEmpty
  BY <1>10, SortFacts DEF ReadEmpty
<1>11. CASE TakeChunk
  BY <1>11, SortFacts DEF TakeChunk
<1>12. CASE Drain
  <2>1. CASE Last(down[1])
    <3>1. /\ resp' = [resp EXCEPT ![cur] = "closed"] /\ cur \in Open
          /\ down' = <<>>
      BY <1>12, <2>1 DEF Drain
    <3>2. ~Wanted'
      BY <3>1
    <3>3. fx' = fx /\ fpc' = fpc
      BY <1>12 DEF Drain
    <3> QED
      BY <3>1, <3>2, <3>3
  <2>2. CASE ~Last(down[1])
    BY <1>12, <2>2, SortFacts DEF Drain
  <2> QED
    BY <2>1, <2>2
<1>13. CASE TakeRequest
  BY <1>13 DEF TakeRequest, FetcherReads
<1>14. CASE TakeBody
  BY <1>14 DEF TakeBody, FetcherReads
<1>15. CASE WriteLeading
  BY <1>15, LeadingFacts DEF WriteLeading, AfterLeading, Announced
<1>16. CASE LeadingRefused
  BY <1>16 DEF LeadingRefused, AfterLeading
<1>17. CASE Continue
  BY <1>17, ContinueFacts DEF Continue, FetcherAwaits
<1>18. CASE ChunkAdmitted
  BY <1>18 DEF ChunkAdmitted, FetcherAwaits
<1>19. CASE ChunkRefused
  BY <1>19 DEF ChunkRefused, FetcherAwaits
<1>20. CASE ChunkRechecked
  BY <1>20 DEF ChunkRechecked, FetcherAwaits
<1>21. CASE PutChunk
  BY <1>21, ChunkFacts DEF PutChunk
<1>22. CASE Abandon
  BY <1>22 DEF Abandon, FetcherAwaits
<1>23. CASE End
  BY <1>23, EndFacts DEF End
<1>24. CASE Redirected
  BY <1>24 DEF Redirected, FetcherAwaits
<1>25. CASE NoStream
  BY <1>25 DEF NoStream, FetcherAwaits
<1>26. CASE HasStream
  BY <1>26 DEF HasStream, FetcherAwaits
<1>27. CASE BufferChunk
  BY <1>27 DEF BufferChunk, FetcherAwaits, Buffering
<1>28. CASE BufferDone
  BY <1>28 DEF BufferDone, FetcherAwaits
<1>29. CASE StreamChunk
  BY <1>29 DEF StreamChunk, FetcherAwaits
<1>30. CASE StreamDone
  BY <1>30 DEF StreamDone, FetcherAwaits
<1>31. CASE FetchFails
  BY <1>31 DEF FetchFails, FetcherAwaits
<1>32. CASE BufferFails
  BY <1>32 DEF BufferFails, FetcherAwaits
<1>33. CASE StreamFails
  BY <1>33 DEF StreamFails, FetcherAwaits
<1>34. CASE Die
  BY <1>34 DEF Die
<1>35. CASE UNCHANGED vars
  BY <1>35 DEF vars
<1>36. ASSUME NEW x \in Ids, ReadSpent(x)
      PROVE  Complete'
  BY <1>36 DEF ReadSpent, Heads, Ids
<1>37. ASSUME NEW x \in Ids, CloseSpent(x)
      PROVE  Complete'
  BY <1>37 DEF CloseSpent
<1>38. CASE Discarded
  BY <1>38 DEF Discarded, FetcherAwaits
<1> QED
  BY <1>1, <1>2, <1>3, <1>4, <1>5, <1>6, <1>7, <1>8, <1>9, <1>10, <1>11,
     <1>12, <1>13, <1>14, <1>15, <1>16, <1>17, <1>18, <1>19, <1>20,
     <1>21, <1>22, <1>23, <1>24, <1>25, <1>26, <1>27, <1>28, <1>29,
     <1>30, <1>31, <1>32, <1>33, <1>34, <1>35,
     <1>36, <1>37, <1>38
  DEF Next, GuestStep, FetcherStep, OriginStep, Finished

(* A response has no chunk before its head.                                *)
LEMMA HeadsStep ==
  ASSUME TypeOK, Guest, Asking, Counters, Slot, Awaited, Opened, Heads,
         [Next]_vars
  PROVE  Heads'
<1> USE AtomicsDoorAssumption
    DEF TypeOK, wires, guest, fetcher, Guest, Asking, Heads, Calling, Ids
<1>1. ASSUME NEW m \in Methods, Fetch(m)
      PROVE  Heads'
  BY <1>1, FetchFacts DEF Fetch
<1>2. ASSUME NEW m \in Methods, FetchDead(m)
      PROVE  Heads'
  BY <1>2, FetchFacts DEF FetchDead
<1>3. ASSUME NEW x \in Ids, Read(x)
      PROVE  Heads'
  BY <1>3 DEF Read
<1>4. ASSUME NEW x \in Ids, Close(x)
      PROVE  Heads'
  BY <1>4 DEF Close
<1>5. CASE CloseBackend
  BY <1>5 DEF CloseBackend
<1>6. CASE Notice
  BY <1>6 DEF Notice
<1>7. CASE WriteRequest
  BY <1>7 DEF WriteRequest
<1>8. CASE WriteBody
  BY <1>8 DEF WriteBody
<1>9. CASE ReadHead
  <2>1. CASE Opening
    BY <1>9, <2>1, ReadHeadFacts DEF ReadHead, Opening
  <2>2. CASE Dropping
    BY <1>9, <2>2, ReadHeadFacts DEF ReadHead, Dropping
  <2>3. CASE Refusing
    BY <1>9, <2>3, ReadHeadFacts DEF ReadHead, Refusing
  <2>4. CASE Garbling
    BY <1>9, <2>4, ReadHeadFacts DEF ReadHead, Garbling
  <2> QED
    BY <1>9, <2>1, <2>2, <2>3, <2>4, ReadHeadFacts
<1>10. CASE ReadEmpty
  BY <1>10 DEF ReadEmpty
<1>11. CASE TakeChunk
  <2>1. cur \in Ids /\ cur \in Open /\ resp[cur] = "open" /\ fx' = fx
    BY <1>11, TakeChunkFacts
  <2>2. cur <= fx /\ head[cur] # <<>>
    BY <2>1
  <2>3. HasHead => cur < fx
    BY <2>1, <2>2 DEF Opened, Serving
  <2>4. /\ head' = head
        /\ \A x \in Ids : x # cur => got'[x] = got[x] /\ resp'[x] = resp[x]
    BY <1>11, TakeChunkFacts
  <2>5. \/ resp'[cur] \in {"open", "ended"}
        \/ HasHead /\ resp'[cur] = "spent"
    BY <1>11, <2>1, TakeChunkFacts
  <2> QED
    BY <2>1, <2>2, <2>3, <2>4, <2>5
<1>12. CASE Drain
  BY <1>12 DEF Drain
<1>13. CASE TakeRequest
  <2>1. /\ gpc = "body" /\ fx < cur /\ fx' = cur
        /\ UNCHANGED guest
    BY <1>13 DEF TakeRequest, FetcherReads
  <2>2. fx \in Nat /\ cur \in Nat /\ Ids \subseteq Nat
    BY DEF TypeOK, Ids
  <2>3. \A x \in Ids : (x <= fx => x <= cur) /\ (x < fx => x < cur)
    BY ONLY <2>1, <2>2
  <2> QED
    BY ONLY <2>1, <2>3, Heads DEF Heads, guest
<1>14. CASE TakeBody
  BY <1>14 DEF TakeBody, FetcherReads
<1>15. CASE WriteLeading
  BY <1>15 DEF WriteLeading, Leading, AfterLeading, Announced
<1>16. CASE LeadingRefused
  BY <1>16 DEF LeadingRefused, AfterLeading
<1>17. CASE Continue
  BY <1>17, ContinueFacts DEF Continue, FetcherAwaits
<1>18. CASE ChunkAdmitted
  BY <1>18 DEF ChunkAdmitted, FetcherAwaits
<1>19. CASE ChunkRefused
  BY <1>19 DEF ChunkRefused, FetcherAwaits
<1>20. CASE ChunkRechecked
  BY <1>20 DEF ChunkRechecked, FetcherAwaits
<1>21. CASE PutChunk
  BY <1>21 DEF PutChunk
<1>22. CASE Abandon
  BY <1>22 DEF Abandon, FetcherAwaits
<1>23. CASE End
  BY <1>23 DEF End
<1>24. CASE Redirected
  BY <1>24 DEF Redirected, FetcherAwaits
<1>25. CASE NoStream
  BY <1>25 DEF NoStream, FetcherAwaits
<1>26. CASE HasStream
  BY <1>26 DEF HasStream, FetcherAwaits
<1>27. CASE BufferChunk
  BY <1>27 DEF BufferChunk, FetcherAwaits, Buffering
<1>28. CASE BufferDone
  BY <1>28 DEF BufferDone, FetcherAwaits
<1>29. CASE StreamChunk
  BY <1>29 DEF StreamChunk, FetcherAwaits
<1>30. CASE StreamDone
  BY <1>30 DEF StreamDone, FetcherAwaits
<1>31. CASE FetchFails
  BY <1>31 DEF FetchFails, FetcherAwaits
<1>32. CASE BufferFails
  BY <1>32 DEF BufferFails, FetcherAwaits
<1>33. CASE StreamFails
  BY <1>33 DEF StreamFails, FetcherAwaits
<1>34. CASE Die
  BY <1>34 DEF Die
<1>35. CASE UNCHANGED vars
  BY <1>35 DEF vars
<1>36. ASSUME NEW x \in Ids, ReadSpent(x)
      PROVE  Heads'
  BY <1>36 DEF ReadSpent
<1>37. ASSUME NEW x \in Ids, CloseSpent(x)
      PROVE  Heads'
  BY <1>37 DEF CloseSpent
<1>38. CASE Discarded
  BY <1>38 DEF Discarded, FetcherAwaits
<1> QED
  BY <1>1, <1>2, <1>3, <1>4, <1>5, <1>6, <1>7, <1>8, <1>9, <1>10, <1>11,
     <1>12, <1>13, <1>14, <1>15, <1>16, <1>17, <1>18, <1>19, <1>20,
     <1>21, <1>22, <1>23, <1>24, <1>25, <1>26, <1>27, <1>28, <1>29,
     <1>30, <1>31, <1>32, <1>33, <1>34, <1>35,
     <1>36, <1>37, <1>38
  DEF Next, GuestStep, FetcherStep, OriginStep, Finished

(* What a guest was given last is a frame.                                 *)
LEMMA FinalFacts ==
  ASSUME TypeOK, NEW x \in Ids, got[x] # <<>>
  PROVE  /\ Len(got[x]) \in Nat \ {0}
         /\ Final(x) \in Frame /\ Final(x).x \in Ids
<1>1. got[x] \in Seq(Frame)
  BY DEF TypeOK
<1>2. Len(got[x]) \in Nat \ {0} /\ Final(x) \in Frame
  BY <1>1 DEF Final
<1> QED
  BY <1>2, FieldFacts

(* read() gives the next chunk of the response, or what answered the       *)
(* request after it, whose own call took this one's end.                   *)
LEMMA TakeChunkKept ==
  ASSUME TypeOK, Guest, Asking, Slot, Awaited, Opened, Heads, AnswersKept,
         TakeChunk
  PROVE  AnswersKept'
<1>1. /\ cur \in Ids /\ cur \in Open /\ resp[cur] = "open" /\ gpc = "read"
      /\ UNCHANGED <<head, fx, cur>>
  BY TakeChunkFacts DEF fetcher
<1>2. ~Strayed(cur) /\ got[cur] \in Seq(Frame) /\ Own(cur) = Len(got[cur])
  BY <1>1 DEF AnswersKept, Own, TypeOK
<1>3. \A x \in Ids : x # cur => got'[x] = got[x] /\ resp'[x] = resp[x]
  BY TakeChunkFacts DEF TypeOK
<1>4. ASSUME NEW x \in Ids, x # cur
      PROVE  /\ head'[x] # <<>> => head'[x][1].x = x
             /\ \A k \in 1..Own(x)' : got'[x][k] = F(x, "chunk", k)
             /\ Strayed(x)' =>
                  /\ resp'[x] \in {"spent", "ended", "closed"}
                  /\ IsHead(Final(x)') /\ Final(x)'.x > x
                  /\ resp'[Final(x)'.x] = "garbled"
  <2>1. /\ Own(x)' = Own(x) /\ Strayed(x)' = Strayed(x)
        /\ Final(x)' = Final(x) /\ got'[x] = got[x] /\ resp'[x] = resp[x]
    BY <1>3, <1>4 DEF Own, Strayed, Final
  <2>2. Strayed(x) => resp'[Final(x).x] = "garbled"
    <3> SUFFICES ASSUME Strayed(x) PROVE resp'[Final(x).x] = "garbled"
      OBVIOUS
    <3>1. Final(x).x \in Ids /\ resp[Final(x).x] = "garbled"
      BY FinalFacts DEF AnswersKept, Strayed
    <3> QED
      BY <1>1, <1>3, <3>1
  <2> QED
    BY <1>1, <2>1, <2>2 DEF AnswersKept
<1>5. head'[cur] # <<>> => head'[cur][1].x = cur
  BY <1>1 DEF AnswersKept
<1>6. ASSUME down[1] \in Frame, got' = [got EXCEPT ![cur] = Append(@, down[1])]
      PROVE  /\ got'[cur] = Append(got[cur], down[1]) /\ got'[cur] # <<>>
             /\ Len(got'[cur]) = Len(got[cur]) + 1 /\ Len(got[cur]) \in Nat
             /\ Final(cur)' = down[1]
             /\ Strayed(cur)' <=> down[1].kind # "chunk"
             /\ \A k \in 1..Len(got[cur]) : got'[cur][k] = F(cur, "chunk", k)
  <2>1. got'[cur] = Append(got[cur], down[1])
    BY <1>1, <1>6 DEF TypeOK
  <2>2. /\ got'[cur] # <<>> /\ Len(got'[cur]) = Len(got[cur]) + 1
        /\ Len(got[cur]) \in Nat
        /\ got'[cur][Len(got[cur]) + 1] = down[1]
        /\ \A k \in 1..Len(got[cur]) : got'[cur][k] = got[cur][k]
    BY <1>2, <1>6, <2>1, GotFacts
  <2>3. Final(cur)' = down[1]
    BY <1>1, <2>2 DEF Final
  <2> QED
    BY <1>1, <1>2, <2>1, <2>2, <2>3 DEF AnswersKept, Strayed
<1>7. CASE HasChunk
  <2>1. /\ down[1] \in Frame /\ got' = [got EXCEPT ![cur] = Append(@, down[1])]
        /\ down[1].kind = "chunk"
    BY <1>7, TakeChunkFacts, SortFacts DEF HasChunk
  <2>2. down[1].x = cur /\ down[1].n = Len(got[cur]) + 1
    BY <1>1, <1>7 DEF Opened, Left, Serving, Slot
  <2>3. down[1] = F(cur, "chunk", Len(got[cur]) + 1)
    BY <2>1, <2>2, FieldFacts
  <2>4. ~Strayed(cur)' /\ Own(cur)' = Len(got[cur]) + 1
    BY <1>1, <1>6, <2>1 DEF Own
  <2>5. \A k \in 1..(Len(got[cur]) + 1) : got'[cur][k] = F(cur, "chunk", k)
    BY <1>1, <1>6, <2>1, <2>3 DEF Final
  <2> QED
    BY <1>1, <1>4, <1>5, <2>4, <2>5 DEF AnswersKept
<1>8. CASE HasEnd
  <2>1. got' = got /\ resp'[cur] = "ended"
    BY <1>1, <1>8, TakeChunkFacts, SortFacts DEF TypeOK
  <2>2. ~Strayed(cur)' /\ Own(cur)' = Own(cur)
    BY <1>1, <1>2, <2>1 DEF Own, Strayed, Final
  <2> QED
    BY <1>1, <1>4, <1>5, <2>1, <2>2 DEF AnswersKept
<1>9. CASE HasHead
  <2>1. /\ down[1] \in Frame /\ got' = [got EXCEPT ![cur] = Append(@, down[1])]
        /\ resp'[cur] = "spent" /\ IsHead(down[1]) /\ down[1].kind # "chunk"
    BY <1>1, <1>9, TakeChunkFacts, SortFacts DEF TypeOK, HasHead, IsHead
  <2>2. down[1].x = fx /\ fx \in Ids /\ resp[fx] \in {"asking", "garbled"}
    BY <1>9 DEF Slot
  <2>3. cur < fx /\ resp[fx] = "garbled"
    BY <1>1, <2>2 DEF Heads, Guest, Calling, Ids
  <2>4. Strayed(cur)' /\ Own(cur)' = Len(got[cur]) /\ Final(cur)' = down[1]
    BY <1>1, <1>6, <2>1 DEF Own
  <2>5. resp'[fx] = "garbled" /\ down[1].x > cur
    BY <1>1, <1>3, <2>2, <2>3 DEF Ids
  <2> QED
    BY <1>1, <1>4, <1>5, <1>6, <2>1, <2>2, <2>4, <2>5 DEF AnswersKept
<1> QED
  BY <1>7, <1>8, <1>9, TakeChunkFacts

(* What was given stays as it was when read() gives nothing, and nothing   *)
(* that has ended, was closed or was reset begins again.                   *)
LEMMA AnswersStay ==
  ASSUME TypeOK, AnswersKept, got' = got,
         \A x \in Ids : head'[x] # <<>> => head'[x][1].x = x,
         \A x \in Ids : resp[x] \in {"ended", "closed", "garbled"} =>
                           resp'[x] = resp[x],
         \A x \in Ids : resp[x] = "spent" =>
                           resp'[x] \in {"spent", "ended", "closed"}
  PROVE  AnswersKept'
<1> SUFFICES ASSUME NEW x \in Ids
             PROVE  /\ \A k \in 1..Own(x)' : got'[x][k] = F(x, "chunk", k)
                    /\ Strayed(x)' =>
                         /\ resp'[x] \in {"spent", "ended", "closed"}
                         /\ IsHead(Final(x)') /\ Final(x)'.x > x
                         /\ resp'[Final(x)'.x] = "garbled"
  BY DEF AnswersKept
<1>1. /\ Own(x)' = Own(x) /\ Strayed(x)' = Strayed(x)
      /\ Final(x)' = Final(x)
  BY DEF Own, Strayed, Final
<1>2. \A k \in 1..Own(x) : got'[x][k] = F(x, "chunk", k)
  BY DEF AnswersKept
<1>3. ASSUME Strayed(x)
      PROVE  /\ resp'[x] \in {"spent", "ended", "closed"}
             /\ IsHead(Final(x)) /\ Final(x).x > x
             /\ resp'[Final(x).x] = "garbled"
  <2>1. /\ resp[x] \in {"spent", "ended", "closed"}
        /\ IsHead(Final(x)) /\ Final(x).x > x
        /\ resp[Final(x).x] = "garbled"
    BY <1>3 DEF AnswersKept
  <2>2. Final(x).x \in Ids
    BY <1>3, FinalFacts DEF Strayed
  <2> QED
    BY <2>1, <2>2
<1> QED
  BY <1>1, <1>2, <1>3

(* A guest is given the head and the chunks of its own request, and after  *)
(* them at most the head of one that was reset.                            *)
LEMMA AnswersStep ==
  ASSUME TypeOK, Guest, Asking, Slot, Awaited, Opened, Heads, AnswersKept,
         [Next]_vars
  PROVE  AnswersKept'
<1> USE AtomicsDoorAssumption
    DEF TypeOK, wires, guest, fetcher, Guest, Calling
<1>0. \A x \in Ids : head[x] # <<>> => head[x][1].x = x
  BY DEF AnswersKept
<1>1. ASSUME NEW m \in Methods, Fetch(m)
      PROVE  AnswersKept'
  BY <1>0, <1>1, AnswersStay, FetchFacts DEF Fetch
<1>2. ASSUME NEW m \in Methods, FetchDead(m)
      PROVE  AnswersKept'
  BY <1>0, <1>2, AnswersStay, FetchFacts DEF FetchDead
<1>3. ASSUME NEW x \in Ids, Read(x)
      PROVE  AnswersKept'
  BY <1>0, <1>3, AnswersStay DEF Read
<1>4. ASSUME NEW x \in Ids, Close(x)
      PROVE  AnswersKept'
  BY <1>0, <1>4, AnswersStay DEF Close
<1>5. CASE CloseBackend
  BY <1>0, <1>5, AnswersStay DEF CloseBackend
<1>6. CASE Notice
  BY <1>0, <1>6, AnswersStay DEF Notice
<1>7. CASE WriteRequest
  BY <1>0, <1>7, AnswersStay DEF WriteRequest
<1>8. CASE WriteBody
  BY <1>0, <1>8, AnswersStay DEF WriteBody
<1>9. CASE ReadHead
  <2>1. got' = got /\ cur \in Ids /\ resp[cur] = "asking"
    BY <1>9, ReadHeadFacts DEF ReadHead
  <2>2. \A x \in Ids : head'[x] # <<>> => head'[x][1].x = x
    <3>1. CASE Opening \/ Dropping \/ Refusing
      <4>1. /\ cur \in Ids /\ head' = [head EXCEPT ![cur] = <<down[1]>>]
            /\ <<down[1]>>[1] = down[1] /\ down[1].x = cur
        BY <1>9, <3>1, ReadHeadFacts DEF Opening, Dropping, Refusing
      <4> QED
        BY <1>0, <4>1
    <3>2. CASE Garbling
      BY <1>0, <3>2 DEF Garbling
    <3> QED
      BY <1>9, <3>1, <3>2, ReadHeadFacts
  <2>3. \A x \in Ids : x # cur => resp'[x] = resp[x]
    BY <1>9, ReadHeadFacts DEF Opening, Dropping, Refusing, Garbling
  <2> QED
    BY <2>1, <2>2, <2>3, AnswersStay
<1>10. CASE ReadEmpty
  BY <1>0, <1>10, AnswersStay DEF ReadEmpty
<1>11. CASE TakeChunk
  BY <1>11, TakeChunkKept
<1>12. CASE Drain
  BY <1>0, <1>12, AnswersStay DEF Drain
<1>13. CASE TakeRequest
  BY <1>0, <1>13, AnswersStay DEF TakeRequest, FetcherReads
<1>14. CASE TakeBody
  BY <1>0, <1>14, AnswersStay DEF TakeBody, FetcherReads
<1>15. CASE WriteLeading
  BY <1>0, <1>15, AnswersStay DEF WriteLeading, Leading, AfterLeading, Announced
<1>16. CASE LeadingRefused
  BY <1>0, <1>16, AnswersStay DEF LeadingRefused, AfterLeading
<1>17. CASE Continue
  BY <1>0, <1>17, AnswersStay, ContinueFacts DEF Continue, FetcherAwaits
<1>18. CASE ChunkAdmitted
  BY <1>0, <1>18, AnswersStay DEF ChunkAdmitted, FetcherAwaits
<1>19. CASE ChunkRefused
  BY <1>0, <1>19, AnswersStay DEF ChunkRefused, FetcherAwaits
<1>20. CASE ChunkRechecked
  BY <1>0, <1>20, AnswersStay DEF ChunkRechecked, FetcherAwaits
<1>21. CASE PutChunk
  BY <1>0, <1>21, AnswersStay DEF PutChunk
<1>22. CASE Abandon
  BY <1>0, <1>22, AnswersStay DEF Abandon, FetcherAwaits
<1>23. CASE End
  BY <1>0, <1>23, AnswersStay DEF End
<1>24. CASE Redirected
  BY <1>0, <1>24, AnswersStay DEF Redirected, FetcherAwaits
<1>25. CASE NoStream
  BY <1>0, <1>25, AnswersStay DEF NoStream, FetcherAwaits
<1>26. CASE HasStream
  BY <1>0, <1>26, AnswersStay DEF HasStream, FetcherAwaits
<1>27. CASE BufferChunk
  BY <1>0, <1>27, AnswersStay DEF BufferChunk, FetcherAwaits, Buffering
<1>28. CASE BufferDone
  BY <1>0, <1>28, AnswersStay DEF BufferDone, FetcherAwaits
<1>29. CASE StreamChunk
  BY <1>0, <1>29, AnswersStay DEF StreamChunk, FetcherAwaits
<1>30. CASE StreamDone
  BY <1>0, <1>30, AnswersStay DEF StreamDone, FetcherAwaits
<1>31. CASE FetchFails
  BY <1>0, <1>31, AnswersStay DEF FetchFails, FetcherAwaits
<1>32. CASE BufferFails
  BY <1>0, <1>32, AnswersStay DEF BufferFails, FetcherAwaits
<1>33. CASE StreamFails
  BY <1>0, <1>33, AnswersStay DEF StreamFails, FetcherAwaits
<1>34. CASE Die
  BY <1>0, <1>34, AnswersStay DEF Die
<1>35. CASE UNCHANGED vars
  BY <1>0, <1>35, AnswersStay DEF vars
<1>36. ASSUME NEW x \in Ids, ReadSpent(x)
      PROVE  AnswersKept'
  BY <1>0, <1>36, AnswersStay DEF ReadSpent
<1>37. ASSUME NEW x \in Ids, CloseSpent(x)
      PROVE  AnswersKept'
  BY <1>0, <1>37, AnswersStay DEF CloseSpent
<1>38. CASE Discarded
  BY <1>0, <1>38, AnswersStay DEF Discarded, FetcherAwaits
<1> QED
  BY <1>1, <1>2, <1>3, <1>4, <1>5, <1>6, <1>7, <1>8, <1>9, <1>10, <1>11,
     <1>12, <1>13, <1>14, <1>15, <1>16, <1>17, <1>18, <1>19, <1>20,
     <1>21, <1>22, <1>23, <1>24, <1>25, <1>26, <1>27, <1>28, <1>29,
     <1>30, <1>31, <1>32, <1>33, <1>34, <1>35,
     <1>36, <1>37, <1>38
  DEF Next, GuestStep, FetcherStep, OriginStep, Finished

(* What read() takes after the chunks of a response comes when the guest   *)
(* has all that was announced.                                             *)
LEMMA ReadAllFacts ==
  ASSUME TypeOK, Guest, Asking, Counters, Slot, Opened, Complete, TakeChunk,
         ~HasChunk
  PROVE  ~dead /\ head[cur][1].n # Unknown => Len(got[cur]) = head[cur][1].n
BY TakeChunkFacts, SortFacts
DEF TypeOK, fetcher, Guest, Calling, Opened, Left, Serving, Complete, Wanted,
    Counters, Open, Waiting

(* A response that ended has as many chunks of its own as its head         *)
(* announced.                                                              *)
LEMMA LengthsStep ==
  ASSUME TypeOK, Guest, Asking, Counters, Slot, Awaited, Opened, Complete,
         Heads, AnswersKept, LengthsKept, [Next]_vars
  PROVE  LengthsKept'
<1> USE AtomicsDoorAssumption
    DEF TypeOK, wires, guest, fetcher, Ids, LengthsKept, Heads, Guest,
        Calling, Own, Strayed, Final
<1>1. ASSUME NEW m \in Methods, Fetch(m)
      PROVE  LengthsKept'
  BY <1>1, FetchFacts DEF Fetch
<1>2. ASSUME NEW m \in Methods, FetchDead(m)
      PROVE  LengthsKept'
  BY <1>2, FetchFacts DEF FetchDead
<1>3. ASSUME NEW x \in Ids, Read(x)
      PROVE  LengthsKept'
  BY <1>3 DEF Read
<1>4. ASSUME NEW x \in Ids, Close(x)
      PROVE  LengthsKept'
  BY <1>4 DEF Close
<1>5. CASE CloseBackend
  BY <1>5 DEF CloseBackend
<1>6. CASE Notice
  BY <1>6 DEF Notice
<1>7. CASE WriteRequest
  BY <1>7 DEF WriteRequest
<1>8. CASE WriteBody
  BY <1>8 DEF WriteBody
<1>9. CASE ReadHead
  <2>1. CASE Opening
    BY <1>9, <2>1, ReadHeadFacts DEF ReadHead, Opening
  <2>2. CASE Dropping
    BY <1>9, <2>2, ReadHeadFacts DEF ReadHead, Dropping
  <2>3. CASE Refusing
    BY <1>9, <2>3, ReadHeadFacts DEF ReadHead, Refusing
  <2>4. CASE Garbling
    BY <1>9, <2>4, ReadHeadFacts DEF ReadHead, Garbling
  <2> QED
    BY <1>9, <2>1, <2>2, <2>3, <2>4, ReadHeadFacts
<1>10. CASE ReadEmpty
  BY <1>10 DEF ReadEmpty
<1>11. CASE TakeChunk
  <2>1. CASE HasChunk
    <3>1. /\ UNCHANGED <<resp, head, dead>> /\ cur \in Ids
          /\ resp[cur] = "open"
          /\ \A x \in Ids : x # cur => got'[x] = got[x]
      BY <1>11, <2>1, TakeChunkFacts, SortFacts
    <3> QED
      BY <3>1
  <2>2. CASE ~HasChunk
    <3>1. ~dead /\ head[cur][1].n # Unknown => Len(got[cur]) = head[cur][1].n
      BY <1>11, <2>2, ReadAllFacts
    <3>2. /\ UNCHANGED <<head, dead>> /\ cur \in Ids /\ resp[cur] = "open"
          /\ \A x \in Ids : x # cur => got'[x] = got[x] /\ resp'[x] = resp[x]
      BY <1>11, <2>2, TakeChunkFacts, SortFacts
    <3>3. ~Strayed(cur) /\ got[cur] \in Seq(Frame)
      BY <3>2 DEF AnswersKept
    <3>4. Own(cur)' = Len(got[cur])
      <4>1. CASE got' = got
        BY <1>11, <3>3, <4>1, TakeChunkFacts
      <4>2. CASE HasHead
        <5>1. /\ down[1] \in Frame /\ down[1].kind # "chunk"
              /\ got' = [got EXCEPT ![cur] = Append(got[cur], down[1])]
          BY <1>11, <4>2, TakeChunkFacts, SortFacts DEF HasHead, IsHead
        <5>2. got'[cur] = Append(got[cur], down[1])
          BY <3>2, <5>1
        <5>3. /\ got'[cur] # <<>> /\ Len(got'[cur]) = Len(got[cur]) + 1
              /\ Len(got[cur]) \in Nat
              /\ got'[cur][Len(got[cur]) + 1] = down[1]
          <6> HIDE DEF Strayed, Own, Final, TypeOK
          <6> QED
            BY <3>3, <5>1, <5>2, GotFacts
        <5>4. cur' = cur
          BY <1>11, TakeChunkFacts
        <5>5. Final(cur)' = down[1] /\ Strayed(cur)'
          BY <5>1, <5>3, <5>4
        <5>6. Own(cur)' = Len(got'[cur]) - 1
          <6> HIDE DEF Strayed, Final, TypeOK, Guest, Heads, LengthsKept
          <6> QED
            BY <5>4, <5>5
        <5> QED
          <6> HIDE DEF Own
          <6> QED
            BY <5>3, <5>6
      <4> QED
        BY <1>11, <2>2, <4>1, <4>2, TakeChunkFacts
    <3>5. cur' = cur
      BY <1>11, TakeChunkFacts
    <3>6. ASSUME NEW x \in Ids, ~dead',
                 resp'[x] \in {"spent", "ended"} /\ head'[x][1].n # Unknown
          PROVE  Own(x)' = head'[x][1].n
      <4>1. CASE x = cur
        BY <3>1, <3>2, <3>4, <3>5, <3>6, <4>1
      <4>2. CASE x # cur
        BY <3>2, <3>6, <4>2
      <4> QED
        BY <4>1, <4>2
    <3> HIDE DEF Own
    <3> QED
      BY <3>6
  <2> QED
    BY <2>1, <2>2
<1>12. CASE Drain
  BY <1>12 DEF Drain
<1>13. CASE TakeRequest
  BY <1>13 DEF TakeRequest, FetcherReads
<1>14. CASE TakeBody
  BY <1>14 DEF TakeBody, FetcherReads
<1>15. CASE WriteLeading
  BY <1>15 DEF WriteLeading, Leading, AfterLeading, Announced
<1>16. CASE LeadingRefused
  BY <1>16 DEF LeadingRefused, AfterLeading
<1>17. CASE Continue
  BY <1>17, ContinueFacts DEF Continue, FetcherAwaits
<1>18. CASE ChunkAdmitted
  BY <1>18 DEF ChunkAdmitted, FetcherAwaits
<1>19. CASE ChunkRefused
  BY <1>19 DEF ChunkRefused, FetcherAwaits
<1>20. CASE ChunkRechecked
  BY <1>20 DEF ChunkRechecked, FetcherAwaits
<1>21. CASE PutChunk
  BY <1>21 DEF PutChunk
<1>22. CASE Abandon
  BY <1>22 DEF Abandon, FetcherAwaits
<1>23. CASE End
  BY <1>23 DEF End
<1>24. CASE Redirected
  BY <1>24 DEF Redirected, FetcherAwaits
<1>25. CASE NoStream
  BY <1>25 DEF NoStream, FetcherAwaits
<1>26. CASE HasStream
  BY <1>26 DEF HasStream, FetcherAwaits
<1>27. CASE BufferChunk
  BY <1>27 DEF BufferChunk, FetcherAwaits, Buffering
<1>28. CASE BufferDone
  BY <1>28 DEF BufferDone, FetcherAwaits
<1>29. CASE StreamChunk
  BY <1>29 DEF StreamChunk, FetcherAwaits
<1>30. CASE StreamDone
  BY <1>30 DEF StreamDone, FetcherAwaits
<1>31. CASE FetchFails
  BY <1>31 DEF FetchFails, FetcherAwaits
<1>32. CASE BufferFails
  BY <1>32 DEF BufferFails, FetcherAwaits
<1>33. CASE StreamFails
  BY <1>33 DEF StreamFails, FetcherAwaits
<1>34. CASE Die
  BY <1>34 DEF Die
<1>35. CASE UNCHANGED vars
  BY <1>35 DEF vars
<1>36. ASSUME NEW x \in Ids, ReadSpent(x)
      PROVE  LengthsKept'
  BY <1>36 DEF ReadSpent
<1>37. ASSUME NEW x \in Ids, CloseSpent(x)
      PROVE  LengthsKept'
  BY <1>37 DEF CloseSpent
<1>38. CASE Discarded
  BY <1>38 DEF Discarded, FetcherAwaits
<1> QED
  BY <1>1, <1>2, <1>3, <1>4, <1>5, <1>6, <1>7, <1>8, <1>9, <1>10, <1>11,
     <1>12, <1>13, <1>14, <1>15, <1>16, <1>17, <1>18, <1>19, <1>20,
     <1>21, <1>22, <1>23, <1>24, <1>25, <1>26, <1>27, <1>28, <1>29,
     <1>30, <1>31, <1>32, <1>33, <1>34, <1>35,
     <1>36, <1>37, <1>38
  DEF Next, GuestStep, FetcherStep, OriginStep, Finished

(* A response that ended has all the chunks the origin produced.           *)
LEMMA DroppedStep ==
  ASSUME TypeOK, Guest, Asking, Counters, Slot, Awaited, Opened, Complete,
         Heads, NothingDropped, [Next]_vars
  PROVE  NothingDropped'
<1> USE AtomicsDoorAssumption
    DEF TypeOK, wires, guest, fetcher, Ids, NothingDropped, Heads, Guest,
        Asking, Complete, Calling, Led, Unled, Waiting
<1>1. ASSUME NEW m \in Methods, Fetch(m)
      PROVE  NothingDropped'
  BY <1>1, FetchFacts DEF Fetch
<1>2. ASSUME NEW m \in Methods, FetchDead(m)
      PROVE  NothingDropped'
  BY <1>2, FetchFacts DEF FetchDead
<1>3. ASSUME NEW x \in Ids, Read(x)
      PROVE  NothingDropped'
  BY <1>3 DEF Read
<1>4. ASSUME NEW x \in Ids, Close(x)
      PROVE  NothingDropped'
  BY <1>4 DEF Close
<1>5. CASE CloseBackend
  BY <1>5 DEF CloseBackend
<1>6. CASE Notice
  BY <1>6 DEF Notice
<1>7. CASE WriteRequest
  BY <1>7 DEF WriteRequest
<1>8. CASE WriteBody
  BY <1>8 DEF WriteBody
<1>9. CASE ReadHead
  <2>1. CASE Opening
    BY <1>9, <2>1, ReadHeadFacts DEF ReadHead, Opening
  <2>2. CASE Dropping
    BY <1>9, <2>2, ReadHeadFacts DEF ReadHead, Dropping
  <2>3. CASE Refusing
    BY <1>9, <2>3, ReadHeadFacts DEF ReadHead, Refusing
  <2>4. CASE Garbling
    BY <1>9, <2>4, ReadHeadFacts DEF ReadHead, Garbling
  <2> QED
    BY <1>9, <2>1, <2>2, <2>3, <2>4, ReadHeadFacts
<1>10. CASE ReadEmpty
  BY <1>10 DEF ReadEmpty
<1>11. CASE TakeChunk
  <2>1. CASE HasChunk
    <3>1. /\ resp' = resp /\ cur \in Ids /\ resp[cur] = "open"
          /\ got' = [got EXCEPT ![cur] = Append(@, down[1])]
          /\ UNCHANGED <<dead, fx, fpc, made, cut>>
      BY <1>11, <2>1, TakeChunkFacts, SortFacts
    <3>2. \A x \in Ids : x # cur => got'[x] = got[x]
      BY ONLY <3>1, TypeOK DEF TypeOK
    <3> QED
      BY ONLY <3>1, <3>2, NothingDropped DEF NothingDropped
  <2>2. CASE ~HasChunk
    <3>1. cur = fx /\ fpc = "request" /\ ~dead /\ fx \notin cut =>
            Len(got[cur]) = made
      BY <1>11, <2>2, TakeChunkFacts
      DEF Opened, Serving, Complete, Wanted, Open
    <3>2. /\ cur \in Ids /\ UNCHANGED <<dead, fx, fpc, made, cut>>
          /\ \A x \in Ids : x # cur => got'[x] = got[x] /\ resp'[x] = resp[x]
      BY <1>11, <2>2, TakeChunkFacts, SortFacts
    <3>3. CASE cur = fx
      <4>1. got' = got
        BY <1>11, <2>2, <3>3, TakeChunkFacts DEF Opened, Serving
      <4> QED
        BY <3>1, <3>2, <3>3, <4>1
    <3>4. CASE cur # fx
      BY <3>2, <3>4
    <3> QED
      BY <3>3, <3>4
  <2> QED
    BY <2>1, <2>2
<1>12. CASE Drain
  BY <1>12 DEF Drain
<1>13. CASE TakeRequest
  BY <1>13 DEF TakeRequest, FetcherReads
<1>14. CASE TakeBody
  BY <1>14 DEF TakeBody, FetcherReads
<1>15. CASE WriteLeading
  BY <1>15 DEF WriteLeading, Leading, AfterLeading, Announced
<1>16. CASE LeadingRefused
  BY <1>16 DEF LeadingRefused, AfterLeading
<1>17. CASE Continue
  BY <1>17, ContinueFacts DEF Continue, FetcherAwaits
<1>18. CASE ChunkAdmitted
  BY <1>18 DEF ChunkAdmitted, FetcherAwaits
<1>19. CASE ChunkRefused
  BY <1>19 DEF ChunkRefused, FetcherAwaits
<1>20. CASE ChunkRechecked
  BY <1>20 DEF ChunkRechecked, FetcherAwaits
<1>21. CASE PutChunk
  BY <1>21 DEF PutChunk
<1>22. CASE Abandon
  BY <1>22 DEF Abandon, FetcherAwaits
<1>23. CASE End
  BY <1>23 DEF End
<1>24. CASE Redirected
  BY <1>24 DEF Redirected, FetcherAwaits
<1>25. CASE NoStream
  BY <1>25 DEF NoStream, FetcherAwaits
<1>26. CASE HasStream
  BY <1>26 DEF HasStream, FetcherAwaits
<1>27. CASE BufferChunk
  BY <1>27 DEF BufferChunk, FetcherAwaits, Buffering
<1>28. CASE BufferDone
  BY <1>28 DEF BufferDone, FetcherAwaits
<1>29. CASE StreamChunk
  BY <1>29 DEF StreamChunk, FetcherAwaits
<1>30. CASE StreamDone
  BY <1>30 DEF StreamDone, FetcherAwaits
<1>31. CASE FetchFails
  BY <1>31 DEF FetchFails, FetcherAwaits
<1>32. CASE BufferFails
  BY <1>32 DEF BufferFails, FetcherAwaits
<1>33. CASE StreamFails
  BY <1>33 DEF StreamFails, FetcherAwaits
<1>34. CASE Die
  BY <1>34 DEF Die
<1>35. CASE UNCHANGED vars
  BY <1>35 DEF vars
<1>36. ASSUME NEW x \in Ids, ReadSpent(x)
      PROVE  NothingDropped'
  BY <1>36 DEF ReadSpent
<1>37. ASSUME NEW x \in Ids, CloseSpent(x)
      PROVE  NothingDropped'
  BY <1>37 DEF CloseSpent
<1>38. CASE Discarded
  BY <1>38 DEF Discarded, FetcherAwaits
<1> QED
  BY <1>1, <1>2, <1>3, <1>4, <1>5, <1>6, <1>7, <1>8, <1>9, <1>10, <1>11,
     <1>12, <1>13, <1>14, <1>15, <1>16, <1>17, <1>18, <1>19, <1>20,
     <1>21, <1>22, <1>23, <1>24, <1>25, <1>26, <1>27, <1>28, <1>29,
     <1>30, <1>31, <1>32, <1>33, <1>34, <1>35,
     <1>36, <1>37, <1>38
  DEF Next, GuestStep, FetcherStep, OriginStep, Finished

(* Fewer than one response is none.                                        *)
LEMMA NoneOpen ==
  ASSUME Cardinality(Open) < 1
  PROVE  Open = {}
<1>1. IsFiniteSet(Ids)
  BY AtomicsDoorAssumption, FS_Interval DEF Ids
<1>2. IsFiniteSet(Open) /\ Cardinality(Open) \in Nat
  BY <1>1, FS_Subset, FS_CardinalityType DEF Open
<1> QED
  BY <1>2, FS_EmptySet

(* A guest that opens one response at a time has none open when its next   *)
(* request goes out, so an open one is what the fetcher is answering.      *)
LEMMA SingleStep ==
  ASSUME OpenLimit = 1, TypeOK, Guest, Asking, Slot, Awaited, Opened, Single,
         [Next]_vars
  PROVE  Single'
<1> USE AtomicsDoorAssumption
    DEF TypeOK, wires, guest, fetcher, Guest, Asking, Calling, Open, Single,
        Strayed, Final
<1>1. ASSUME NEW m \in Methods, Fetch(m)
      PROVE  Single'
  <2>1. Open = {}
    BY <1>1, NoneOpen DEF Fetch
  <2>2. Open' = {}
    BY <1>1, <2>1, FetchFacts DEF Fetch
  <2> QED
    BY <1>1, <2>1, <2>2 DEF Fetch
<1>2. ASSUME NEW m \in Methods, FetchDead(m)
      PROVE  Single'
  BY <1>2, FetchFacts DEF FetchDead
<1>3. ASSUME NEW x \in Ids, Read(x)
      PROVE  Single'
  BY <1>3 DEF Read
<1>4. ASSUME NEW x \in Ids, Close(x)
      PROVE  Single'
  BY <1>4 DEF Close
<1>5. CASE CloseBackend
  BY <1>5 DEF CloseBackend
<1>6. CASE Notice
  BY <1>6 DEF Notice
<1>7. CASE WriteRequest
  BY <1>7 DEF WriteRequest
<1>8. CASE WriteBody
  BY <1>8 DEF WriteBody
<1>9. CASE ReadHead
  <2>1. CASE Opening
    BY <1>9, <2>1, ReadHeadFacts DEF ReadHead, Opening
  <2>2. CASE Dropping
    BY <1>9, <2>2, ReadHeadFacts DEF ReadHead, Dropping
  <2>3. CASE Refusing
    BY <1>9, <2>3, ReadHeadFacts DEF ReadHead, Refusing
  <2>4. CASE Garbling
    BY <1>9, <2>4, ReadHeadFacts DEF ReadHead, Garbling
  <2> QED
    BY <1>9, <2>1, <2>2, <2>3, <2>4, ReadHeadFacts
<1>10. CASE ReadEmpty
  BY <1>10 DEF ReadEmpty
<1>11. CASE TakeChunk
  <2>1. cur \in Ids /\ resp[cur] = "open" /\ Serving(cur)
    BY <1>11, TakeChunkFacts DEF Opened
  <2>2. /\ fx' = fx /\ gpc' = "run" /\ Open' \subseteq Open
        /\ \A x \in Ids : x # cur => got'[x] = got[x]
    BY <1>11, TakeChunkFacts, SortFacts
  <2>3. ~Strayed(cur)'
    <3>1. cur' = cur
      BY <1>11, TakeChunkFacts
    <3>2. CASE got' = got
      BY <2>1, <3>1, <3>2
    <3>3. CASE got' # got
      <4>1. /\ HasChunk /\ down[1] \in Frame /\ got[cur] \in Seq(Frame)
            /\ got' = [got EXCEPT ![cur] = Append(got[cur], down[1])]
        BY <1>11, <2>1, <3>3, TakeChunkFacts DEF Serving
      <4>2. got'[cur] = Append(got[cur], down[1])
        BY <2>1, <4>1
      <4>3. /\ Len(got'[cur]) = Len(got[cur]) + 1
            /\ got'[cur][Len(got[cur]) + 1] = down[1]
        BY <4>1, <4>2, GotFacts
      <4> QED
        BY <3>1, <4>1, <4>3 DEF HasChunk
    <3> QED
      BY <3>2, <3>3
  <2> QED
    BY <1>11, <2>1, <2>2, <2>3, TakeChunkFacts
<1>12. CASE Drain
  BY <1>12 DEF Drain
<1>13. CASE TakeRequest
  BY <1>13 DEF TakeRequest, FetcherReads
<1>14. CASE TakeBody
  BY <1>14 DEF TakeBody, FetcherReads
<1>15. CASE WriteLeading
  BY <1>15 DEF WriteLeading, Leading, AfterLeading, Announced
<1>16. CASE LeadingRefused
  BY <1>16 DEF LeadingRefused, AfterLeading
<1>17. CASE Continue
  BY <1>17, ContinueFacts DEF Continue, FetcherAwaits
<1>18. CASE ChunkAdmitted
  BY <1>18 DEF ChunkAdmitted, FetcherAwaits
<1>19. CASE ChunkRefused
  BY <1>19 DEF ChunkRefused, FetcherAwaits
<1>20. CASE ChunkRechecked
  BY <1>20 DEF ChunkRechecked, FetcherAwaits
<1>21. CASE PutChunk
  BY <1>21 DEF PutChunk
<1>22. CASE Abandon
  BY <1>22 DEF Abandon, FetcherAwaits
<1>23. CASE End
  BY <1>23 DEF End
<1>24. CASE Redirected
  BY <1>24 DEF Redirected, FetcherAwaits
<1>25. CASE NoStream
  BY <1>25 DEF NoStream, FetcherAwaits
<1>26. CASE HasStream
  BY <1>26 DEF HasStream, FetcherAwaits
<1>27. CASE BufferChunk
  BY <1>27 DEF BufferChunk, FetcherAwaits, Buffering
<1>28. CASE BufferDone
  BY <1>28 DEF BufferDone, FetcherAwaits
<1>29. CASE StreamChunk
  BY <1>29 DEF StreamChunk, FetcherAwaits
<1>30. CASE StreamDone
  BY <1>30 DEF StreamDone, FetcherAwaits
<1>31. CASE FetchFails
  BY <1>31 DEF FetchFails, FetcherAwaits
<1>32. CASE BufferFails
  BY <1>32 DEF BufferFails, FetcherAwaits
<1>33. CASE StreamFails
  BY <1>33 DEF StreamFails, FetcherAwaits
<1>34. CASE Die
  BY <1>34 DEF Die
<1>35. CASE UNCHANGED vars
  BY <1>35 DEF vars
<1>36. ASSUME NEW x \in Ids, ReadSpent(x)
      PROVE  Single'
  BY <1>36 DEF ReadSpent
<1>37. ASSUME NEW x \in Ids, CloseSpent(x)
      PROVE  Single'
  BY <1>37 DEF CloseSpent
<1>38. CASE Discarded
  BY <1>38 DEF Discarded, FetcherAwaits
<1> QED
  BY <1>1, <1>2, <1>3, <1>4, <1>5, <1>6, <1>7, <1>8, <1>9, <1>10, <1>11,
     <1>12, <1>13, <1>14, <1>15, <1>16, <1>17, <1>18, <1>19, <1>20,
     <1>21, <1>22, <1>23, <1>24, <1>25, <1>26, <1>27, <1>28, <1>29,
     <1>30, <1>31, <1>32, <1>33, <1>34, <1>35,
     <1>36, <1>37, <1>38
  DEF Next, GuestStep, FetcherStep, OriginStep, Finished

(* Every run starts in the invariant.                                      *)
LEMMA Initially == Init => IInv
<1> SUFFICES ASSUME Init PROVE IInv
  OBVIOUS
<1> USE AtomicsDoorAssumption DEF Init, Ids
<1>1. TypeOK
  <2>1. up \in AtMostOne(Asked) /\ down \in AtMostOne(Frame)
    BY SlotFacts
  <2>2. /\ cancel \in BOOLEAN /\ dead \in BOOLEAN /\ joined \in BOOLEAN
        /\ complete \in BOOLEAN /\ alarm \in BOOLEAN /\ cut \subseteq Ids
    OBVIOUS
  <2>3. /\ cur \in 0..Requests /\ asked \in 0..Requests
        /\ fx \in 0..Requests
        /\ made \in 0..MaxChunks /\ sent \in 0..MaxChunks
    OBVIOUS
  <2>4. head \in [Ids -> AtMostOne(Frame)]
    BY SlotFacts
  <2>5. got \in [Ids -> Seq(Frame)]
    OBVIOUS
  <2> QED
    BY <2>1, <2>2, <2>3, <2>4, <2>5 DEF TypeOK
<1>2. Guest /\ Asking /\ Counters /\ Awaited
  BY DEF Guest, Asking, Counters, Awaited, DeadlineCovers, Calling, Open,
         Unled, Led, Empty, HasHead, HasChunk
<1>3. Slot /\ Opened /\ Complete /\ Heads
  BY DEF Slot, Opened, Complete, Heads, Wanted, Open, Empty, HasHead,
         HasChunk, HasEnd, Unled
<1>4. AnswersKept /\ LengthsKept /\ NothingDropped /\ Alone
  BY DEF AnswersKept, LengthsKept, NothingDropped, Alone, Single, Strayed,
         Own, Open, Calling
<1> QED
  BY <1>1, <1>2, <1>3, <1>4 DEF IInv

(* Every step keeps it.                                                    *)
LEMMA InvStep ==
  ASSUME IInv, [Next]_vars
  PROVE  IInv'
BY TypeStep, GuestInvStep, AskingStep, CountersStep, SlotStep, AwaitedStep,
   OpenedStep, CompleteStep, HeadsStep, AnswersStep, LengthsStep, DroppedStep,
   SingleStep
DEF IInv, Alone

(* The inductive invariant holds in every reachable state, however the     *)
(* door is used.                                                           *)
THEOREM Invariance == Spec => []IInv
<1>1. Init => IInv
  BY Initially
<1>2. IInv /\ [Next]_vars => IInv'
  BY InvStep
<1> QED
  BY <1>1, <1>2, PTL DEF Spec

(* Every variable of the door keeps its type: the channels' frames, where  *)
(* each thread stands, and what has become of each request.                *)
THEOREM TypeCorrect == Spec => []TypeOK
<1>1. IInv => TypeOK
  BY DEF IInv
<1> QED
  BY <1>1, Invariance, PTL

(* However the door is used, a guest is given the head of its own request  *)
(* and the chunks of its own body in order, and after those at most one    *)
(* frame more, the last: what answered a later request, which was reset.   *)
THEOREM AnswersAreKept == Spec => []AnswersKept
<1>1. IInv => AnswersKept
  BY DEF IInv
<1> QED
  BY <1>1, Invariance, PTL

(* However the door is used, a Content-Length that beginExchange()         *)
(* announced is the number of the response's own chunks that the guest was *)
(* given by its end.                                                       *)
THEOREM LengthsAreKept == Spec => []LengthsKept
<1>1. IInv => LengthsKept
  BY DEF IInv
<1> QED
  BY <1>1, Invariance, PTL

(* A guest with one response open at a time is given the answer to its own *)
(* request, in order, and nothing else, though it may drop the response to *)
(* a HEAD, cancel, or lose its fetcher.                                    *)
THEOREM AnswersMine ==
  ASSUME OpenLimit = 1
  PROVE  Spec => []AnswerIsMine
<1>1. IInv => AnswerIsMine
  BY DEF IInv, AnswersKept, Alone, Single, Own, AnswerIsMine
<1> QED
  BY <1>1, Invariance, PTL

(* And the Content-Length it was told is the length of the body that it    *)
(* then read to its end.                                                   *)
THEOREM LengthsHonest ==
  ASSUME OpenLimit = 1
  PROVE  Spec => []LengthHonest
<1>1. IInv => LengthHonest
  BY DEF IInv, LengthsKept, Alone, Single, Own, LengthHonest
<1> QED
  BY <1>1, Invariance, PTL

(* A body read to its end has every chunk its origin produced, unless the  *)
(* origin failed inside it.                                                *)
THEOREM NoneDropped == Spec => []NothingDropped
<1>1. IInv => NothingDropped
  BY DEF IInv
<1> QED
  BY <1>1, Invariance, PTL

(* The fetcher never awaits the origin without a deadline, and no deadline *)
(* outlives its exchange.                                                  *)
THEOREM DeadlinesCover == Spec => []DeadlineCovers
<1>1. IInv => DeadlineCovers
  BY DEF IInv, Counters
<1> QED
  BY <1>1, Invariance, PTL

-----------------------------------------------------------------------------
(* With one response open at a time and no HEAD the guest and the fetcher  *)
(* keep step: each message the guest asks for is read to its end before    *)
(* the next request goes out.                                              *)
LEMMA InStepStep ==
  ASSUME OpenLimit = 1, "HEAD" \notin Methods, IInv, InStep, [Next]_vars
  PROVE  InStep'
<1>0. /\ TypeOK /\ Guest /\ Asking /\ Counters /\ Slot /\ Awaited
      /\ Opened /\ Complete /\ Heads
  BY DEF IInv
<1> USE <1>0, AtomicsDoorAssumption
    DEF TypeOK, wires, guest, fetcher, Guest, Asking, Counters, Slot,
        Awaited, Opened, Serving, Open, InStep, Quiet, HasHead, HasChunk,
        HasEnd, Empty, IsHead, Calling, Unled, Led, Waiting
<1>1. ASSUME NEW m \in Methods, Fetch(m)
      PROVE  InStep'
  <2>1. Open = {}
    BY <1>1, NoneOpen DEF Fetch
  <2>2. asked + 1 \in Ids /\ m # "HEAD"
    BY ONLY <1>0, <1>1, FetchFacts, "HEAD" \notin Methods DEF Fetch
  <2>3. Open' = {}
    BY ONLY <1>0, <1>1, <2>1, <2>2 DEF Fetch, Open, TypeOK
  <2> QED
    BY <1>1, <2>1, <2>2, <2>3 DEF Fetch
<1>2. ASSUME NEW m \in Methods, FetchDead(m)
      PROVE  InStep'
  <2>1. asked + 1 \in Ids /\ m # "HEAD" /\ Open' = Open
    BY <1>2, FetchFacts DEF FetchDead, Open
  <2> QED
    BY <1>2, <2>1 DEF FetchDead
<1>3. ASSUME NEW x \in Ids, Read(x)
      PROVE  InStep'
  BY <1>3 DEF Read
<1>4. ASSUME NEW x \in Ids, Close(x)
      PROVE  InStep'
  BY <1>4 DEF Close
<1>5. CASE CloseBackend
  BY <1>5 DEF CloseBackend
<1>6. CASE Notice
  BY <1>6 DEF Notice
<1>7. CASE WriteRequest
  BY <1>7 DEF WriteRequest
<1>8. CASE WriteBody
  BY <1>8 DEF WriteBody
<1>9. CASE ReadHead
  <2>1. CASE Opening
    BY <1>9, <2>1, ReadHeadFacts DEF ReadHead, Opening
  <2>2. CASE Dropping
    BY <1>9, <2>2, ReadHeadFacts DEF ReadHead, Dropping
  <2>3. CASE Refusing
    BY <1>9, <2>3, ReadHeadFacts DEF ReadHead, Refusing
  <2>4. CASE Garbling
    BY <1>9, <2>4, ReadHeadFacts DEF ReadHead, Garbling
  <2> QED
    BY <1>9, <2>1, <2>2, <2>3, <2>4, ReadHeadFacts
<1>10. CASE ReadEmpty
  BY <1>10, SortFacts DEF ReadEmpty
<1>11. CASE TakeChunk
  BY <1>11, TakeChunkFacts
<1>12. CASE Drain
  BY <1>12, SortFacts DEF Drain
<1>13. CASE TakeRequest
  BY <1>13 DEF TakeRequest, FetcherReads
<1>14. CASE TakeBody
  BY <1>14 DEF TakeBody, FetcherReads
<1>15. CASE WriteLeading
  BY <1>15, LeadingFacts DEF WriteLeading, AfterLeading, Announced
<1>16. CASE LeadingRefused
  BY <1>16 DEF LeadingRefused, AfterLeading
<1>17. CASE Continue
  BY <1>17, ContinueFacts DEF Continue, FetcherAwaits
<1>18. CASE ChunkAdmitted
  BY <1>18 DEF ChunkAdmitted, FetcherAwaits
<1>19. CASE ChunkRefused
  BY <1>19 DEF ChunkRefused, FetcherAwaits
<1>20. CASE ChunkRechecked
  BY <1>20 DEF ChunkRechecked, FetcherAwaits
<1>21. CASE PutChunk
  BY <1>21, ChunkFacts DEF PutChunk
<1>22. CASE Abandon
  BY <1>22 DEF Abandon, FetcherAwaits
<1>23. CASE End
  BY <1>23, EndFacts DEF End
<1>24. CASE Redirected
  BY <1>24 DEF Redirected, FetcherAwaits
<1>25. CASE NoStream
  BY <1>25 DEF NoStream, FetcherAwaits
<1>26. CASE HasStream
  BY <1>26 DEF HasStream, FetcherAwaits
<1>27. CASE BufferChunk
  BY <1>27 DEF BufferChunk, FetcherAwaits, Buffering
<1>28. CASE BufferDone
  BY <1>28 DEF BufferDone, FetcherAwaits
<1>29. CASE StreamChunk
  BY <1>29 DEF StreamChunk, FetcherAwaits
<1>30. CASE StreamDone
  BY <1>30 DEF StreamDone, FetcherAwaits
<1>31. CASE FetchFails
  BY <1>31 DEF FetchFails, FetcherAwaits
<1>32. CASE BufferFails
  BY <1>32 DEF BufferFails, FetcherAwaits
<1>33. CASE StreamFails
  BY <1>33 DEF StreamFails, FetcherAwaits
<1>34. CASE Die
  BY <1>34 DEF Die
<1>35. CASE UNCHANGED vars
  BY <1>35 DEF vars
<1>36. ASSUME NEW x \in Ids, ReadSpent(x)
      PROVE  InStep'
  BY <1>36 DEF ReadSpent
<1>37. ASSUME NEW x \in Ids, CloseSpent(x)
      PROVE  InStep'
  BY <1>37 DEF CloseSpent
<1>38. CASE Discarded
  BY <1>38 DEF Discarded, FetcherAwaits
<1> QED
  BY <1>1, <1>2, <1>3, <1>4, <1>5, <1>6, <1>7, <1>8, <1>9, <1>10, <1>11,
     <1>12, <1>13, <1>14, <1>15, <1>16, <1>17, <1>18, <1>19, <1>20,
     <1>21, <1>22, <1>23, <1>24, <1>25, <1>26, <1>27, <1>28, <1>29,
     <1>30, <1>31, <1>32, <1>33, <1>34, <1>35,
     <1>36, <1>37, <1>38
  DEF Next, GuestStep, FetcherStep, OriginStep, Finished

(* In step at the start, and for as long as the guest keeps to that use.   *)
THEOREM KeepsStep ==
  ASSUME OpenLimit = 1, "HEAD" \notin Methods
  PROVE  Spec => [](IInv /\ InStep)
<1>1. Init => IInv /\ InStep
  BY Initially
  DEF Init, InStep, Quiet, Open, Empty, Waiting, Calling, Ids
<1>2. (IInv /\ InStep) /\ [Next]_vars => (IInv /\ InStep)'
  BY InvStep, InStepStep
<1> QED
  BY <1>1, <1>2, PTL DEF Spec

(* Each fetch() then finds a head where it looks for one.                  *)
THEOREM HeadsParse ==
  ASSUME OpenLimit = 1, "HEAD" \notin Methods
  PROVE  Spec => []HeadParses
<1>1. IInv /\ InStep => HeadParses
  BY DEF InStep, HeadParses
<1> QED
  BY <1>1, KeepsStep, PTL

(* And with no response open both channels are empty, no flag is set, no   *)
(* timer runs, and the fetcher waits for a request.                        *)
THEOREM LeftClean ==
  ASSUME OpenLimit = 1, "HEAD" \notin Methods
  PROVE  Spec => []CleanBetweenExchanges
<1>1. IInv /\ InStep => CleanBetweenExchanges
  BY DEF IInv, Counters, DeadlineCovers, InStep, Quiet, Empty, Waiting,
         CleanBetweenExchanges
<1> QED
  BY <1>1, KeepsStep, PTL

(* And one of the two threads always has what the other waits for.         *)
THEOREM NeitherParked ==
  ASSUME OpenLimit = 1, "HEAD" \notin Methods
  PROVE  Spec => []NeverBothParked
<1>1. IInv /\ InStep => NeverBothParked
  <2> SUFFICES ASSUME IInv, InStep, GuestParked, FetcherParked PROVE FALSE
    BY DEF NeverBothParked
  <2> USE DEF IInv, InStep, Guest, Asking, Awaited, Calling, Waiting, Empty,
              HasEnd, HasHead, FetcherParked
  <2>1. CASE gpc \in {"request", "body"} /\ up # <<>>
    BY <2>1 DEF Quiet, Unled
  <2>2. CASE gpc \in {"head", "empty"} /\ down = <<>>
    BY <2>2 DEF Unled, Led
  <2>3. CASE gpc \in {"read", "drain"} /\ down = <<>>
    <3>1. cur \in Open
      BY <2>3 DEF Open
    <3>2. cur = fx /\ up = <<>> /\ fpc # "body" /\ Serving(cur)
      BY <3>1 DEF Opened
    <3> QED
      BY <2>3, <3>2 DEF Serving
  <2> QED
    BY <2>1, <2>2, <2>3 DEF GuestParked
<1> QED
  BY <1>1, KeepsStep, PTL

-----------------------------------------------------------------------------
(* The contract of a backend that blocks, for any use of the door.         *)

(* A call has its head in hand exactly while it reads the empty body that  *)
(* comes with it.                                                          *)
LEMMA RepliedStep ==
  ASSUME TypeOK, Guest, Asking, Heads, Replied, [Next]_vars
  PROVE  Replied'
<1> USE AtomicsDoorAssumption
    DEF TypeOK, Replied, Calling, Empty, wires, guest, fetcher
<1>1. ASSUME NEW m \in Methods, Fetch(m)
      PROVE  Replied'
  <2>1. asked + 1 \in Ids /\ asked + 1 > asked
    BY <1>1 DEF Fetch, Ids
  <2>2. head[asked + 1] = <<>>
    BY <2>1 DEF Asking, Heads
  <2> QED
    BY <1>1, <2>2 DEF Fetch
<1>2. ASSUME NEW m \in Methods, FetchDead(m)
      PROVE  Replied'
  BY <1>2 DEF FetchDead
<1>3. ASSUME NEW x \in Ids, Read(x)
      PROVE  Replied'
  BY <1>3 DEF Read
<1>4. ASSUME NEW x \in Ids, Close(x)
      PROVE  Replied'
  BY <1>4 DEF Close
<1>5. CASE CloseBackend
  BY <1>5 DEF CloseBackend
<1>6. CASE Notice
  BY <1>6 DEF Notice
<1>7. CASE WriteRequest
  BY <1>7 DEF WriteRequest
<1>8. CASE WriteBody
  BY <1>8 DEF WriteBody
<1>9. CASE ReadHead
  <2>1. cur \in Ids
    BY <1>9 DEF ReadHead, Guest
  <2>2. <<down[1]>> # <<>>
    OBVIOUS
  <2> QED
    BY <1>9, <2>1, <2>2 DEF ReadHead
<1>10. CASE ReadEmpty
  BY <1>10 DEF ReadEmpty
<1>11. CASE TakeChunk
  BY <1>11 DEF TakeChunk
<1>12. CASE Drain
  BY <1>12 DEF Drain
<1>13. CASE TakeRequest
  BY <1>13 DEF TakeRequest, FetcherReads
<1>14. CASE TakeBody
  BY <1>14 DEF TakeBody, FetcherReads
<1>15. CASE WriteLeading
  <2>1. /\ Leading(fpc).kind = "head" \/ Leading(fpc).n = 0
        /\ down' = <<Leading(fpc)>> /\ down'[1] = Leading(fpc)
    BY <1>15 DEF WriteLeading, Leading, F
  <2> QED
    BY <1>15, <2>1 DEF WriteLeading
<1>16. CASE LeadingRefused
  BY <1>16 DEF LeadingRefused
<1>17. CASE Continue
  BY <1>17 DEF Continue, FetcherAwaits
<1>18. CASE ChunkAdmitted
  BY <1>18 DEF ChunkAdmitted, FetcherAwaits
<1>19. CASE ChunkRefused
  BY <1>19 DEF ChunkRefused, FetcherAwaits
<1>20. CASE ChunkRechecked
  BY <1>20 DEF ChunkRechecked, FetcherAwaits
<1>21. CASE PutChunk
  <2>1. down' = <<F(fx, "chunk", sent + 1)>> /\ down'[1].kind = "chunk"
    BY <1>21 DEF PutChunk, F
  <2> QED
    BY <1>21, <2>1 DEF PutChunk
<1>22. CASE Abandon
  BY <1>22 DEF Abandon, FetcherAwaits
<1>23. CASE End
  <2>1. down' = <<F(fx, "end", 0)>> /\ down'[1].kind = "end"
    BY <1>23 DEF End, F
  <2> QED
    BY <1>23, <2>1 DEF End
<1>24. CASE Redirected
  BY <1>24 DEF Redirected, FetcherAwaits
<1>25. CASE NoStream
  BY <1>25 DEF NoStream, FetcherAwaits
<1>26. CASE HasStream
  BY <1>26 DEF HasStream, FetcherAwaits
<1>27. CASE BufferChunk
  BY <1>27 DEF BufferChunk, FetcherAwaits
<1>28. CASE BufferDone
  BY <1>28 DEF BufferDone, FetcherAwaits
<1>29. CASE StreamChunk
  BY <1>29 DEF StreamChunk, FetcherAwaits
<1>30. CASE StreamDone
  BY <1>30 DEF StreamDone, FetcherAwaits
<1>31. CASE FetchFails
  BY <1>31 DEF FetchFails, FetcherAwaits
<1>32. CASE BufferFails
  BY <1>32 DEF BufferFails, FetcherAwaits
<1>33. CASE StreamFails
  BY <1>33 DEF StreamFails, FetcherAwaits
<1>34. CASE Die
  BY <1>34 DEF Die
<1>35. CASE UNCHANGED vars
  BY <1>35 DEF vars
<1>36. ASSUME NEW x \in Ids, ReadSpent(x)
      PROVE  Replied'
  BY <1>36 DEF ReadSpent
<1>37. ASSUME NEW x \in Ids, CloseSpent(x)
      PROVE  Replied'
  BY <1>37 DEF CloseSpent
<1>38. CASE Discarded
  BY <1>38 DEF Discarded, FetcherAwaits
<1> QED
  BY <1>1, <1>2, <1>3, <1>4, <1>5, <1>6, <1>7, <1>8, <1>9, <1>10, <1>11,
     <1>12, <1>13, <1>14, <1>15, <1>16, <1>17, <1>18, <1>19, <1>20, <1>21,
     <1>22, <1>23, <1>24, <1>25, <1>26, <1>27, <1>28, <1>29, <1>30, <1>31,
     <1>32, <1>33, <1>34, <1>35,
     <1>36, <1>37, <1>38
  DEF Next, GuestStep, FetcherStep, OriginStep, Finished

(* Every step of the door is one that the contract allows: what the guest  *)
(* is given changes when one of its calls takes a frame, and in no other   *)
(* step.                                                                   *)
LEMMA KeepsContract ==
  ASSUME IInv, IInv', Replied, [Next]_vars
  PROVE  [Door!Next]_Door!vars
<1> USE AtomicsDoorAssumption DEF wires, guest, fetcher, Door!vars
<1>0. TypeOK /\ TypeOK'
  BY DEF IInv
<1>1. ASSUME NEW m \in Methods, Fetch(m)
      PROVE  [Door!Next]_Door!vars
  <2>1. \A x \in Ids : resp[x] # "asking"
    BY <1>1 DEF Fetch, IInv, Guest, Calling
  <2>2. Door!Fetch(m)
    BY <1>1, <2>1 DEF Fetch, Door!Fetch, Door!Becomes, Door!Ids, Ids
  <2> QED
    BY <2>2 DEF Door!Next
<1>2. ASSUME NEW m \in Methods, FetchDead(m)
      PROVE  [Door!Next]_Door!vars
  <2>1. \A x \in Ids : resp[x] # "asking"
    BY <1>2 DEF FetchDead, IInv, Guest, Calling
  <2>2. Door!Fetch(m)
    BY <1>2, <2>1 DEF FetchDead, Door!Fetch, Door!Becomes, Door!Ids, Ids
  <2> QED
    BY <2>2 DEF Door!Next
<1>3. ASSUME NEW x \in Ids, Read(x)
      PROVE  [Door!Next]_Door!vars
  BY <1>3 DEF Read
<1>4. ASSUME NEW x \in Ids, Close(x)
      PROVE  [Door!Next]_Door!vars
  BY <1>4 DEF Close
<1>5. CASE CloseBackend
  <2>1. Door!Lose
    BY <1>5 DEF CloseBackend, Door!Lose
  <2> QED
    BY <2>1 DEF Door!Next
<1>6. CASE Notice
  <2>1. Door!Lose
    BY <1>6 DEF Notice, Door!Lose
  <2> QED
    BY <2>1 DEF Door!Next
<1>7. CASE WriteRequest
  BY <1>7 DEF WriteRequest
<1>8. CASE WriteBody
  BY <1>8 DEF WriteBody
<1>9. CASE ReadHead
  <2>1. /\ cur \in Ids /\ resp[cur] = "asking" /\ head[cur] = <<>>
        /\ down # <<>> /\ down[1] \in Frame
        /\ UNCHANGED <<dead, asked, method, got>>
    BY <1>0, <1>9, SlotFacts
    DEF ReadHead, IInv, Guest, Calling, Replied, TypeOK
  <2>2. cur \in Door!Ids
    BY <2>1 DEF Door!Ids, Ids
  <2>3. CASE ~Last(down[1])
    BY <1>9, <2>1, <2>3 DEF ReadHead
  <2>4. CASE Last(down[1]) /\ ~Parses(down[1])
    <3>1. Door!Reset(cur)
      BY <1>9, <2>1, <2>4 DEF ReadHead, Door!Reset, Door!Becomes
    <3> QED
      BY <2>2, <3>1 DEF Door!Next
  <2>5. CASE Last(down[1]) /\ Parses(down[1])
    <3>1. /\ head' = [head EXCEPT ![cur] = <<down[1]>>]
          /\ resp' = [resp EXCEPT ![cur] = Delivered(down[1])]
      BY <1>9, <2>5 DEF ReadHead
    <3>2. head'[cur] = <<down[1]>> /\ head'[cur] # <<>>
          /\ head'[cur][1] = down[1]
      BY <1>0, <2>1, <3>1 DEF TypeOK
    <3>3. down[1].x = cur
      BY <2>1, <3>2 DEF IInv, AnswersKept
    <3>4. down[1] = Door!F(cur, down[1].kind, down[1].n)
      BY <2>1, <3>3, FieldFacts DEF F, Door!F
    <3>5. down[1].n \in 0..Door!Unknown
      BY <2>1, FieldFacts DEF Unknown, Door!Unknown
    <3>6. CASE down[1].kind = "head"
      <4>1. Door!Headed(cur, down[1].n)
        BY <2>1, <3>1, <3>4, <3>6
        DEF Delivered, Door!Headed, Door!Becomes
      <4> QED
        BY <2>2, <3>5, <4>1 DEF Door!Next
    <3>7. CASE down[1].kind # "head"
      <4>1. down[1].kind \in {"error", "redirect"}
        BY <2>5, <3>7 DEF Parses, IsHead
      <4>2. resp' = resp
        BY <1>0, <2>1, <3>1, <3>7 DEF Delivered, TypeOK
      <4>3. down[1].n = 0
        BY <2>1, <4>1 DEF Replied, Empty
      <4>4. Door!Told(cur, down[1].kind)
        BY <2>1, <3>1, <3>4, <4>2, <4>3 DEF Door!Told
      <4> QED
        BY <2>2, <4>1, <4>4 DEF Door!Next
    <3> QED
      BY <3>6, <3>7
  <2> QED
    BY <2>3, <2>4, <2>5
<1>10. CASE ReadEmpty
  <2>1. /\ cur \in Ids /\ resp[cur] = "asking" /\ head[cur] # <<>>
    BY <1>10 DEF ReadEmpty, IInv, Guest, Calling, Replied
  <2>2. CASE Last(down[1])
    <3>1. Door!Failed(cur)
      BY <1>10, <2>1, <2>2 DEF ReadEmpty, Door!Failed, Door!Becomes
    <3> QED
      BY <2>1, <3>1 DEF Door!Next, Door!Ids, Ids
  <2>3. CASE ~Last(down[1])
    BY <1>10, <2>3 DEF ReadEmpty
  <2> QED
    BY <2>2, <2>3
<1>11. CASE TakeChunk
  <2>1. /\ cur \in Ids /\ resp[cur] = "open" /\ down # <<>>
        /\ down[1] \in Frame /\ cur \in Open
    BY <1>0, <1>11, SlotFacts DEF TakeChunk, IInv, Guest, TypeOK, Open
  <2>2. cur \in Door!Ids
    BY <2>1 DEF Door!Ids, Ids
  <2>3. CASE HasEnd
    <3>1. /\ resp' = [resp EXCEPT ![cur] = "ended"] /\ resp'[cur] = "ended"
          /\ UNCHANGED <<dead, asked, method, head, got>>
      BY <1>0, <1>11, <2>1, <2>3 DEF TakeChunk, TypeOK, HasEnd, Last
    <3>2. Door!AllRead(cur)
      BY <1>11, <2>3, ReadAllFacts, SortFacts
      DEF IInv, Door!AllRead, Door!Sized, Door!Unknown, Unknown
    <3>3. Door!End(cur)
      BY <2>1, <3>1, <3>2 DEF Door!End, Door!Becomes
    <3> QED
      BY <2>2, <3>3 DEF Door!Next
  <2>4. CASE HasChunk
    <3>1. /\ got' = [got EXCEPT ![cur] = Append(got[cur], down[1])]
          /\ UNCHANGED <<dead, asked, method, resp, head>>
      BY <1>11, <2>4, SortFacts, TakeChunkFacts DEF IInv
    <3>2. got[cur] \in Seq(Frame) /\ got'[cur] = Append(got[cur], down[1])
      BY <1>0, <2>1, <3>1 DEF TypeOK
    <3>3. /\ Len(got'[cur]) = Len(got[cur]) + 1 /\ Len(got[cur]) \in Nat
          /\ got'[cur][Len(got[cur]) + 1] = down[1]
      BY <2>1, <3>2, GotFacts
    <3>4. /\ cur = fx /\ Serving(cur) /\ down[1].x = cur
          /\ down[1].kind = "chunk" /\ down[1].n = sent
      BY <1>11, <2>1, <2>4 DEF HasChunk, Slot, IInv, Opened, Left
    <3>5. sent = Len(got[cur]) + 1
      BY <1>11, <2>4, <3>4 DEF TakeChunk, Serving
    <3>6. down[1] = Door!F(cur, "chunk", Len(got[cur]) + 1)
      BY <2>1, <3>4, <3>5, FieldFacts DEF F, Door!F
    <3>7. /\ Len(got[cur]) < MaxChunks
          /\ Door!Sized(cur) => Len(got[cur]) < head[cur][1].n
      <4>1. sent <= made /\ made <= MaxChunks /\ sent \in Nat /\ made \in Nat
        BY <1>0 DEF IInv, Counters, TypeOK
      <4>2. Door!Sized(cur) => head[cur][1].n = made
        BY <3>4 DEF Serving, Door!Sized, Door!Unknown, Unknown
      <4> QED
        BY <3>3, <3>5, <4>1, <4>2
    <3>8. Door!Chunk(cur)
      BY <2>1, <3>1, <3>6, <3>7 DEF Door!Chunk
    <3> QED
      BY <2>2, <3>8 DEF Door!Next
  <2>5. CASE HasHead
    <3>1. /\ got' = [got EXCEPT ![cur] = Append(got[cur], down[1])]
          /\ resp' = [resp EXCEPT ![cur] = "spent"]
          /\ UNCHANGED <<dead, asked, method, head>>
      BY <1>11, <2>5, SortFacts, TakeChunkFacts DEF IInv
    <3>2. IsHead(down[1])
      BY <2>5 DEF HasHead
    <3>3. Door!AllRead(cur)
      BY <1>11, <2>5, ReadAllFacts, SortFacts
      DEF IInv, Door!AllRead, Door!Sized, Door!Unknown, Unknown
    <3>4. /\ fx \in Ids /\ down[1].x = fx
          /\ resp[fx] \in {"asking", "garbled"}
      BY <2>5 DEF IInv, Slot
    <3>5. gpc = "read" /\ cur # fx
      BY <1>11, <2>1, <2>5 DEF TakeChunk, IInv, Opened, Serving
    <3>6. resp[fx] = "garbled" /\ fx > cur
      BY <2>1, <3>4, <3>5 DEF IInv, Guest, Calling, Heads, Ids
    <3>7. OpenLimit > 1
      <4>1. OpenLimit # 1
        BY <2>1, <3>5 DEF IInv, Alone, Single
      <4> QED
        BY <4>1
    <3>8. /\ down[1].kind \in {"head", "error", "redirect"}
          /\ down[1].n \in 0..Door!Unknown /\ fx \in Door!Ids
          /\ down[1] = Door!F(fx, down[1].kind, down[1].n)
      BY <2>1, <3>2, <3>4, FieldFacts
      DEF IsHead, F, Door!F, Unknown, Door!Unknown, Ids, Door!Ids
    <3>9. Door!Stray(cur, fx, down[1].kind, down[1].n)
      BY <2>1, <3>1, <3>3, <3>6, <3>7, <3>8 DEF Door!Stray, Door!Becomes
    <3> QED
      BY <2>2, <3>8, <3>9 DEF Door!Next
  <2> QED
    BY <1>0, <2>1, <2>3, <2>4, <2>5, SortFacts DEF Empty
<1>12. CASE Drain
  <2>1. cur \in Ids /\ resp[cur] = "open"
    BY <1>12 DEF Drain, IInv, Guest
  <2>2. CASE Last(down[1])
    <3>1. Door!LetGo(cur)
      BY <1>12, <2>1, <2>2 DEF Drain, Door!LetGo, Door!Becomes
    <3> QED
      BY <2>1, <3>1 DEF Door!Next, Door!Ids, Ids
  <2>3. CASE ~Last(down[1])
    BY <1>12, <2>3 DEF Drain
  <2> QED
    BY <2>2, <2>3
<1>13. CASE TakeRequest
  BY <1>13 DEF TakeRequest, FetcherReads
<1>14. CASE TakeBody
  BY <1>14 DEF TakeBody, FetcherReads
<1>15. CASE WriteLeading
  BY <1>15 DEF WriteLeading
<1>16. CASE LeadingRefused
  BY <1>16 DEF LeadingRefused
<1>17. CASE Continue
  BY <1>17 DEF Continue, FetcherAwaits
<1>18. CASE ChunkAdmitted
  BY <1>18 DEF ChunkAdmitted, FetcherAwaits
<1>19. CASE ChunkRefused
  BY <1>19 DEF ChunkRefused, FetcherAwaits
<1>20. CASE ChunkRechecked
  BY <1>20 DEF ChunkRechecked, FetcherAwaits
<1>21. CASE PutChunk
  BY <1>21 DEF PutChunk
<1>22. CASE Abandon
  BY <1>22 DEF Abandon, FetcherAwaits
<1>23. CASE End
  BY <1>23 DEF End
<1>24. CASE Redirected
  BY <1>24 DEF Redirected, FetcherAwaits
<1>25. CASE NoStream
  BY <1>25 DEF NoStream, FetcherAwaits
<1>26. CASE HasStream
  BY <1>26 DEF HasStream, FetcherAwaits
<1>27. CASE BufferChunk
  BY <1>27 DEF BufferChunk, FetcherAwaits
<1>28. CASE BufferDone
  BY <1>28 DEF BufferDone, FetcherAwaits
<1>29. CASE StreamChunk
  BY <1>29 DEF StreamChunk, FetcherAwaits
<1>30. CASE StreamDone
  BY <1>30 DEF StreamDone, FetcherAwaits
<1>31. CASE FetchFails
  BY <1>31 DEF FetchFails, FetcherAwaits
<1>32. CASE BufferFails
  BY <1>32 DEF BufferFails, FetcherAwaits
<1>33. CASE StreamFails
  BY <1>33 DEF StreamFails, FetcherAwaits
<1>34. CASE Die
  BY <1>34 DEF Die
<1>35. CASE UNCHANGED vars
  BY <1>35 DEF vars
<1>36. ASSUME NEW x \in Ids, ReadSpent(x)
      PROVE  [Door!Next]_Door!vars
  <2>1. Door!Spent(x, "ended")
    BY <1>36 DEF ReadSpent, Door!Spent, Door!Becomes
  <2> QED
    BY <2>1 DEF Door!Next, Door!Ids, Ids
<1>37. ASSUME NEW x \in Ids, CloseSpent(x)
      PROVE  [Door!Next]_Door!vars
  <2>1. Door!Spent(x, "closed")
    BY <1>37 DEF CloseSpent, Door!Spent, Door!Becomes
  <2> QED
    BY <2>1 DEF Door!Next, Door!Ids, Ids
<1>38. CASE Discarded
  BY <1>38 DEF Discarded, FetcherAwaits
<1> QED
  BY <1>1, <1>2, <1>3, <1>4, <1>5, <1>6, <1>7, <1>8, <1>9, <1>10, <1>11,
     <1>12, <1>13, <1>14, <1>15, <1>16, <1>17, <1>18, <1>19, <1>20, <1>21,
     <1>22, <1>23, <1>24, <1>25, <1>26, <1>27, <1>28, <1>29, <1>30, <1>31,
     <1>32, <1>33, <1>34, <1>35,
     <1>36, <1>37, <1>38
  DEF Next, GuestStep, FetcherStep, OriginStep, Finished

(* The two threads and their channels are a backend that blocks: whatever  *)
(* the guest does, it is given what BlockingDoor says.                     *)
THEOREM RefinesDoor == Spec => DoorSpec
<1>1. Init => Door!Init
  BY DEF Init, Door!Init, Door!Ids, Ids
<1>2. Init => Replied
  BY DEF Init, Replied, Calling, Empty
<1>3. (IInv /\ Replied) /\ [Next]_vars => Replied'
  BY RepliedStep DEF IInv
<1>4. (IInv /\ Replied) /\ IInv' /\ [Next]_vars => [Door!Next]_Door!vars
  BY KeepsContract
<1> QED
  BY <1>1, <1>2, <1>3, <1>4, Invariance, PTL DEF Spec, DoorSpec, Door!Spec
=============================================================================
