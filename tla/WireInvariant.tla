--------------------------- MODULE WireInvariant ---------------------------
(***************************************************************************)
(* What Wire keeps true at every step, so that its properties hold:        *)
(*                                                                         *)
(*   NInv  policy.mjs's table of names: an address given out goes on       *)
(*         standing for the name it was given for, unless the embedder's   *)
(*         resolver answers it for another: then for one of those          *)
(*   CInv  the request parser: the requests made so far are the messages   *)
(*         that are whole, and the buffer is what follows them on the wire *)
(*   SInv  the response parser: what is kept of the body is what the       *)
(*         server wrote up to where the buffer begins, until its host is   *)
(*         told                                                            *)
(***************************************************************************)
EXTENDS Wire

(* The next alias is a number that has not been used.                      *)
Counter == next \in 1..(AliasMax + 1)

(* An address is in the table once it has been given out, for a name that *)
(* it was given for.                                                       *)
Table == DOMAIN names = {p[2] : p \in gave}
Entries == \A a \in DOMAIN names : \E p \in gave : p[2] = a /\ p[1] = names[a]

(* An address that the resolver did not answer is an alias, of a number    *)
(* below the next, and of one name.                                        *)
Kept == \A p \in gave : \/ p[3] = "resolver"
                        \/ \E id \in 1..(next - 1) : p[2] = Alias(id)
Unshared == \A p, q \in gave :
              p[2] = q[2] => p[1] = q[1] \/ Resolved(p[2])

(* What the client connected to: an address it was given, or one written   *)
(* as such.  No request is parsed before it has.                       *)
Dialled ==
  addr # <<>> => \/ \E p \in gave : addr[1] = p[2] /\ meant[1] = Host(p[1])
                 \/ addr[1] = meant[1] /\ addr[1] \in {Literal, Host(1)}
Parsed == (side = "client" /\ pc = "take") \/ pending # <<>> => addr # <<>>

NInv == /\ Counter /\ Table /\ Entries /\ Kept /\ Unshared
        /\ Dialled /\ Parsed

(* What resolve() answered stands, whatever is resolved later: an address  *)
(* it gave for a name is that name's and no other's, or, once the          *)
(* embedder's resolver has answered the address, that of a name that it    *)
(* was given for.                                                          *)
NamesStand == \A p \in gave : NameOf(p[2]) \in StandsFor(p[2], Host(p[1]))

-----------------------------------------------------------------------------
(* Both parsers: what has been written and not yet been taken is in the    *)
(* buffer.                                                                 *)
Kinds == {"CR", "LF", "byte", "request", "status", "host", "length",
          "encoding", "other", "fold", "junk", "size"}
Tokens == [t : Kinds, v : Int]

Split(lines) == [k \in 1..Len(lines) |-> <<lines[k]>>]
Sent == /\ side \in {"client", "server"} /\ pc \in {"out", "take"}
        /\ sending \in First(side) \X Second(side)
        /\ pos \in 0..Len(Stream)
Buffered(at) == at \in 0..pos /\ buf = SubSeq(Stream, at + 1, pos)

(* The client's: as many whole messages as there are requests, and then    *)
(* the head of the one being parsed, or of the one that poisoned it.       *)
Begin(i) == IF i = 3 THEN Len(Stream) ELSE Start(i)
Current == sending[Len(pending) + 1]
ClientAt == Begin(Len(pending) + 1)
            + IF head # <<>> \/ error THEN HeadLen(Current) ELSE 0

Asking == [target : Int, host : Int, body : Seq(Tokens)]
Answered ==
  /\ pending \in Seq(Asking) /\ Len(pending) \in 0..2
  /\ \A i \in 1..Len(pending) :
       /\ sending[i].is = "request" /\ AsksFor(pending[i]) = sending[i].host
       /\ pending[i].body = sending[i].payload
HeadKnown ==
  /\ error \in BOOLEAN
  /\ head # <<>> \/ error => Len(pending) < 2
  /\ error => head = <<>> /\ Current.is = "error" /\ pc = "out"
  /\ head = <<>> => needed = 0
  /\ head # <<>> => /\ Current.is = "request" /\ head = Split(Current.lines)
                    /\ needed = Len(Current.tail)
ClientWaits ==
  pc = "out" /\ ~error =>
    IF head = <<>> THEN EndOfHead(buf) = 0 ELSE Len(buf) < needed
CInv == side = "client" =>
          /\ mode = "none" /\ body = <<>> /\ answer = <<>> /\ ~closed
          /\ Answered /\ HeadKnown /\ ClientWaits /\ Buffered(ClientAt)

(* The server's: the head, and then its body in one of three forms.        *)
Writing == sending[1]
Unread == head = <<>> /\ mode = "none" /\ needed = 0 /\ body = <<>>
InSized == /\ mode = "length" /\ Writing.is = "response"
           /\ Writing.ends = Len(Writing.payload)
           /\ Writing.tail = Writing.payload
           /\ needed = Writing.ends /\ Len(body) \in 0..needed
           /\ body = SubSeq(Writing.payload, 1, Len(body))
InClose == /\ mode = "close" /\ Writing.ends = None
           /\ Writing.is = "response"
           /\ HeadLen(Writing) + Len(body) <= pos
           /\ body = SubSeq(Stream, HeadLen(Writing) + 1,
                            HeadLen(Writing) + Len(body))

(* Chunks: where each begins in the tail, and what they join up to.        *)
Off(cs, k) == IF k = 1 THEN 0
              ELSE IF k = 2 THEN 5 + Len(cs[1])
              ELSE 10 + Len(cs[1]) + Len(cs[2])
Joined(cs, k) == IF k = 0 THEN <<>>
                 ELSE IF k = 1 THEN cs[1]
                 ELSE cs[1] \o cs[2]
LineAt(s, c, token) == /\ Len(s) >= c + 3
                       /\ s[c + 1] = token /\ s[c + 2] = CR /\ s[c + 3] = LF
ChunkAt(s, c, bytes) ==
  /\ bytes # <<>> /\ Len(s) >= c + 5 + Len(bytes)
  /\ LineAt(s, c, Token("size", Len(bytes)))
  /\ \A j \in 1..Len(bytes) : s[(c + 3) + j] = bytes[j]
  /\ s[c + 4 + Len(bytes)] = CR /\ s[c + 5 + Len(bytes)] = LF
Layout(m, cs) ==
  LET n == Len(cs) IN
  /\ n \in 1..2
  /\ \A k \in 1..n : /\ cs[k] \in Seq({Byte, CR, LF})
                      /\ ChunkAt(m.tail, Off(cs, k), cs[k])
  /\ m.ends = Off(cs, n + 1) + 3
  /\ \/ /\ m.is = "response" /\ m.payload = Joined(cs, n)
        /\ LineAt(m.tail, Off(cs, n + 1), Token("size", 0))
     \/ /\ m.is = "error" /\ m.payload = <<>>
        /\ LineAt(m.tail, Off(cs, n + 1), Token("junk", 0))

SizeDue(cs, k, at) == /\ needed = 0 /\ body = Joined(cs, k - 1)
                      /\ at = HeadLen(Writing) + Off(cs, k)
InChunk(cs, k, j, at) ==
  /\ needed = Len(cs[k]) - j
  /\ body = Joined(cs, k - 1) \o SubSeq(cs[k], 1, j)
  /\ at = HeadLen(Writing) + Off(cs, k) + 3 + j
Chunkings == {<<a, b>> : a, b \in Bodies \ {<<>>}} \cup {<< <<Byte>> >>}
InChunks(at) ==
  /\ mode = "chunked"
  /\ \E cs \in Chunkings :
       /\ Layout(Writing, cs)
       /\ \/ \E k \in 1..(Len(cs) + 1) : SizeDue(cs, k, at)
          \/ \E k \in 1..Len(cs) :
               \E j \in 0..Len(cs[k]) : InChunk(cs, k, j, at)

ServerWaits ==
  pc = "out" => CASE mode = "none"    -> EndOfHead(buf) = 0
                  [] mode = "length"  -> buf = <<>> /\ Len(body) < needed
                  [] mode = "chunked" -> \/ buf = <<>>
                                         \/ needed = 0 /\ EndOf(CRLF, buf) = 0
                  [] mode = "close"   -> buf = <<>>
ServerAt == pos - Len(buf)
Reading == /\ Buffered(ServerAt) /\ ~closed /\ ServerWaits
           /\ \/ Unread /\ ServerAt = 0
              \/ head # <<>> /\ InSized /\ ServerAt = HeadLen(Writing) + Len(body)
              \/ head # <<>> /\ InClose /\ ServerAt = HeadLen(Writing) + Len(body)
              \/ head # <<>> /\ InChunks(ServerAt)
SInv == side = "server" =>
          /\ pending = <<>> /\ error = FALSE
          /\ IF answer = <<>> THEN Reading ELSE pc = "out" /\ ResponseExact
=============================================================================
