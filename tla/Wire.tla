-------------------------------- MODULE Wire --------------------------------
(***************************************************************************)
(* src/src/codec.mjs between a guest's writes and what they mean, with the *)
(* part of its callers that decides what that is:                          *)
(*                                                                         *)
(*   client  the request parser under core.mjs's send(), and where plan()  *)
(*           sends what it parsed, by policy.mjs's table of names          *)
(*   server  the response parser under serve.mjs's send() and close()      *)
(*                                                                         *)
(* A write may stop anywhere.  The wire is a sequence of tokens: CR, LF, a *)
(* byte of a body, or the text of one line.  Each pass of take()'s loops   *)
(* is a step; pc says whether the guest's call has returned.               *)
(***************************************************************************)
EXTENDS Integers, Sequences, FiniteSets, FiniteSetsExt

CONSTANTS Names,    \* bound: the names a guest asks for are 1..Names
          Base,     \* the values of one part of an alias: 256 in policy.mjs
          Given,    \* the addresses the embedder's resolver may answer
          Bodies    \* what a message may carry

Name == 1..Names
AliasMax == Base * Base - 1

Token(t, v) == [t |-> t, v |-> v]
CR == Token("CR", 0)
LF == Token("LF", 0)
Byte == Token("byte", 0)
CRLF == <<CR, LF>>

ASSUME WireAssumption == /\ Names \in Nat /\ Base \in Nat \ {0, 1}
                         /\ Bodies \subseteq Seq({Byte, CR, LF})

NaN == -1   \* a header whose value is no number of the kind expected
None == -2  \* no such header

VARIABLES
  side,     \* whether the guest is the client or the server
  sending,  \* the messages it writes, one after the other
  pos,      \* tokens of them written
  pc,       \* out, or take: inside its call
  buf,      \* the parser's buffer
  head,     \* of the message being parsed: <<>>, or its lines
  needed,   \* bytes of its body, or of its chunk, still to come
  mode,     \* how that response's body ends
  body,     \* what has been kept of it
  pending,  \* the client's requests, in the order parsed
  error,    \* whether its connection is poisoned
  answer,   \* <<>>, or what the server's host was told
  closed,   \* whether the server has closed
  addrs,    \* policy.mjs: the address of each name given one
  names,    \* and the name of each address given out
  next,     \* the next alias
  gave,     \* history: the names and addresses resolve() has answered, and
            \* whether by the embedder's resolver or by an alias
  addr,     \* what the client connected to: <<>>, or one address
  meant     \* history: the host it meant by it

parsing == <<buf, head, needed, mode, body>>
naming == <<addrs, names, next, gave>>
dialled == <<addr, meant>>
told == <<pending, error, answer>>
vars == <<side, sending, pos, pc, parsing, told, closed, naming, dialled>>

-----------------------------------------------------------------------------
(* Reading lines out of tokens. *)

Ends(mark, b) == {i \in Len(mark)..Len(b) :
                    \A j \in 1..Len(mark) : b[(i - Len(mark)) + j] = mark[j]}
EndOf(mark, b) == IF Ends(mark, b) = {} THEN 0 ELSE Min(Ends(mark, b))

(* endOfHead(): how many tokens the first head is, 0 while incomplete. *)
Blank == <<CR, LF, CR, LF>>
EndOfHeadLast(b) ==  \* mutant: the last blank line in the buffer
  IF Ends(Blank, b) = {} THEN 0 ELSE Max(Ends(Blank, b))
EndOfHead(b) == EndOf(Blank, b)

After(b, n) == SubSeq(b, n + 1, Len(b))

(* text.split('\r\n') of a head that ends in CRLF, without its last ''. *)
Nth(S, k) == CHOOSE i \in S : Cardinality({j \in S : j <= i}) = k
Lines(text) ==
  LET ends == Ends(CRLF, text)
      End(k) == IF k = 0 THEN 0 ELSE Nth(ends, k)
  IN [k \in 1..Cardinality(ends) |-> SubSeq(text, End(k - 1) + 1, End(k) - 2)]

HeaderLine(line) == Len(line) = 1 /\ line[1].t \in
                      {"host", "length", "encoding", "other"}
FoldLine(line) == Len(line) = 1 /\ line[1].t = "fold"

(* parseHead() and parseStatus(): the lines after the first are headers,   *)
(* or go on with the one before.                                           *)
HeadOk(lines, first) ==
  /\ Len(lines[1]) = 1 /\ lines[1][1].t = first
  /\ \A k \in 2..Len(lines) :
       lines[k] = <<>> \/ HeaderLine(lines[k]) \/ (FoldLine(lines[k]) /\ k > 2)

(* headerValue(): the first of that name, another if a line goes on with   *)
(* it, or what stands for none.                                            *)
HeaderValue(lines, name, none) ==
  LET at == {k \in 2..Len(lines) :
               HeaderLine(lines[k]) /\ lines[k][1].t = name}
  IN IF at = {} THEN none
     ELSE IF Min(at) < Len(lines) /\ FoldLine(lines[Min(at) + 1]) THEN NaN
     ELSE lines[Min(at)][1].v

-----------------------------------------------------------------------------
(* The messages a guest writes.  A body may look like the end of a head.   *)

HeadOf(lines) ==
  LET n == 3 * Len(lines) IN
  [i \in 1..(n + 2) |->
     IF i <= n THEN <<lines[(i + 2) \div 3], CR, LF>>[((i - 1) % 3) + 1]
               ELSE CRLF[i - n]]

(* Of each: the lines of its head, the rest, how much of the rest          *)
(* completes it, what it is and what it carries.                           *)
Message(lines, tail, ends, is, host, payload) ==
  [lines |-> lines, tail |-> tail, ends |-> ends, is |-> is, host |-> host,
   payload |-> payload]

Length(n) == Token("length", n)
Request(target, host, bytes) ==
  Message(<<Token("request", target)>>
            \o (IF host = 0 THEN <<>> ELSE <<Token("host", host)>>)
            \o (IF bytes = <<>> THEN <<>> ELSE <<Length(Len(bytes))>>),
          bytes, Len(bytes), "request",
          IF target # 0 THEN target ELSE host, bytes)
Folded == Message(<<Token("request", 0), Token("other", 0), Token("fold", 0),
                    Length(1)>>, <<Byte>>, 1, "request", 0, <<Byte>>)
GoodRequests == {Request(0, h, b) : h \in 0..1, b \in Bodies}
                \cup {Request(2, 1, <<>>), Folded}

Refused(lines) == Message(lines, <<>>, 0, "error", 0, <<>>)
BadRequests ==
  {Refused(<<Token("other", 0)>>)}
  \cup {Refused(<<Token("request", 0), line>>) :
          line \in {Token("junk", 0), Token("fold", 0), Token("encoding", 0),
                    Length(NaN)}}

Status == Token("status", 200)
Encoding == Token("encoding", 0)
Sized(bytes) == Message(<<Status, Length(Len(bytes))>>, bytes, Len(bytes),
                        "response", 0, bytes)
ToClose(bytes) == Message(<<Status>>, bytes, None, "response", 0, bytes)
Chunk(bytes) == <<Token("size", Len(bytes)), CR, LF>> \o bytes \o CRLF
LastChunk == <<Token("size", 0), CR, LF>>
Chunked(first, second, headers) ==
  LET tail == Chunk(first) \o Chunk(second) \o LastChunk IN
  Message(<<Status, Encoding>> \o headers, tail \o CRLF, Len(tail),
          "response", 0, first \o second)
Bodiless(status) == Message(<<Token("status", status), Length(2)>>, <<>>, 0,
                            "response", 0, <<>>)
Mischunked ==
  LET tail == Chunk(<<Byte>>) \o <<Token("junk", 0), CR, LF>> IN
  Message(<<Status, Encoding>>, tail, Len(tail), "error", 0, <<>>)

Responses ==
  {Sized(b) : b \in Bodies} \cup {ToClose(b) : b \in Bodies}
  \cup {Chunked(a, b, hs) : a, b \in Bodies \ {<<>>},
                            hs \in {<<>>, <<Length(1)>>}}
  \cup {Bodiless(100), Bodiless(204), Mischunked}
  \cup {Refused(<<Token("junk", 0)>>), Refused(<<Status, Token("junk", 0)>>),
        Refused(<<Status, Length(NaN)>>)}

(* What is written first, and what follows it. *)
First(s) == IF s = "client" THEN GoodRequests \cup BadRequests ELSE Responses
Second(s) == IF s = "client" THEN {Request(0, 0, Blank),
                                   Refused(<<Token("other", 0)>>)}
                             ELSE {Sized(<<Byte>>)}

HeadLen(m) == Len(HeadOf(m.lines))
Wired(m) == HeadOf(m.lines) \o m.tail
Stream == Wired(sending[1]) \o Wired(sending[2])

Init ==
  /\ side \in {"client", "server"}
  /\ sending \in First(side) \X Second(side)
  /\ pos = 0 /\ pc = "out"
  /\ buf = <<>> /\ head = <<>> /\ needed = 0 /\ mode = "none" /\ body = <<>>
  /\ pending = <<>> /\ error = FALSE /\ answer = <<>> /\ closed = FALSE
  /\ addrs = <<>> /\ names = <<>> /\ next = 1 /\ gave = {}
  /\ addr = <<>> /\ meant = <<>>

-----------------------------------------------------------------------------
(* policy.mjs's names.  An address or a host is a triple: its kind and two *)
(* parts.                                                                  *)

Host(n) == <<"name", n, 0>>
Literal == <<"literal", 0, 0>>
AliasLow(id) == <<"alias", 0, id % Base>>  \* mutant: one part for two
Alias(id) == <<"alias", (id \div Base) % Base, id % Base>>

(* A table after set(key, value). *)
Entered(table, key, value) ==
  [k \in DOMAIN table \cup {key} |-> IF k = key THEN value ELSE table[k]]
Assigned(n, a, by) ==
  /\ addrs' = Entered(addrs, n, a) /\ names' = Entered(names, a, n)
  /\ gave' = gave \cup {<<n, a, by>>}

(* resolve(): the address the embedder's resolver answers, which may be    *)
(* one that it, or an alias, has already given another name; or else the   *)
(* one the name has, which changes nothing; or else the next alias while   *)
(* there is one.  Names are numbered in the order they are first asked for. *)
Asked(n) == \E p \in gave : p[1] = n
Askable(n) == side = "client" /\ pc = "out" /\ (n > 1 => Asked(n - 1))

ResolveGiven(n, a) == /\ Askable(n)
                      /\ Assigned(n, a, "resolver")
                      /\ UNCHANGED <<side, sending, pos, pc, parsing, told>>
                      /\ UNCHANGED <<closed, next, dialled>>

ResolveAlias(n) == /\ Askable(n)
                   /\ n \notin DOMAIN addrs /\ next <= AliasMax
                   /\ next' = next + 1
                   /\ Assigned(n, Alias(next), "alias")
                   /\ UNCHANGED <<side, sending, pos, pc, parsing, told>>
                   /\ UNCHANGED <<closed, dialled>>

NameOf(a) == IF a \in DOMAIN names THEN Host(names[a]) ELSE a

(* connect(): to an address that was given out, to one written as such, or *)
(* by name.                                                                *)
Connect(a, host) ==
  /\ side = "client" /\ pc = "out" /\ addr = <<>>
  /\ \/ \E p \in gave : a = p[2] /\ host = Host(p[1])
     \/ a = host /\ a \in {Literal, Host(1)}
  /\ addr' = <<a>> /\ meant' = <<host>>
  /\ UNCHANGED <<side, sending, pos, pc, parsing, told, closed, naming>>

(* plan() and urlFor(): an absolute target, the Host header, the name the  *)
(* address stood for, or the address.                                      *)
PlannedHost(r) == CASE r.target # 0                -> Host(r.target)
                    [] r.target = 0 /\ r.host # 0  -> Host(r.host)
                    [] r.target = 0 /\ r.host = 0  -> NameOf(addr[1])

-----------------------------------------------------------------------------
(* The guest writes some more of its messages: push().  A server that has  *)
(* answered writes noise.                                                  *)
Write(n) ==
  /\ pc = "out" /\ ~error /\ ~closed /\ pos + n <= Len(Stream)
  /\ side = "client" => addr # <<>>
  /\ pos' = pos + n
  /\ IF answer # <<>> THEN UNCHANGED <<buf, pc>>
     ELSE buf' = buf \o SubSeq(Stream, pos + 1, pos + n) /\ pc' = "take"
  /\ UNCHANGED <<side, sending, head, needed, mode, body, told, closed>>
  /\ UNCHANGED <<naming, dialled>>

Taking(s) == /\ pc = "take" /\ side = s
             /\ UNCHANGED <<side, sending, pos, closed, naming, dialled>>

(* take() finds its message incomplete: null, and the call returns. *)
Incomplete ==
  \/ head = <<>> /\ EndOfHead(buf) = 0
  \/ head # <<>> /\ mode = "none" /\ Len(buf) < needed
  \/ mode \in {"chunked", "close"} /\ buf = <<>>
  \/ mode = "chunked" /\ needed = 0 /\ EndOf(CRLF, buf) = 0
TakeNothing == /\ pc = "take" /\ mode # "length" /\ Incomplete /\ pc' = "out"
               /\ UNCHANGED <<side, sending, pos, parsing, told, closed>>
               /\ UNCHANGED <<naming, dialled>>

HeadLines == Lines(SubSeq(buf, 1, EndOfHead(buf) - 2))
HeadIn == head = <<>> /\ EndOfHead(buf) # 0

(* The client's take(), in send()'s loop: a head whose length it can use.  *)
RequestOk(lines) == /\ HeadOk(lines, "request")
                    /\ HeaderValue(lines, "encoding", None) = None
                    /\ HeaderValue(lines, "length", 0) >= 0

TakeRequestHead ==
  /\ Taking("client") /\ HeadIn /\ RequestOk(HeadLines)
  /\ head' = HeadLines
  /\ needed' = HeaderValue(HeadLines, "length", 0)
  /\ buf' = After(buf, EndOfHead(buf))
  /\ UNCHANGED <<pc, mode, body, told>>

(* One it cannot: the connection is poisoned and the write fails. *)
TakeBadRequest ==
  /\ Taking("client") /\ HeadIn /\ ~RequestOk(HeadLines)
  /\ buf' = After(buf, EndOfHead(buf))
  /\ error' = TRUE /\ pc' = "out"
  /\ UNCHANGED <<head, needed, mode, body, pending, answer>>

(* The body whole: a request, and take() again. *)
TakeRequest ==
  /\ Taking("client") /\ head # <<>> /\ Len(buf) >= needed
  /\ pending' = Append(pending,
                  [target |-> head[1][1].v, host |-> HeaderValue(head, "host", 0),
                   body |-> SubSeq(buf, 1, needed)])
  /\ buf' = After(buf, needed)
  /\ head' = <<>> /\ needed' = 0
  /\ UNCHANGED <<pc, mode, body, error, answer>>

(* settle(): what the parser made of it, to the host. *)
Settled(is, bytes) == /\ answer' = <<[is |-> is, body |-> bytes]>> /\ pc' = "out"
                      /\ UNCHANGED <<pending, error>>

(* The server's take(): the mode of the body from status and headers.      *)
NoBody(lines) == lines[1][1].v < 200 \/ lines[1][1].v \in {204, 304}
ModeOf(lines) ==
  IF NoBody(lines) THEN "length"
  ELSE IF HeaderValue(lines, "encoding", None) # None THEN "chunked"
  ELSE IF HeaderValue(lines, "length", None) # None THEN "length"
  ELSE "close"
LengthOf(lines) ==
  IF NoBody(lines) \/ ModeOf(lines) # "length" THEN 0
  ELSE HeaderValue(lines, "length", None)
ResponseOk(lines) == HeadOk(lines, "status") /\ LengthOf(lines) >= 0

TakeStatus ==
  /\ Taking("server") /\ HeadIn /\ ResponseOk(HeadLines)
  /\ head' = HeadLines
  /\ mode' = ModeOf(HeadLines)
  /\ needed' = LengthOf(HeadLines)
  /\ buf' = After(buf, EndOfHead(buf))
  /\ UNCHANGED <<pc, body, told>>

TakeBadStatus ==
  /\ Taking("server") /\ HeadIn /\ ~ResponseOk(HeadLines)
  /\ buf' = After(buf, EndOfHead(buf))
  /\ Settled("error", <<>>)
  /\ UNCHANGED <<head, needed, mode, body>>

(* A length: as much of it as there is, and the answer once it is there.   *)
TakeSized ==
  /\ Taking("server") /\ head # <<>> /\ mode = "length"
  /\ LET n == Min({Len(buf), needed - Len(body)})
         kept == body \o SubSeq(buf, 1, n)
     IN /\ body' = kept /\ buf' = After(buf, n)
        /\ IF Len(kept) >= needed THEN Settled("response", kept)
                                  ELSE pc' = "out" /\ UNCHANGED told
  /\ UNCHANGED <<head, needed, mode>>

(* Chunks: the bytes of one, *)
TakeChunkBytes ==
  /\ Taking("server") /\ mode = "chunked" /\ needed > 0 /\ buf # <<>>
  /\ LET n == Min({Len(buf), needed}) IN
       /\ body' = body \o SubSeq(buf, 1, n)
       /\ buf' = After(buf, n) /\ needed' = needed - n
  /\ UNCHANGED <<pc, head, mode, told>>

(* the line between two: blank, a size, the last size, or nonsense.        *)
LineIn == mode = "chunked" /\ needed = 0 /\ EndOf(CRLF, buf) # 0
LineText == SubSeq(buf, 1, EndOf(CRLF, buf) - 2)
Size == Len(LineText) = 1 /\ LineText[1].t = "size"

TakeBlank == /\ Taking("server") /\ LineIn /\ LineText = <<>>
             /\ buf' = After(buf, EndOf(CRLF, buf))
             /\ UNCHANGED <<pc, head, needed, mode, body, told>>

TakeSize == /\ Taking("server") /\ LineIn /\ Size /\ LineText[1].v > 0
            /\ needed' = LineText[1].v
            /\ buf' = After(buf, EndOf(CRLF, buf))
            /\ UNCHANGED <<pc, head, mode, body, told>>

TakeLastSize == /\ Taking("server") /\ LineIn /\ Size /\ LineText[1].v = 0
                /\ buf' = After(buf, EndOf(CRLF, buf))
                /\ Settled("response", body)
                /\ UNCHANGED <<head, needed, mode, body>>

TakeBadSize == /\ Taking("server") /\ LineIn /\ LineText # <<>> /\ ~Size
               /\ buf' = After(buf, EndOf(CRLF, buf))
               /\ Settled("error", <<>>)
               /\ UNCHANGED <<head, needed, mode, body>>

(* Neither: everything is body, until the close. *)
TakeToClose == /\ Taking("server") /\ mode = "close" /\ buf # <<>>
               /\ body' = body \o buf /\ buf' = <<>> /\ pc' = "out"
               /\ UNCHANGED <<head, needed, mode, told>>

(* close(): finish() says whether this was a legal way to end. *)
FinishesAnyway == head # <<>>  \* mutant: whatever has come is the response
Finishes == \/ head # <<>> /\ mode = "close"
            \/ head # <<>> /\ mode = "length" /\ Len(body) >= needed
Close ==
  /\ side = "server" /\ pc = "out" /\ ~closed
  /\ closed' = TRUE
  /\ answer' = IF answer # <<>> THEN answer
               ELSE IF Finishes THEN <<[is |-> "response", body |-> body]>>
               ELSE <<[is |-> "error", body |-> <<>>]>>
  /\ UNCHANGED <<side, sending, pos, pc, parsing, pending, error>>
  /\ UNCHANGED <<naming, dialled>>

Client == TakeRequestHead \/ TakeBadRequest \/ TakeRequest
Server == \/ TakeStatus \/ TakeBadStatus \/ TakeSized
          \/ TakeChunkBytes \/ TakeBlank \/ TakeSize \/ TakeLastSize
          \/ TakeBadSize \/ TakeToClose

Next == \/ \E n \in Name : ResolveAlias(n)
        \/ \E n \in Name, a \in Given : ResolveGiven(n, a)
        \/ \E p \in gave : Connect(p[2], Host(p[1]))
        \/ \E h \in {Literal, Host(1)} : Connect(h, h)
        \/ \E n \in 1..Len(Stream) : Write(n)
        \/ TakeNothing \/ Client \/ Server
        \/ Close

Spec == Init /\ [][Next]_vars

-----------------------------------------------------------------------------
(* The host that a request says: in its target, or in its Host header.     *)
AsksFor(r) == IF r.target # 0 THEN r.target ELSE r.host
HostsParsed ==
  \A i \in 1..Len(pending) : AsksFor(pending[i]) = sending[i].host

(* The requests a client's writes add up to, however they are cut: every   *)
(* one whose last byte is in, in order, with its host and its body, and    *)
(* none whose is not; up to one that cannot be understood, which poisons   *)
(* the connection as soon as its head is in.                               *)
Start(i) == IF i = 1 THEN 0 ELSE Len(Wired(sending[1]))
Reached(i) == \A k \in 1..(i - 1) : sending[k].is = "request"
Whole(i) == pos >= Start(i) + HeadLen(sending[i]) + sending[i].ends
RequestsExact ==
  side = "client" /\ pc = "out" =>
    LET in == {i \in 1..2 : Reached(i) /\ Whole(i)}
        good == {i \in in : sending[i].is = "request"}
    IN /\ 1..Len(pending) = good /\ HostsParsed
       /\ \A i \in good : pending[i].body = sending[i].payload
       /\ error <=> in # good

(* What an address connected to for a host may stand for later: that host; *)
(* but, once the embedder's resolver has answered the address, the names   *)
(* it has been given for, which are that one alone when it was not shared. *)
Resolved(a) == \E p \in gave : p[2] = a /\ p[3] = "resolver"
StandsFor(a, host) == IF Resolved(a)
                      THEN {Host(p[1]) : p \in {q \in gave : q[2] = a}}
                      ELSE {host}

(* A request goes to the host it names.  One that names none goes to what  *)
(* the guest meant when it connected, the name that resolve() gave the     *)
(* address for, whatever has been resolved since, or the address itself;   *)
(* except that, of names the embedder's resolver gave one address, it may  *)
(* go to another than was meant, though to no further one.                 *)
RightOrigin ==
  \A i \in 1..Len(pending) :
    PlannedHost(pending[i]) \in
      IF sending[i].host # 0 THEN {Host(sending[i].host)}
                             ELSE StandsFor(addr[1], meant[1])

(* The host is told what the server wrote: the whole body as soon as its   *)
(* last byte is in, by whichever of the three ways it ends, and an error   *)
(* when the server stopped before that.  A truncated body is never passed  *)
(* off as a whole one, nor a whole one waited on.                          *)
ResponseExact ==
  side = "server" /\ pc = "out" =>
    LET m == sending[1]
        whole == m.ends # None /\ pos >= HeadLen(m) + m.ends
        toldIs(is, bytes) == answer = <<[is |-> is, body |-> bytes]>>
    IN IF whole THEN toldIs(m.is, m.payload)
       ELSE IF ~closed THEN answer = <<>>
       ELSE IF m.ends = None /\ pos >= HeadLen(m)
         THEN toldIs("response", SubSeq(Stream, HeadLen(m) + 1, pos))
         ELSE toldIs("error", <<>>)
=============================================================================
