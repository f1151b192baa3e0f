------------------------------ MODULE Channel ------------------------------
(***************************************************************************)
(* src/src/channel.mjs, one Atomics operation at a time.                   *)
(*                                                                         *)
(* Two threads share four control words and a data window.  The writer is  *)
(* the fetcher's thread, answering exchanges with a head (write) and a     *)
(* body (chunk ... end) as fetcher.worker.mjs does; the reader is the      *)
(* guest's thread, which takes the head whole (readAll), then the body     *)
(* chunk by chunk (read), and may stop early (cancelAndDrain).  Each       *)
(* thread's program counter names the operation it is about to execute.    *)
(*                                                                         *)
(* A chunk is a tag: the exchange, the message and the position it was     *)
(* produced for.  The window holds the last non-empty one written, and LEN *)
(* is 0 for an empty frame and 1 for any other.                            *)
(***************************************************************************)
EXTENDS Naturals, Sequences

CONSTANTS Exchanges,     \* bound: how many requests the guest makes
          MaxChunks,     \* bound: chunks of a head, and of a body
          SpuriousWakes  \* whether Atomics.wait may return without a notify

ASSUME ChannelAssumption == /\ Exchanges \in Nat
                            /\ MaxChunks \in Nat \ {0}
                            /\ SpuriousWakes \in BOOLEAN

Chunk == [x : 1..Exchanges, part : {"head", "body"}, i : 1..MaxChunks]
ChunkOf(x, part, i) == [x |-> x, part |-> part, i |-> i]
NoBytes == [x |-> 0, part |-> "none", i |-> 0]
Bytes == Chunk \cup {NoBytes}

VARIABLES
  full, len, last, cancel,  \* the control words of the SharedArrayBuffer
  data,                     \* its window
  wpc, put,                 \* the writer: next operation, arguments of put()
  serving, stage, wi,       \* its exchange, its message, chunks handed over
  rpc, rlen, rlast, rbytes, \* the reader: next operation, read()'s locals
  asked, phase, parts,      \* its exchange, its message, readAll's parts
  late                      \* history: body frames accepted since the cancel

words == <<full, len, last, cancel, data>>
writerVars == <<serving, stage, wi>>
readerLocals == <<rlen, rlast, rbytes>>
readerVars == <<asked, phase, parts>>
vars == <<words, wpc, put, writerVars, rpc, readerLocals, readerVars, late>>

Init == /\ full = 0 /\ len = 0 /\ last = 0 /\ cancel = 0 /\ data = NoBytes
        /\ wpc = "idle" /\ put = [bytes |-> NoBytes, last |-> 0, force |-> FALSE]
        /\ serving = 0 /\ stage = "idle" /\ wi = 0
        /\ rpc = "guest" /\ rlen = 0 /\ rlast = 0 /\ rbytes = NoBytes
        /\ asked = 0 /\ phase = "idle" /\ parts = <<>>
        /\ late = 0

-----------------------------------------------------------------------------
(* The writing end. *)

(* The steps between one operation of the writer and the next that touch   *)
(* no shared word.                                                         *)
WriterGoes(from, to) ==
  /\ wpc = from /\ wpc' = to
  /\ UNCHANGED <<words, rpc, readerLocals, readerVars, late>>

(* The fetcher reads the next request off the other channel. *)
Serve == /\ serving < asked
         /\ WriterGoes("idle", "next")
         /\ serving' = serving + 1 /\ stage' = "head" /\ wi' = 0
         /\ UNCHANGED put

(* write(head): one put() per window of the encoded head, the last marked. *)
NextHead(l) ==
  /\ stage = "head" /\ wi < MaxChunks
  /\ wi + 1 = MaxChunks => l = 1
  /\ WriterGoes("next", "check")
  /\ put' = [bytes |-> ChunkOf(serving, "head", wi + 1),
             last |-> l, force |-> FALSE]
  /\ UNCHANGED writerVars

(* chunk(value, false): one put() per window of what the origin sent. *)
NextBody ==
  /\ stage = "body" /\ wi < MaxChunks
  /\ WriterGoes("next", "check")
  /\ put' = [bytes |-> ChunkOf(serving, "body", wi + 1),
             last |-> 0, force |-> FALSE]
  /\ UNCHANGED writerVars

(* end(): the origin is done, it failed, or a chunk was refused. *)
NextEnd ==
  /\ stage \in {"body", "closing"}
  /\ WriterGoes("next", "check")
  /\ put' = [bytes |-> NoBytes, last |-> 1, force |-> TRUE]
  /\ UNCHANGED writerVars

(* put() loads CANCEL.  A refused head is lost without a trace: handle()   *)
(* ignores what write() returned and goes on to the body.                  *)
RefusedNever(force) == FALSE       \* mutant: CANCEL is not looked at
RefusedForced(force) == cancel = 1 \* mutant: end() is not forced
Refused(force) == ~force /\ cancel = 1

CheckRefused ==
  /\ Refused(put.force)
  /\ WriterGoes("check", "next")
  /\ stage' = IF stage = "head" THEN "body" ELSE "closing"
  /\ UNCHANGED <<put, serving, wi>>

CheckAdmitted ==
  /\ ~Refused(put.force)
  /\ WriterGoes("check", "test")
  /\ UNCHANGED put /\ UNCHANGED writerVars

(* Mutant: put() takes the window without waiting for it. *)
TestNothing == /\ WriterGoes("test", "data")
               /\ UNCHANGED put /\ UNCHANGED writerVars

(* put() loads FULL. *)
TestFull == /\ WriterGoes("test", IF full = 0 THEN "data" ELSE "park")
            /\ UNCHANGED put /\ UNCHANGED writerVars

(* Atomics.wait(ctl, FULL, 1): compare and park in one step. *)
WriterWait == /\ WriterGoes("park", IF full = 1 THEN "asleep" ELSE "check")
              /\ UNCHANGED put /\ UNCHANGED writerVars

WriterSpurious == /\ SpuriousWakes
                  /\ WriterGoes("asleep", "check")
                  /\ UNCHANGED put /\ UNCHANGED writerVars

(* A step of put() that stores one word of the frame. *)
WriterStores(from, to) ==
  /\ wpc = from /\ wpc' = to
  /\ UNCHANGED <<cancel, put, writerVars, rpc, readerLocals, readerVars, late>>

SetData == /\ WriterStores("data", "len")
           /\ data' = IF put.bytes = NoBytes THEN data ELSE put.bytes
           /\ UNCHANGED <<full, len, last>>

SetLen == /\ WriterStores("len", "last")
          /\ len' = IF put.bytes = NoBytes THEN 0 ELSE 1
          /\ UNCHANGED <<full, last, data>>

SetLast == /\ WriterStores("last", "full")
           /\ last' = put.last
           /\ UNCHANGED <<full, len, data>>

(* Mutant: the count of frames runs on into the next message. *)
SetFullCountsOn ==
  /\ wpc = "full" /\ wpc' = "notify"
  /\ full' = 1 /\ wi' = wi + 1
  /\ stage' = IF put.last = 0 THEN stage
              ELSE IF stage = "head" THEN "body" ELSE "idle"
  /\ UNCHANGED <<len, last, cancel, data, put, serving, late>>
  /\ UNCHANGED <<rpc, readerLocals, readerVars>>

(* The store that hands the frame over. *)
SetFull ==
  /\ wpc = "full" /\ wpc' = "notify"
  /\ full' = 1
  /\ IF put.last = 0 THEN wi' = wi + 1 /\ stage' = stage
     ELSE wi' = 0 /\ stage' = IF stage = "head" THEN "body" ELSE "idle"
  /\ late' = IF cancel = 1 /\ ~put.force THEN late + 1 ELSE late
  /\ UNCHANGED <<len, last, cancel, data, put, serving>>
  /\ UNCHANGED <<rpc, readerLocals, readerVars>>

(* Mutant: the frame is stored and nobody is told. *)
NotifyNobody == /\ WriterGoes("notify", IF stage = "idle" THEN "idle" ELSE "next")
                /\ UNCHANGED put /\ UNCHANGED writerVars

(* Atomics.notify on FULL wakes the other thread if it is parked there. *)
NotifyReader ==
  /\ wpc = "notify"
  /\ wpc' = IF stage = "idle" THEN "idle" ELSE "next"
  /\ rpc' = IF rpc = "asleep" THEN "load" ELSE rpc
  /\ UNCHANGED <<words, put, writerVars, readerLocals, readerVars, late>>

WriterStep ==
  \/ Serve \/ (\E l \in 0..1 : NextHead(l)) \/ NextBody \/ NextEnd
  \/ CheckRefused \/ CheckAdmitted \/ TestFull \/ WriterWait
  \/ SetData \/ SetLen \/ SetLast \/ SetFull \/ NotifyReader

-----------------------------------------------------------------------------
(* The reading end. *)

ReaderGoes(from, to) ==
  /\ rpc = from /\ rpc' = to
  /\ UNCHANGED <<words, wpc, put, writerVars, late>>

(* The guest's thread makes a request and then calls readAll(). *)
Ask == /\ phase = "idle" /\ asked < Exchanges
       /\ ReaderGoes("guest", "load")
       /\ asked' = asked + 1 /\ phase' = "head" /\ parts' = <<>>
       /\ UNCHANGED readerLocals

(* The guest pulls one chunk of the body: read(). *)
Read == /\ phase = "body"
        /\ ReaderGoes("guest", "load")
        /\ UNCHANGED readerLocals /\ UNCHANGED readerVars

(* cancel() stores CANCEL and notifies; FULL is left as it is. *)
StoreCancel ==
  /\ phase = "body" /\ rpc = "guest" /\ rpc' = "wakewriter"
  /\ cancel' = 1 /\ phase' = "drain"
  /\ UNCHANGED <<full, len, last, data, wpc, put, writerVars>>
  /\ UNCHANGED <<readerLocals, asked, parts, late>>

(* What a notify does to the writer: woken, it checks CANCEL again. *)
WakeWriter == wpc' = IF wpc = "asleep" THEN "check" ELSE wpc

NotifyCancel ==
  /\ rpc = "wakewriter" /\ rpc' = "load" /\ WakeWriter
  /\ UNCHANGED <<words, put, writerVars, readerLocals, readerVars, late>>

(* read() loads FULL. *)
LoadFull == /\ ReaderGoes("load", IF full = 0 THEN "park" ELSE "len")
            /\ UNCHANGED readerLocals /\ UNCHANGED readerVars

(* Atomics.wait(ctl, FULL, 0). *)
ReaderWait == /\ ReaderGoes("park", IF full = 0 THEN "asleep" ELSE "load")
              /\ UNCHANGED readerLocals /\ UNCHANGED readerVars

ReaderSpurious == /\ SpuriousWakes
                  /\ ReaderGoes("asleep", "load")
                  /\ UNCHANGED readerLocals /\ UNCHANGED readerVars

LoadLen == /\ ReaderGoes("len", "last")
           /\ rlen' = len
           /\ UNCHANGED <<rlast, rbytes, readerVars>>

LoadLast == /\ ReaderGoes("last", "slice")
            /\ rlast' = last
            /\ UNCHANGED <<rlen, rbytes, readerVars>>

Slice == /\ ReaderGoes("slice", "clear")
         /\ rbytes' = IF rlen = 0 THEN NoBytes ELSE data
         /\ UNCHANGED <<rlen, rlast, readerVars>>

Following(p) == CASE p = "head"  -> "body"
                  [] p = "body"  -> "idle"
                  [] p = "drain" -> "drained"

(* The store that gives the window back; the frame is the reader's now. *)
ClearFull ==
  /\ rpc = "clear" /\ rpc' = "notify"
  /\ full' = 0
  /\ IF rlast = 1
       THEN phase' = Following(phase) /\ parts' = <<>>
       ELSE /\ parts' = IF phase = "drain" THEN parts
                                           ELSE Append(parts, rbytes)
            /\ UNCHANGED phase
  /\ UNCHANGED <<len, last, cancel, data, wpc, put, writerVars>>
  /\ UNCHANGED <<readerLocals, asked, late>>

(* Mutant: cancel() without the drain, gone after one frame. *)
NotifyWriterOnce ==
  /\ rpc = "notify" /\ WakeWriter
  /\ rpc' = IF phase \in {"drain", "drained"} THEN "uncancel"
            ELSE IF phase = "head" THEN "load" ELSE "guest"
  /\ UNCHANGED <<words, put, writerVars, readerLocals, readerVars, late>>

(* The notify, and what the caller does with the frame: readAll and        *)
(* cancelAndDrain loop until the last one, read returns each to the guest. *)
NotifyWriter ==
  /\ rpc = "notify" /\ WakeWriter
  /\ rpc' = CASE phase = "drained"                 -> "uncancel"
              [] phase = "drain"                   -> "load"
              [] phase = "head"                    -> "load"
              [] phase \in {"body", "idle"}        -> "guest"
  /\ UNCHANGED <<words, put, writerVars, readerLocals, readerVars, late>>

(* Mutant: the flag is left for the next exchange. *)
UncancelForgets ==
  /\ rpc = "uncancel" /\ rpc' = "guest" /\ phase' = "idle" /\ late' = 0
  /\ UNCHANGED <<words, wpc, put, writerVars, readerLocals, asked, parts>>

(* cancelAndDrain() saw the terminator and clears the flag. *)
Uncancel ==
  /\ rpc = "uncancel" /\ rpc' = "guest"
  /\ cancel' = 0 /\ phase' = "idle" /\ late' = 0
  /\ UNCHANGED <<full, len, last, data, wpc, put, writerVars>>
  /\ UNCHANGED <<readerLocals, asked, parts>>

(* Steps of a call the guest has made; Ask, Read and StoreCancel are its   *)
(* own decision and may never come.                                        *)
ReaderStep ==
  \/ NotifyCancel \/ LoadFull \/ ReaderWait \/ LoadLen \/ LoadLast \/ Slice
  \/ ClearFull \/ NotifyWriter \/ Uncancel

(* Every exchange has been answered and read to its end. *)
Finished == /\ asked = Exchanges /\ phase = "idle" /\ rpc = "guest"
            /\ wpc = "idle"
            /\ UNCHANGED vars

Next == \/ WriterStep \/ WriterSpurious
        \/ Ask \/ Read \/ StoreCancel \/ ReaderStep \/ ReaderSpurious
        \/ Finished

Spec == Init /\ [][Next]_vars

(* A thread that is not parked runs.  The guest need not call again, and a *)
(* wake is only ever owed to a notify.                                     *)
Fairness == WF_vars(WriterStep) /\ WF_vars(ReaderStep)
FairSpec == Spec /\ Fairness

-----------------------------------------------------------------------------
TypeOK ==
  /\ full \in 0..1 /\ len \in 0..1 /\ last \in 0..1 /\ cancel \in 0..1
  /\ data \in Bytes
  /\ wpc \in {"idle", "next", "check", "test", "park", "asleep",
              "data", "len", "last", "full", "notify"}
  /\ put \in [bytes : Bytes, last : 0..1, force : BOOLEAN]
  /\ serving \in 0..Exchanges
  /\ stage \in {"idle", "head", "body", "closing"}
  /\ wi \in 0..MaxChunks
  /\ rpc \in {"guest", "wakewriter", "load", "park", "asleep", "len", "last",
              "slice", "clear", "notify", "uncancel"}
  /\ rlen \in 0..1 /\ rlast \in 0..1 /\ rbytes \in Bytes
  /\ asked \in 0..Exchanges
  /\ phase \in {"idle", "head", "body", "drain", "drained"}
  /\ parts \in Seq(Bytes)
  /\ late \in Nat

(* The writer never stores into the window, LEN or LAST while the reader   *)
(* is between seeing FULL and giving the window back: put() and read()     *)
(* touch the frame with no lock but the FULL word.                         *)
WindowExclusion ==
  ~ /\ wpc \in {"data", "len", "last", "full"}
    /\ rpc \in {"len", "last", "slice", "clear"}

(* What the guest has read of a message is that message of its own         *)
(* exchange from its first chunk on, with nothing lost, repeated, swapped  *)
(* or left over from the exchange before: the frames that cancel() says it *)
(* must not put one behind.                                                *)
MessageIntact ==
  phase \in {"head", "body"} =>
    /\ serving = asked \/ parts = <<>>
    /\ \A k \in 1..Len(parts) : parts[k] = ChunkOf(asked, phase, k)

(* Between exchanges nothing is left in the channel for the next one to    *)
(* trip over: no frame, no flag, and no put() under way.                   *)
CleanBetweenExchanges ==
  phase = "idle" => /\ full = 0 /\ cancel = 0
                    /\ wpc \in {"idle", "notify"} /\ serving = asked

(* No head is refused: a CANCEL left over from the last exchange would     *)
(* swallow it, and write() returns false into a caller that ignores it.    *)
HeadNeverRefused ==
  stage = "head" => cancel = 0

(* A cancel stops the writer: put() lets through at most the one frame     *)
(* whose check of CANCEL came before the store.                            *)
CancelStops == late <= 1

(* The two threads are never both parked, each waiting for the other. *)
NeverBothAsleep == ~ (wpc = "asleep" /\ rpc = "asleep")

(* cancelAndDrain() returns, whatever the writer was doing when it was     *)
(* called: parked, about to park, mid-frame or awaiting the origin.        *)
DrainEnds == phase = "drain" ~> phase = "idle"

(* A request is answered: readAll() returns the head. *)
HeadArrives == phase = "head" ~> phase = "body"

(* The channel implements the one whose frames move in a single step. *)
Slot == IF full = 0 THEN <<>>
        ELSE <<[bytes |-> IF len = 0 THEN NoBytes ELSE data, last |-> last]>>

Frames == INSTANCE FrameChannel WITH slot <- Slot, cancelled <- (cancel = 1)

FramesSpec == Frames!Spec
=============================================================================
