-------------------------- MODULE ChannelInvariant --------------------------
(***************************************************************************)
(* The inductive invariant of Channel, as conjunctions of named parts.     *)
(* ChannelProofs proves that every step preserves it and that it implies   *)
(* the safety properties of Channel.                                       *)
(***************************************************************************)
EXTENDS Channel

LenOf(b) == IF b = NoBytes THEN 0 ELSE 1
Window == IF len = 0 THEN NoBytes ELSE data

Putting == {"check", "test", "park", "asleep", "data", "len", "last", "full"}
Storing == {"data", "len", "last", "full"}
Taking  == {"len", "last", "slice", "clear"}
Reading == {"load", "park", "asleep"} \cup Taking

(* Who holds the window: FULL tells the two threads apart. *)
Handover ==
  /\ wpc \in Storing => full = 0
  /\ rpc \in Taking => full = 1

(* What the writer has stored of its frame, and the reader loaded. *)
Stored ==
  /\ wpc \in {"len", "last", "full"} /\ put.bytes # NoBytes => data = put.bytes
  /\ wpc \in {"last", "full"} => len = LenOf(put.bytes)
  /\ wpc = "full" => last = put.last
Loaded ==
  /\ rpc \in {"last", "slice", "clear"} => rlen = len
  /\ rpc \in {"slice", "clear"} => rlast = last
  /\ rpc = "clear" => rbytes = Window

(* The arguments put() may have, by the message being written. *)
HeadPut == /\ stage = "head" /\ ~put.force /\ wi < MaxChunks
           /\ wi + 1 = MaxChunks => put.last = 1
           /\ put.bytes = ChunkOf(serving, "head", wi + 1)
BodyPut == /\ stage = "body" /\ ~put.force /\ wi < MaxChunks /\ put.last = 0
           /\ put.bytes = ChunkOf(serving, "body", wi + 1)
EndPut  == /\ stage \in {"body", "closing"}
           /\ put.force /\ put.last = 1 /\ put.bytes = NoBytes
PutFits == wpc \in Putting => HeadPut \/ BodyPut \/ EndPut

WriterAt ==
  /\ wpc = "idle" => stage = "idle"
  /\ stage = "idle" => wpc \in {"idle", "notify"}
  /\ stage = "closing" => cancel = 1
  /\ stage # "idle" => serving \in 1..Exchanges

ReaderAt ==
  /\ rpc \in Reading => phase \in {"head", "body", "drain"}
  /\ rpc = "guest" => phase \in {"idle", "body"}
  /\ rpc = "wakewriter" => phase = "drain"
  /\ rpc = "uncancel" => phase = "drained"
  /\ phase = "idle" => rpc \in {"guest", "notify"}
  /\ phase = "drained" => rpc \in {"notify", "uncancel"}

(* With the slot empty the writer is exactly as far as the reader. *)
EmptyFits ==
  full = 0 =>
    /\ phase = "head" => \/ serving = asked /\ stage = "head" /\ wi = Len(parts)
                         \/ serving + 1 = asked /\ stage = "idle" /\ parts = <<>>
    /\ phase = "body" => serving = asked /\ stage = "body" /\ wi = Len(parts)
    /\ phase = "drain" => serving = asked /\ stage \in {"body", "closing"}
    /\ phase \in {"idle", "drained"} => serving = asked /\ stage = "idle"

(* With a frame in it, the frame is the one the reader is waiting for and  *)
(* the writer is one further on.                                           *)
FullFits ==
  full = 1 =>
    /\ serving = asked
    /\ phase = "head" =>
         /\ Window = ChunkOf(asked, "head", Len(parts) + 1)
         /\ last = 0 => stage = "head" /\ wi = Len(parts) + 1
         /\ last = 1 => stage = "body" /\ wi = 0
    /\ phase = "body" =>
         /\ last = 0 => /\ Window = ChunkOf(asked, "body", Len(parts) + 1)
                        /\ stage = "body" /\ wi = Len(parts) + 1
         /\ last = 1 => Window = NoBytes /\ stage = "idle"
    /\ phase = "drain" =>
         /\ last = 0 => stage \in {"body", "closing"}
         /\ last = 1 => stage = "idle"
    /\ phase \in {"head", "body", "drain"}

PartsFit == phase \in {"head", "body"} =>
              \A k \in 1..Len(parts) : parts[k] = ChunkOf(asked, phase, k)

(* CANCEL is set exactly while the reader drains, and a frame let through  *)
(* after it leaves the writer back before its load of CANCEL.              *)
CancelFits ==
  /\ cancel = 1 <=> phase \in {"drain", "drained"}
  /\ cancel = 0 => late = 0
  /\ late \in {0, 1}
  /\ wpc \in Putting \ {"check"} /\ ~put.force => late = 0

(* A parked thread is owed a notify, or its condition does not hold. *)
Parked ==
  /\ wpc = "asleep" /\ full = 0 => rpc = "notify"
  /\ rpc = "asleep" /\ full = 1 => wpc = "notify"

(* The window and its locks; where each thread stands; what the channel    *)
(* carries of an exchange.                                                 *)
HandoverInv == Handover /\ Stored /\ Loaded /\ Parked
ThreadsInv  == PutFits /\ WriterAt /\ ReaderAt
ReplyInv    == EmptyFits /\ FullFits /\ PartsFit /\ CancelFits

IInv == TypeOK /\ HandoverInv /\ ThreadsInv /\ ReplyInv
=============================================================================
