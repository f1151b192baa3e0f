---------------------------- MODULE FrameChannel ----------------------------
(***************************************************************************)
(* What one response channel of sockfetch promises, with a frame handed    *)
(* over in a single step: a slot of one frame between the fetcher (the     *)
(* writer) and the guest's thread (the reader).                            *)
(*                                                                         *)
(* Every exchange the reader asks for is answered by two messages, a head  *)
(* and a body, each a run of frames closed by a `last' one.  The reader    *)
(* may cancel inside a body; it then discards frames up to the one that    *)
(* ends the message, and the writer hands over at most one more frame of   *)
(* the body before that one.  A head is never refused.                     *)
(*                                                                         *)
(* Channel.tla implements this with the four control words of              *)
(* src/src/channel.mjs.                                                    *)
(***************************************************************************)
EXTENDS Naturals, Sequences

CONSTANTS Exchanges,   \* bound: how many requests the guest makes
          MaxChunks    \* bound: chunks of a head, and of a body

(* The bytes of a frame: the i-th chunk of a message of exchange x, or     *)
(* none at all, as in the terminator written by end().                     *)
Chunk == [x : 1..Exchanges, part : {"head", "body"}, i : 1..MaxChunks]
ChunkOf(x, part, i) == [x |-> x, part |-> part, i |-> i]
NoBytes == [x |-> 0, part |-> "none", i |-> 0]
Bytes == Chunk \cup {NoBytes}
Frame == [bytes : Bytes, last : 0..1]

VARIABLES
  slot,       \* <<>>, or <<f>> when frame f waits for the reader
  cancelled,  \* the reader has gone; the writer must stop
  late,       \* frames of the body handed over since the cancel
  asked,      \* requests made so far
  phase,      \* what the reader is reading: idle head body drain drained
  parts,      \* the chunks of the message read so far
  serving,    \* the request the writer answers
  stage,      \* what the writer writes: idle head body closing
  wi          \* chunks of that message handed over

vars == <<slot, cancelled, late, asked, phase, parts, serving, stage, wi>>
readerVars == <<asked, phase, parts>>
writerVars == <<serving, stage, wi>>

Init == /\ slot = <<>> /\ cancelled = FALSE /\ late = 0
        /\ asked = 0 /\ phase = "idle" /\ parts = <<>>
        /\ serving = 0 /\ stage = "idle" /\ wi = 0

(* The reader asks for one exchange, then waits for its head. *)
Ask == /\ phase = "idle" /\ asked < Exchanges
       /\ asked' = asked + 1 /\ phase' = "head" /\ parts' = <<>>
       /\ UNCHANGED <<slot, cancelled, late>> /\ UNCHANGED writerVars

Serve == /\ stage = "idle" /\ serving < asked
         /\ serving' = serving + 1 /\ stage' = "head" /\ wi' = 0
         /\ UNCHANGED <<slot, cancelled, late>> /\ UNCHANGED readerVars

PutHead(l) ==
  /\ stage = "head" /\ slot = <<>> /\ wi < MaxChunks
  /\ wi + 1 = MaxChunks => l = 1
  /\ slot' = <<[bytes |-> ChunkOf(serving, "head", wi + 1), last |-> l]>>
  /\ IF l = 1 THEN stage' = "body" /\ wi' = 0
              ELSE stage' = "head" /\ wi' = wi + 1
  /\ UNCHANGED <<cancelled, late, serving>> /\ UNCHANGED readerVars

(* A chunk of the body: at most one once the reader has cancelled. *)
PutBody ==
  /\ stage = "body" /\ slot = <<>> /\ wi < MaxChunks
  /\ cancelled => late = 0
  /\ slot' = <<[bytes |-> ChunkOf(serving, "body", wi + 1), last |-> 0]>>
  /\ late' = IF cancelled THEN late + 1 ELSE late
  /\ wi' = wi + 1
  /\ UNCHANGED <<cancelled, serving, stage>> /\ UNCHANGED readerVars

(* The terminator, which a cancel does not refuse. *)
PutEnd ==
  /\ stage \in {"body", "closing"} /\ slot = <<>>
  /\ slot' = <<[bytes |-> NoBytes, last |-> 1]>>
  /\ stage' = "idle" /\ wi' = 0
  /\ UNCHANGED <<cancelled, late, serving>> /\ UNCHANGED readerVars

(* A chunk of the body is refused: only the terminator is left to send. *)
Refuse == /\ stage = "body" /\ cancelled
          /\ stage' = "closing"
          /\ UNCHANGED <<slot, cancelled, late, serving, wi>>
          /\ UNCHANGED readerVars

Following(p) == CASE p = "head"  -> "body"
                  [] p = "body"  -> "idle"
                  [] p = "drain" -> "drained"

Take ==
  /\ phase \in {"head", "body", "drain"} /\ slot # <<>>
  /\ slot' = <<>>
  /\ IF slot[1].last = 1
       THEN phase' = Following(phase) /\ parts' = <<>>
       ELSE /\ parts' = IF phase = "drain" THEN parts
                                           ELSE Append(parts, slot[1].bytes)
            /\ UNCHANGED phase
  /\ UNCHANGED <<cancelled, late, asked>> /\ UNCHANGED writerVars

Cancel == /\ phase = "body" /\ phase' = "drain" /\ cancelled' = TRUE
          /\ UNCHANGED <<slot, late, asked, parts>> /\ UNCHANGED writerVars

(* The terminator was the acknowledgement: the channel is clean again. *)
Drained == /\ phase = "drained" /\ slot = <<>>
           /\ phase' = "idle" /\ cancelled' = FALSE /\ late' = 0
           /\ UNCHANGED <<slot, asked, parts>> /\ UNCHANGED writerVars

Next == \/ Ask \/ Serve \/ (\E l \in 0..1 : PutHead(l)) \/ PutBody \/ PutEnd
        \/ Refuse \/ Take \/ Cancel \/ Drained

Spec == Init /\ [][Next]_vars
=============================================================================
