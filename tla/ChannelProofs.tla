--------------------------- MODULE ChannelProofs ---------------------------
(***************************************************************************)
(* Machine-checked facts about Channel, for every number of exchanges and  *)
(* of chunks: its type invariant, its safety properties, and that it       *)
(* implements FrameChannel.                                                *)
(*                                                                         *)
(* The argument is the inductive invariant IInv.  Each of its four groups  *)
(* is preserved by every action, one lemma a group; a lemma names the      *)
(* groups it leans on.  Everything else follows from IInv.                 *)
(***************************************************************************)
EXTENDS ChannelInvariant, TLAPS

(* Every run starts in the invariant. *)
LEMMA Initially == Init => IInv
<1> SUFFICES ASSUME Init PROVE IInv
  OBVIOUS
<1> USE ChannelAssumption DEF Init, Bytes, NoBytes
<1>1. TypeOK
  <2>1. <<>> \in Seq(Bytes)
    OBVIOUS
  <2> QED
    BY <2>1 DEF TypeOK
<1>2. HandoverInv
  BY DEF HandoverInv, Handover, Stored, Loaded, Parked, Storing, Taking
<1>3. ThreadsInv
  BY DEF ThreadsInv, PutFits, WriterAt, ReaderAt, Putting, Reading, Taking
<1>4. ReplyInv
  BY DEF ReplyInv, EmptyFits, FullFits, PartsFit, CancelFits, Putting
<1> QED
  BY <1>1, <1>2, <1>3, <1>4 DEF IInv

(* Every variable keeps its range.  The chunk counter stays under its      *)
(* bound because of the arguments put() was called with.                   *)
LEMMA TypeStep ==
  ASSUME TypeOK, ThreadsInv, [Next]_vars
  PROVE  TypeOK'
<1> USE ChannelAssumption
    DEF TypeOK, ThreadsInv, PutFits, WriterAt, ReaderAt,
        Putting, Reading, Taking, HeadPut, BodyPut, EndPut,
        vars, words, writerVars, readerLocals, readerVars, Bytes, Chunk,
            ChunkOf,
        NoBytes
<1>1. CASE Serve
  BY <1>1 DEF Serve, WriterGoes
<1>2. ASSUME NEW l \in 0..1, NextHead(l)
      PROVE  TypeOK'
  BY <1>2 DEF NextHead, WriterGoes
<1>3. CASE NextBody
  BY <1>3 DEF NextBody, WriterGoes
<1>4. CASE NextEnd
  BY <1>4 DEF NextEnd, WriterGoes
<1>5. CASE CheckRefused
  BY <1>5 DEF CheckRefused, WriterGoes, Refused
<1>6. CASE CheckAdmitted
  BY <1>6 DEF CheckAdmitted, WriterGoes, Refused
<1>7. CASE TestFull
  BY <1>7 DEF TestFull, WriterGoes
<1>8. CASE WriterWait
  BY <1>8 DEF WriterWait, WriterGoes
<1>9. CASE SetData
  BY <1>9 DEF SetData, WriterStores
<1>10. CASE SetLen
  BY <1>10 DEF SetLen, WriterStores
<1>11. CASE SetLast
  BY <1>11 DEF SetLast, WriterStores
<1>12. CASE SetFull
  BY <1>12 DEF SetFull
<1>13. CASE NotifyReader
  BY <1>13 DEF NotifyReader
<1>14. CASE WriterSpurious
  BY <1>14 DEF WriterSpurious, WriterGoes
<1>15. CASE Ask
  BY <1>15 DEF Ask, ReaderGoes
<1>16. CASE Read
  BY <1>16 DEF Read, ReaderGoes
<1>17. CASE StoreCancel
  BY <1>17 DEF StoreCancel
<1>18. CASE NotifyCancel
  BY <1>18 DEF NotifyCancel, WakeWriter
<1>19. CASE LoadFull
  BY <1>19 DEF LoadFull, ReaderGoes
<1>20. CASE ReaderWait
  BY <1>20 DEF ReaderWait, ReaderGoes
<1>21. CASE LoadLen
  BY <1>21 DEF LoadLen, ReaderGoes
<1>22. CASE LoadLast
  BY <1>22 DEF LoadLast, ReaderGoes
<1>23. CASE Slice
  BY <1>23 DEF Slice, ReaderGoes
<1>24. CASE ClearFull
  <2>1. phase \in {"head", "body", "drain"}
    BY <1>24 DEF ClearFull
  <2>2. Following(phase) \in {"body", "idle", "drained"}
    BY <2>1 DEF Following
  <2>3. Append(parts, rbytes) \in Seq(Bytes)
    OBVIOUS
  <2>4. phase' \in {"idle", "head", "body", "drain", "drained"}
    BY <1>24, <2>1, <2>2 DEF ClearFull
  <2>5. parts' \in Seq(Bytes)
    <3>1. <<>> \in Seq(Bytes)
      OBVIOUS
    <3> QED
      BY <1>24, <2>3, <3>1 DEF ClearFull
  <2> QED
    BY <1>24, <2>4, <2>5 DEF ClearFull
<1>25. CASE NotifyWriter
  BY <1>25 DEF NotifyWriter, WakeWriter
<1>26. CASE Uncancel
  BY <1>26 DEF Uncancel
<1>27. CASE ReaderSpurious
  BY <1>27 DEF ReaderSpurious, ReaderGoes
<1>28. CASE UNCHANGED vars
  BY <1>28 DEF vars, words, writerVars, readerLocals, readerVars
<1> QED
  BY <1>1, <1>2, <1>3, <1>4, <1>5, <1>6, <1>7, <1>8, <1>9, <1>10, <1>11,
      <1>12, <1>13, <1>14, <1>15, <1>16, <1>17, <1>18, <1>19, <1>20, <1>21,
      <1>22, <1>23, <1>24, <1>25, <1>26, <1>27, <1>28
  DEF Next, WriterStep, ReaderStep, Finished

(* FULL hands the window from one thread to the other, and a thread parks  *)
(* only on a value that a notify will follow the change of.                *)
LEMMA HandoverStep ==
  ASSUME TypeOK, HandoverInv, [Next]_vars
  PROVE  HandoverInv'
<1> USE ChannelAssumption
    DEF TypeOK, HandoverInv, Handover, Stored, Loaded, Parked,
        Storing, Taking, Window, LenOf,
        vars, words, writerVars, readerLocals, readerVars, Bytes, Chunk,
            ChunkOf,
        NoBytes
<1>1. CASE Serve
  BY <1>1 DEF Serve, WriterGoes
<1>2. ASSUME NEW l \in 0..1, NextHead(l)
      PROVE  HandoverInv'
  BY <1>2 DEF NextHead, WriterGoes
<1>3. CASE NextBody
  BY <1>3 DEF NextBody, WriterGoes
<1>4. CASE NextEnd
  BY <1>4 DEF NextEnd, WriterGoes
<1>5. CASE CheckRefused
  BY <1>5 DEF CheckRefused, WriterGoes, Refused
<1>6. CASE CheckAdmitted
  BY <1>6 DEF CheckAdmitted, WriterGoes, Refused
<1>7. CASE TestFull
  BY <1>7 DEF TestFull, WriterGoes
<1>8. CASE WriterWait
  BY <1>8 DEF WriterWait, WriterGoes
<1>9. CASE SetData
  BY <1>9 DEF SetData, WriterStores
<1>10. CASE SetLen
  BY <1>10 DEF SetLen, WriterStores
<1>11. CASE SetLast
  BY <1>11 DEF SetLast, WriterStores
<1>12. CASE SetFull
  BY <1>12 DEF SetFull
<1>13. CASE NotifyReader
  BY <1>13 DEF NotifyReader
<1>14. CASE WriterSpurious
  BY <1>14 DEF WriterSpurious, WriterGoes
<1>15. CASE Ask
  BY <1>15 DEF Ask, ReaderGoes
<1>16. CASE Read
  BY <1>16 DEF Read, ReaderGoes
<1>17. CASE StoreCancel
  BY <1>17 DEF StoreCancel
<1>18. CASE NotifyCancel
  BY <1>18 DEF NotifyCancel, WakeWriter
<1>19. CASE LoadFull
  BY <1>19 DEF LoadFull, ReaderGoes
<1>20. CASE ReaderWait
  BY <1>20 DEF ReaderWait, ReaderGoes
<1>21. CASE LoadLen
  BY <1>21 DEF LoadLen, ReaderGoes
<1>22. CASE LoadLast
  BY <1>22 DEF LoadLast, ReaderGoes
<1>23. CASE Slice
  BY <1>23 DEF Slice, ReaderGoes
<1>24. CASE ClearFull
  BY <1>24 DEF ClearFull, Following
<1>25. CASE NotifyWriter
  BY <1>25 DEF NotifyWriter, WakeWriter
<1>26. CASE Uncancel
  BY <1>26 DEF Uncancel
<1>27. CASE ReaderSpurious
  BY <1>27 DEF ReaderSpurious, ReaderGoes
<1>28. CASE UNCHANGED vars
  BY <1>28 DEF vars, words, writerVars, readerLocals, readerVars
<1> QED
  BY <1>1, <1>2, <1>3, <1>4, <1>5, <1>6, <1>7, <1>8, <1>9, <1>10, <1>11,
      <1>12, <1>13, <1>14, <1>15, <1>16, <1>17, <1>18, <1>19, <1>20, <1>21,
      <1>22, <1>23, <1>24, <1>25, <1>26, <1>27, <1>28
  DEF Next, WriterStep, ReaderStep, Finished

(* Where the threads stand: what put() was called with, and which          *)
(* operations each phase of an exchange allows.                            *)
LEMMA ThreadsStep ==
  ASSUME TypeOK, ThreadsInv, ReplyInv, [Next]_vars
  PROVE  ThreadsInv'
<1> USE ChannelAssumption
    DEF TypeOK, ThreadsInv, PutFits, WriterAt, ReaderAt, ReplyInv, EmptyFits,
        FullFits, CancelFits,
        Putting, Reading, Taking, HeadPut, BodyPut, EndPut,
        vars, words, writerVars, readerLocals, readerVars, Bytes, Chunk,
            ChunkOf,
        NoBytes
<1>1. CASE Serve
  BY <1>1 DEF Serve, WriterGoes
<1>2. ASSUME NEW l \in 0..1, NextHead(l)
      PROVE  ThreadsInv'
  BY <1>2 DEF NextHead, WriterGoes
<1>3. CASE NextBody
  BY <1>3 DEF NextBody, WriterGoes
<1>4. CASE NextEnd
  BY <1>4 DEF NextEnd, WriterGoes
<1>5. CASE CheckRefused
  BY <1>5 DEF CheckRefused, WriterGoes, Refused
<1>6. CASE CheckAdmitted
  BY <1>6 DEF CheckAdmitted, WriterGoes, Refused
<1>7. CASE TestFull
  BY <1>7 DEF TestFull, WriterGoes
<1>8. CASE WriterWait
  BY <1>8 DEF WriterWait, WriterGoes
<1>9. CASE SetData
  BY <1>9 DEF SetData, WriterStores
<1>10. CASE SetLen
  BY <1>10 DEF SetLen, WriterStores
<1>11. CASE SetLast
  BY <1>11 DEF SetLast, WriterStores
<1>12. CASE SetFull
  BY <1>12 DEF SetFull
<1>13. CASE NotifyReader
  BY <1>13 DEF NotifyReader
<1>14. CASE WriterSpurious
  BY <1>14 DEF WriterSpurious, WriterGoes
<1>15. CASE Ask
  BY <1>15 DEF Ask, ReaderGoes
<1>16. CASE Read
  BY <1>16 DEF Read, ReaderGoes
<1>17. CASE StoreCancel
  BY <1>17 DEF StoreCancel
<1>18. CASE NotifyCancel
  BY <1>18 DEF NotifyCancel, WakeWriter
<1>19. CASE LoadFull
  BY <1>19 DEF LoadFull, ReaderGoes
<1>20. CASE ReaderWait
  BY <1>20 DEF ReaderWait, ReaderGoes
<1>21. CASE LoadLen
  BY <1>21 DEF LoadLen, ReaderGoes
<1>22. CASE LoadLast
  BY <1>22 DEF LoadLast, ReaderGoes
<1>23. CASE Slice
  BY <1>23 DEF Slice, ReaderGoes
<1>24. CASE ClearFull
  BY <1>24 DEF ClearFull, Following
<1>25. CASE NotifyWriter
  BY <1>25 DEF NotifyWriter, WakeWriter
<1>26. CASE Uncancel
  BY <1>26 DEF Uncancel
<1>27. CASE ReaderSpurious
  BY <1>27 DEF ReaderSpurious, ReaderGoes
<1>28. CASE UNCHANGED vars
  BY <1>28 DEF vars, words, writerVars, readerLocals, readerVars
<1> QED
  BY <1>1, <1>2, <1>3, <1>4, <1>5, <1>6, <1>7, <1>8, <1>9, <1>10, <1>11,
      <1>12, <1>13, <1>14, <1>15, <1>16, <1>17, <1>18, <1>19, <1>20, <1>21,
      <1>22, <1>23, <1>24, <1>25, <1>26, <1>27, <1>28
  DEF Next, WriterStep, ReaderStep, Finished

(* The frame in the slot is the one the reader is waiting for, and the     *)
(* writer is exactly one frame ahead of the reader or level with it.       *)
LEMMA ReplyStep ==
  ASSUME TypeOK, HandoverInv, ThreadsInv, ReplyInv, [Next]_vars
  PROVE  ReplyInv'
<1> USE ChannelAssumption
    DEF TypeOK, HandoverInv, Handover, Stored, Loaded, ThreadsInv, PutFits,
        WriterAt, ReaderAt, ReplyInv, EmptyFits, FullFits, PartsFit,
        CancelFits,
        Putting, Storing, Reading, Taking, Window, LenOf, HeadPut, BodyPut,
            EndPut,
        vars, words, writerVars, readerLocals, readerVars, Bytes, Chunk,
            ChunkOf,
        NoBytes
<1>1. CASE Serve
  BY <1>1 DEF Serve, WriterGoes
<1>2. ASSUME NEW l \in 0..1, NextHead(l)
      PROVE  ReplyInv'
  BY <1>2 DEF NextHead, WriterGoes
<1>3. CASE NextBody
  BY <1>3 DEF NextBody, WriterGoes
<1>4. CASE NextEnd
  BY <1>4 DEF NextEnd, WriterGoes
<1>5. CASE CheckRefused
  BY <1>5 DEF CheckRefused, WriterGoes, Refused
<1>6. CASE CheckAdmitted
  BY <1>6 DEF CheckAdmitted, WriterGoes, Refused
<1>7. CASE TestFull
  BY <1>7 DEF TestFull, WriterGoes
<1>8. CASE WriterWait
  BY <1>8 DEF WriterWait, WriterGoes
<1>9. CASE SetData
  BY <1>9 DEF SetData, WriterStores
<1>10. CASE SetLen
  BY <1>10 DEF SetLen, WriterStores
<1>11. CASE SetLast
  BY <1>11 DEF SetLast, WriterStores
<1>12. CASE SetFull
  BY <1>12 DEF SetFull
<1>13. CASE NotifyReader
  BY <1>13 DEF NotifyReader
<1>14. CASE WriterSpurious
  BY <1>14 DEF WriterSpurious, WriterGoes
<1>15. CASE Ask
  BY <1>15 DEF Ask, ReaderGoes
<1>16. CASE Read
  BY <1>16 DEF Read, ReaderGoes
<1>17. CASE StoreCancel
  BY <1>17 DEF StoreCancel
<1>18. CASE NotifyCancel
  BY <1>18 DEF NotifyCancel, WakeWriter
<1>19. CASE LoadFull
  BY <1>19 DEF LoadFull, ReaderGoes
<1>20. CASE ReaderWait
  BY <1>20 DEF ReaderWait, ReaderGoes
<1>21. CASE LoadLen
  BY <1>21 DEF LoadLen, ReaderGoes
<1>22. CASE LoadLast
  BY <1>22 DEF LoadLast, ReaderGoes
<1>23. CASE Slice
  BY <1>23 DEF Slice, ReaderGoes
<1>24. CASE ClearFull
  <2>1. /\ full = 1 /\ rlast = last /\ rbytes = Window
        /\ phase \in {"head", "body", "drain"}
    BY <1>24 DEF ClearFull
  <2>2. full' = 0 /\ FullFits'
    BY <1>24 DEF ClearFull
  <2>3. CASE last = 1
    <3>1. phase' = Following(phase) /\ parts' = <<>>
      BY <1>24, <2>1, <2>3 DEF ClearFull
    <3>2. EmptyFits' /\ PartsFit' /\ CancelFits'
      BY <1>24, <2>1, <2>3, <3>1 DEF ClearFull, Following
    <3> QED
      BY <2>2, <3>2
  <2>4. CASE last = 0 /\ phase = "drain"
    <3>1. phase' = phase /\ parts' = parts
      BY <1>24, <2>1, <2>4 DEF ClearFull
    <3> QED
      BY <1>24, <2>1, <2>4, <3>1 DEF ClearFull
  <2>5. CASE last = 0 /\ phase \in {"head", "body"}
    <3>1. phase' = phase /\ parts' = Append(parts, rbytes)
      BY <1>24, <2>1, <2>5 DEF ClearFull
    <3>2. rbytes = ChunkOf(asked, phase, Len(parts) + 1)
      BY <2>1, <2>5
    <3>3. /\ Len(parts') = Len(parts) + 1
          /\ parts'[Len(parts) + 1] = rbytes
          /\ \A k \in 1..Len(parts) : parts'[k] = parts[k]
      BY <3>1
    <3>4. PartsFit'
      <4>1. asked' = asked
        BY <1>24 DEF ClearFull
      <4>2. \A k \in 1..Len(parts) : parts[k] = ChunkOf(asked, phase, k)
        BY <2>5
      <4>3. ASSUME NEW k \in 1..Len(parts')
            PROVE  parts'[k] = ChunkOf(asked, phase, k)
        <5>1. k \in 1..Len(parts) \/ k = Len(parts) + 1
          BY <3>3
        <5> QED
          BY <3>2, <3>3, <4>2, <5>1
      <4> QED
        BY <3>1, <4>1, <4>3
    <3>5. EmptyFits' /\ CancelFits'
      BY <1>24, <2>1, <2>5, <3>1, <3>3 DEF ClearFull
    <3> QED
      BY <2>2, <3>4, <3>5
  <2> QED
    BY <2>1, <2>3, <2>4, <2>5
<1>25. CASE NotifyWriter
  BY <1>25 DEF NotifyWriter, WakeWriter
<1>26. CASE Uncancel
  BY <1>26 DEF Uncancel
<1>27. CASE ReaderSpurious
  BY <1>27 DEF ReaderSpurious, ReaderGoes
<1>28. CASE UNCHANGED vars
  BY <1>28 DEF vars, words, writerVars, readerLocals, readerVars
<1> QED
  BY <1>1, <1>2, <1>3, <1>4, <1>5, <1>6, <1>7, <1>8, <1>9, <1>10, <1>11,
      <1>12, <1>13, <1>14, <1>15, <1>16, <1>17, <1>18, <1>19, <1>20, <1>21,
      <1>22, <1>23, <1>24, <1>25, <1>26, <1>27, <1>28
  DEF Next, WriterStep, ReaderStep, Finished

(* Every step keeps it. *)
THEOREM IInvInductive == IInv /\ [Next]_vars => IInv'
<1> SUFFICES ASSUME IInv, [Next]_vars PROVE IInv'
  OBVIOUS
<1>1. TypeOK'
  BY TypeStep DEF IInv
<1>2. HandoverInv'
  BY HandoverStep DEF IInv
<1>3. ThreadsInv'
  BY ThreadsStep DEF IInv
<1>4. ReplyInv'
  BY ReplyStep DEF IInv
<1> QED
  BY <1>1, <1>2, <1>3, <1>4 DEF IInv

(* The inductive invariant holds in every reachable state of the channel.  *)
THEOREM Invariance == Spec => []IInv
BY Initially, IInvInductive, PTL DEF Spec

(* Every word, program counter and local of channel.mjs keeps its type.    *)
THEOREM TypeCorrect == Spec => []TypeOK
<1>1. IInv => TypeOK
  BY DEF IInv
<1> QED
  BY Invariance, <1>1, PTL

(* put() never stores into the window while read() is taking a frame out.  *)
THEOREM WindowSafe == Spec => []WindowExclusion
<1>1. IInv => WindowExclusion
  BY DEF IInv, HandoverInv, Handover, Storing, Taking, WindowExclusion
<1> QED
  BY Invariance, <1>1, PTL

(* read() and readAll() give the guest the chunks of its own exchange and  *)
(* message, from the first one, in order.                                  *)
THEOREM MessagesIntact == Spec => []MessageIntact
<1>1. IInv => MessageIntact
  BY DEF IInv, TypeOK, ReplyInv, EmptyFits, FullFits, PartsFit, MessageIntact
<1> QED
  BY Invariance, <1>1, PTL

(* After the last frame, cancelled or not, the channel is as it was made.  *)
THEOREM LeftClean == Spec => []CleanBetweenExchanges
<1>1. IInv => CleanBetweenExchanges
  BY DEF IInv, TypeOK, ThreadsInv, WriterAt, ReplyInv, EmptyFits, FullFits,
         CancelFits, CleanBetweenExchanges
<1> QED
  BY Invariance, <1>1, PTL

(* The CANCEL flag of one exchange never refuses the head of the next.     *)
THEOREM HeadsPass == Spec => []HeadNeverRefused
<1>1. IInv => HeadNeverRefused
  BY DEF IInv, TypeOK, ReplyInv, EmptyFits, FullFits, CancelFits,
         HeadNeverRefused
<1> QED
  BY Invariance, <1>1, PTL

(* After cancel(), put() accepts at most one more frame of the body. *)
THEOREM CancelIsPrompt == Spec => []CancelStops
<1>1. IInv => CancelStops
  BY DEF IInv, ReplyInv, CancelFits, CancelStops
<1> QED
  BY Invariance, <1>1, PTL

(* The two threads never wait for each other inside the channel. *)
THEOREM NoMutualWait == Spec => []NeverBothAsleep
<1>1. IInv => NeverBothAsleep
  BY DEF IInv, TypeOK, HandoverInv, Parked, NeverBothAsleep
<1> QED
  BY Invariance, <1>1, PTL

-----------------------------------------------------------------------------
(* The refinement: the stores of FULL are the steps that hand a frame over *)
(* and take it; CANCEL and the calls of the two threads are steps as they  *)
(* are; every other operation leaves the slot as it was.                   *)

(* An empty channel is an empty slot. *)
LEMMA RefinesInit == Init => Frames!Init
BY DEF Init, Frames!Init, Slot

(* Storing a word of a frame not yet handed over changes nothing visible,  *)
(* since the window is the writer's until FULL is set.                     *)
LEMMA RefinesStep == IInv /\ [Next]_vars => [Frames!Next]_Frames!vars
<1> SUFFICES ASSUME IInv, [Next]_vars PROVE [Frames!Next]_Frames!vars
  OBVIOUS
<1> USE ChannelAssumption
    DEF IInv, TypeOK, Slot, Frames!vars, words, writerVars, readerLocals,
        readerVars, Frames!readerVars, Frames!writerVars
<1>1. CASE Serve
  <2>1. Frames!Serve
    BY <1>1 DEF Serve, WriterGoes, ThreadsInv, WriterAt, Frames!Serve
  <2> QED
    BY <2>1 DEF Frames!Next
<1>2. ASSUME NEW l \in 0..1, NextHead(l)
      PROVE  [Frames!Next]_Frames!vars
  BY <1>2 DEF NextHead, WriterGoes
<1>3. CASE NextBody
  BY <1>3 DEF NextBody, WriterGoes
<1>4. CASE NextEnd
  BY <1>4 DEF NextEnd, WriterGoes
<1>5. CASE CheckRefused
  <2>1. stage = "body" /\ cancel = 1
    BY <1>5 DEF CheckRefused, Refused, WriterGoes, ThreadsInv, PutFits,
       Putting, HeadPut, BodyPut, EndPut, ReplyInv, EmptyFits, FullFits,
       CancelFits
  <2>2. Frames!Refuse
    BY <1>5, <2>1 DEF CheckRefused, WriterGoes, Frames!Refuse
  <2> QED
    BY <2>2 DEF Frames!Next
<1>6. CASE CheckAdmitted
  BY <1>6 DEF CheckAdmitted, WriterGoes, Refused
<1>7. CASE TestFull
  BY <1>7 DEF TestFull, WriterGoes
<1>8. CASE WriterWait
  BY <1>8 DEF WriterWait, WriterGoes
<1>9. CASE SetData
  <2>1. full = 0
    BY <1>9 DEF SetData, WriterStores, HandoverInv, Handover, Storing
  <2> QED
    BY <1>9, <2>1 DEF SetData, WriterStores
<1>10. CASE SetLen
  <2>1. full = 0
    BY <1>10 DEF SetLen, WriterStores, HandoverInv, Handover, Storing
  <2> QED
    BY <1>10, <2>1 DEF SetLen, WriterStores
<1>11. CASE SetLast
  <2>1. full = 0
    BY <1>11 DEF SetLast, WriterStores, HandoverInv, Handover, Storing
  <2> QED
    BY <1>11, <2>1 DEF SetLast, WriterStores
<1>12. CASE SetFull
  <2>1. /\ full = 0 /\ last = put.last
        /\ (IF len = 0 THEN NoBytes ELSE data) = put.bytes
    BY <1>12 DEF SetFull, HandoverInv, Handover, Stored, Storing, LenOf
  <2>2. Slot = <<>> /\ Slot' = <<[bytes |-> put.bytes, last |-> put.last]>>
    BY <1>12, <2>1 DEF SetFull
  <2>3. HeadPut \/ BodyPut \/ EndPut
    BY <1>12 DEF SetFull, ThreadsInv, PutFits, Putting
  <2>4. CASE HeadPut
    <3>1. cancel = 0
      BY <2>4 DEF HeadPut, ReplyInv, EmptyFits, FullFits, CancelFits
    <3>2. Frames!PutHead(put.last)
      BY <1>12, <2>2, <2>4, <3>1 DEF SetFull, HeadPut, Frames!PutHead,
         ChunkOf, Frames!ChunkOf
    <3> QED
      BY <3>2 DEF Frames!Next
  <2>5. CASE BodyPut
    <3>1. cancel = 1 => late = 0
      BY <1>12, <2>5 DEF SetFull, BodyPut, ReplyInv, CancelFits, Putting
    <3>2. Frames!PutBody
      BY <1>12, <2>2, <2>5, <3>1 DEF SetFull, BodyPut, Frames!PutBody,
         ChunkOf, Frames!ChunkOf
    <3> QED
      BY <3>2 DEF Frames!Next
  <2>6. CASE EndPut
    <3>1. Frames!PutEnd
      BY <1>12, <2>2, <2>6 DEF SetFull, EndPut, Frames!PutEnd, NoBytes,
         Frames!NoBytes
    <3> QED
      BY <3>1 DEF Frames!Next
  <2> QED
    BY <2>3, <2>4, <2>5, <2>6
<1>13. CASE NotifyReader
  BY <1>13 DEF NotifyReader
<1>14. CASE WriterSpurious
  BY <1>14 DEF WriterSpurious, WriterGoes
<1>15. CASE Ask
  <2>1. Frames!Ask
    BY <1>15 DEF Ask, ReaderGoes, Frames!Ask
  <2> QED
    BY <2>1 DEF Frames!Next
<1>16. CASE Read
  BY <1>16 DEF Read, ReaderGoes
<1>17. CASE StoreCancel
  <2>1. Frames!Cancel
    BY <1>17 DEF StoreCancel, Frames!Cancel
  <2> QED
    BY <2>1 DEF Frames!Next
<1>18. CASE NotifyCancel
  BY <1>18 DEF NotifyCancel, WakeWriter
<1>19. CASE LoadFull
  BY <1>19 DEF LoadFull, ReaderGoes
<1>20. CASE ReaderWait
  BY <1>20 DEF ReaderWait, ReaderGoes
<1>21. CASE LoadLen
  BY <1>21 DEF LoadLen, ReaderGoes
<1>22. CASE LoadLast
  BY <1>22 DEF LoadLast, ReaderGoes
<1>23. CASE Slice
  BY <1>23 DEF Slice, ReaderGoes
<1>24. CASE ClearFull
  <2>1. /\ full = 1 /\ rlast = last
        /\ rbytes = IF len = 0 THEN NoBytes ELSE data
        /\ phase \in {"head", "body", "drain"}
    BY <1>24 DEF ClearFull, HandoverInv, Handover, Loaded, Window, Taking,
       ThreadsInv, ReaderAt, Reading
  <2>2. Slot' = <<>> /\ Slot = <<[bytes |-> rbytes, last |-> rlast]>>
    BY <1>24, <2>1 DEF ClearFull
  <2>3. Slot # <<>> /\ Slot[1].last = rlast /\ Slot[1].bytes = rbytes
    BY <2>2
  <2>4. Frames!Following(phase) = Following(phase)
    BY DEF Following, Frames!Following
  <2>5. Frames!Take
    BY <1>24, <2>1, <2>2, <2>3, <2>4 DEF ClearFull, Frames!Take
  <2> QED
    BY <2>5 DEF Frames!Next
<1>25. CASE NotifyWriter
  BY <1>25 DEF NotifyWriter, WakeWriter
<1>26. CASE Uncancel
  <2>1. phase = "drained" /\ full = 0
    BY <1>26 DEF Uncancel, ThreadsInv, ReaderAt, ReplyInv, FullFits
  <2>2. Frames!Drained
    BY <1>26, <2>1 DEF Uncancel, Frames!Drained
  <2> QED
    BY <2>2 DEF Frames!Next
<1>27. CASE ReaderSpurious
  BY <1>27 DEF ReaderSpurious, ReaderGoes
<1>28. CASE UNCHANGED vars
  BY <1>28 DEF vars
<1> QED
  BY <1>1, <1>2, <1>3, <1>4, <1>5, <1>6, <1>7, <1>8, <1>9, <1>10, <1>11,
     <1>12, <1>13, <1>14, <1>15, <1>16, <1>17, <1>18, <1>19, <1>20, <1>21,
     <1>22, <1>23, <1>24, <1>25, <1>26, <1>27, <1>28
  DEF Next, WriterStep, ReaderStep, Finished

(* channel.mjs implements a slot of one frame handed over in single steps, *)
(* in which a head is never refused and a cancel lets one frame through.   *)
THEOREM RefinesFrames == Spec => FramesSpec
<1>1. Spec => Frames!Init /\ [][Frames!Next]_Frames!vars
  BY RefinesInit, RefinesStep, Invariance, PTL DEF Spec
<1> QED
  BY <1>1 DEF FramesSpec, Frames!Spec
=============================================================================
