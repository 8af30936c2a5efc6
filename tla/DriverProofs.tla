---------------------------- MODULE DriverProofs ----------------------------
(***************************************************************************)
(* Two drivers of the firmware.  The transmit buffer: no response byte is  *)
(* lost, repeated or sent early, for every size of the buffer and every    *)
(* length of the messages, while the 8 bit counters do not roll over; and  *)
(* the guard is released whatever happens; with the console of the Linux   *)
(* build as the other end of the wire (MCWire).  The analog inputs: what   *)
(* is reported is a whole run of samples of its own pin.                   *)
(***************************************************************************)
EXTENDS MCWire, AnalogIn, TLAPS

\* A message alone fits below the range of the counters.
LengthsFit == \A len \in Lengths : len < PosRange

Typed ==
  /\ transmit_buf \in [0 .. BufSize - 1 -> Label \cup {NoByte}]
  /\ transmit_pos \in Nat /\ transmit_max \in Nat /\ transmit_max < PosRange
  /\ tpos \in Nat /\ tmax \in Nat
  /\ pending \in Seq(Label)
  /\ tx \in {"idle", "position", "maximum", "space", "rewind", "write", "commit",
             "enable", "release", "end"}
  /\ tx \notin {"idle", "end"} => msglen \in Lengths

\* Only between the two writes of Rewind is the position past the maximum.
PositionInside ==
  transmit_pos <= transmit_max \/ (transmit_max = 0 /\ tx \notin {"write", "commit", "enable", "release"})

\* What the local variables know of the counters the interrupt moves
Located ==
  /\ tx = "position" => transmit_pos >= transmit_max \/ transmit_max + msglen < PosRange
  /\ tx = "maximum" => tpos <= transmit_pos /\ (tpos >= transmit_max \/ transmit_max + msglen < PosRange)
  /\ tx = "space" => /\ tmax = transmit_max /\ tpos <= transmit_pos
                     /\ tpos >= tmax \/ tmax + msglen < PosRange
  /\ tx = "rewind" => tmax = 0 /\ transmit_max = 0
  /\ tx \in {"write", "commit"} => tmax = transmit_max /\ tmax + msglen < PosRange

Written ==
  tx = "commit" =>
    \E label \in Label : \A i \in tmax .. tmax + msglen - 1 : transmit_buf[i] = label

PendingLength == Len(pending) = IF transmit_pos >= transmit_max THEN 0 ELSE transmit_max - transmit_pos
PendingBytes == \A i \in 1 .. Len(pending) : transmit_buf[transmit_pos + i - 1] = pending[i]

IInvTx == Typed /\ PositionInside /\ Located /\ Written /\ PendingLength /\ PendingBytes

LEMMA ConstantsTyped ==
  /\ PosRange \in Nat \ {0} /\ BufSize \in Nat
  /\ \A len \in Lengths : len \in Nat /\ len >= 1 /\ PosRange - 1 + len <= BufSize
BY TxAssumption, CompactionIsDead DEF TxAssumption, CompactionIsDead

LEMMA LengthTyped ==
  ASSUME Typed, tx \notin {"idle", "end"}
  PROVE  msglen \in Nat /\ msglen >= 1 /\ PosRange + msglen <= BufSize + 1
BY ConstantsTyped DEF Typed

\* An 8 bit value in range is not changed by the roll-over.
LEMMA ModSmall == ASSUME NEW m \in Nat, NEW n \in Nat, m < n PROVE m % n = m
OBVIOUS

LEMMA ConcatTyped ==
  ASSUME NEW S, NEW p \in Seq(S), NEW q \in Seq(S)
  PROVE  p \o q \in Seq(S) /\ Len(p \o q) = Len(p) + Len(q)
OBVIOUS

LEMMA InitHolds == ASSUME InitTx PROVE IInvTx
BY ConstantsTyped DEF InitTx, IInvTx, Typed, PositionInside, Located, Written, PendingLength, PendingBytes

\* The steps that leave the buffer, the counters and the queue alone.
LEMMA QueueUntouched ==
  ASSUME IInvTx, UNCHANGED <<transmit_buf, transmit_pos, transmit_max, pending>>
  PROVE  PendingLength' /\ PendingBytes'
BY DEF IInvTx, PendingLength, PendingBytes

LEMMA GuardStep == ASSUME IInvTx, Paced, NEW len \in Lengths, Guard(len) PROVE IInvTx'
<1>1. PendingLength' /\ PendingBytes'
  BY QueueUntouched DEF Guard
<1>2. Typed' /\ PositionInside' /\ Written'
  BY DEF IInvTx, Guard, Typed, PositionInside, Written
<1>3. Located'
  BY DEF IInvTx, Guard, Typed, Located
<1> QED
  BY <1>1, <1>2, <1>3 DEF IInvTx

LEMMA ReadStep == ASSUME IInvTx, ReadPosition \/ ReadMaximum \/ AppendAfter PROVE IInvTx'
<1>1. PendingLength' /\ PendingBytes'
  BY QueueUntouched DEF ReadPosition, ReadMaximum, AppendAfter, localVars
<1>2. CASE ReadPosition
  <2>1. Typed' /\ PositionInside' /\ Written'
    BY <1>2 DEF IInvTx, ReadPosition, Typed, PositionInside, Written
  <2>2. Located'
    BY <1>2, ConstantsTyped DEF IInvTx, ReadPosition, Typed, Located
  <2> QED
    BY <1>1, <2>1, <2>2 DEF IInvTx
<1>3. CASE ReadMaximum
  <2>1. Typed' /\ PositionInside' /\ Written'
    BY <1>3 DEF IInvTx, ReadMaximum, Typed, PositionInside, Written
  <2>2. Located'
    BY <1>3 DEF IInvTx, ReadMaximum, Typed, Located
  <2> QED
    BY <1>1, <2>1, <2>2 DEF IInvTx
<1>4. CASE AppendAfter
  <2>1. Typed' /\ Written' /\ Located'
    BY <1>4 DEF IInvTx, AppendAfter, Typed, Written, Located, localVars
  <2>2. PositionInside'
    BY <1>4 DEF IInvTx, AppendAfter, Typed, PositionInside, Located, localVars
  <2> QED
    BY <1>1, <2>1, <2>2 DEF IInvTx
<1> QED
  BY <1>2, <1>3, <1>4

LEMMA RewindStep == ASSUME LengthsFit, IInvTx, Rewind \/ RewindPosition PROVE IInvTx'
<1>1. CASE Rewind
  <2>1. transmit_pos >= transmit_max /\ transmit_max' = 0 /\ transmit_pos' = transmit_pos
    BY <1>1 DEF IInvTx, Rewind, Typed, Located
  <2>2. pending = <<>> /\ pending' = pending /\ Len(pending) = 0
    BY <1>1, <2>1 DEF IInvTx, Rewind, Typed, PendingLength
  <2>3. PendingLength' /\ PendingBytes'
    BY <2>1, <2>2 DEF IInvTx, Typed, PendingLength, PendingBytes
  <2>4. Typed' /\ PositionInside' /\ Located' /\ Written'
    BY <1>1, ConstantsTyped DEF IInvTx, Rewind, Typed, PositionInside, Located, Written
  <2> QED
    BY <2>3, <2>4 DEF IInvTx
<1>2. CASE RewindPosition
  <2>1. transmit_max = 0 /\ transmit_max' = 0 /\ transmit_pos' = 0
    BY <1>2 DEF IInvTx, RewindPosition, Located
  <2>2. pending' = pending /\ Len(pending) = 0
    BY <1>2, <2>1 DEF IInvTx, RewindPosition, Typed, PendingLength
  <2>3. PendingLength' /\ PendingBytes'
    BY <2>1, <2>2 DEF PendingLength, PendingBytes
  <2>4. msglen \in Lengths /\ msglen \in Nat /\ 0 + msglen < PosRange
    BY <1>2, ConstantsTyped DEF RewindPosition, IInvTx, Typed, LengthsFit
  <2>5. Typed' /\ PositionInside' /\ Located' /\ Written'
    BY <1>2, <2>1, <2>4, ConstantsTyped DEF IInvTx, RewindPosition, localVars, Typed, PositionInside, Located, Written
  <2> QED
    BY <2>3, <2>5 DEF IInvTx
<1> QED
  BY <1>1, <1>2

LEMMA WriteStep == ASSUME IInvTx, WriteMessage PROVE IInvTx'
<1>1. PICK label \in Label :
        transmit_buf' = [i \in 0 .. BufSize - 1 |->
                           IF i \in tmax .. tmax + msglen - 1 THEN label ELSE transmit_buf[i]]
  BY DEF WriteMessage, IInvTx, Typed
<1>2. /\ tx = "write" /\ tx' = "commit"
      /\ UNCHANGED <<transmit_pos, transmit_max, tpos, tmax, msglen, pending>>
  BY DEF WriteMessage, localVars
<1>3. /\ msglen \in Nat /\ msglen >= 1 /\ tmax = transmit_max /\ tmax \in Nat /\ transmit_pos \in Nat
      /\ tmax + msglen < BufSize + 1 /\ BufSize \in Nat
  BY <1>2, LengthTyped, ConstantsTyped DEF IInvTx, Typed, Located
<1>4. transmit_buf' \in [0 .. BufSize - 1 -> Label \cup {NoByte}]
  <2>1. \A i \in 0 .. BufSize - 1 :
          (IF i \in tmax .. tmax + msglen - 1 THEN label ELSE transmit_buf[i]) \in Label \cup {NoByte}
    BY DEF IInvTx, Typed
  <2> QED
    BY <1>1, <2>1
<1>5. Typed' /\ PositionInside' /\ Located'
  BY <1>2, <1>4 DEF IInvTx, Typed, PositionInside, Located
<1>6. Written'
  <2>1. \A i \in tmax .. tmax + msglen - 1 : transmit_buf'[i] = label
    BY <1>1, <1>3
  <2> QED
    BY <1>2, <2>1 DEF Written
<1>7. PendingLength'
  BY <1>2 DEF IInvTx, PendingLength
<1>8. PendingBytes'
  <2> SUFFICES ASSUME NEW i \in 1 .. Len(pending)
               PROVE  transmit_buf'[transmit_pos + i - 1] = pending[i]
    BY <1>2 DEF PendingBytes
  <2>1. transmit_buf[transmit_pos + i - 1] = pending[i]
    BY DEF IInvTx, PendingBytes
  <2>2. transmit_pos + i - 1 \in 0 .. BufSize - 1 /\ transmit_pos + i - 1 < tmax
    BY <1>3 DEF IInvTx, Typed, PendingLength
  <2> QED
    BY <1>1, <1>3, <2>1, <2>2
<1> QED
  BY <1>5, <1>6, <1>7, <1>8 DEF IInvTx

LEMMA CommitStep == ASSUME IInvTx, Commit PROVE IInvTx'
<1>1. /\ tx = "commit" /\ tx' = "enable"
      /\ transmit_max' = (transmit_max + msglen) % PosRange
      /\ pending' = pending \o Message(transmit_buf[tmax])
      /\ UNCHANGED <<transmit_buf, transmit_pos, tpos, tmax, msglen>>
  BY DEF Commit, localVars
<1>2. /\ msglen \in Nat /\ msglen >= 1 /\ tmax = transmit_max
      /\ transmit_max \in Nat /\ transmit_pos \in Nat /\ transmit_max + msglen < PosRange
      /\ transmit_pos <= transmit_max /\ PosRange \in Nat
  BY <1>1, LengthTyped, ConstantsTyped DEF IInvTx, Typed, Located, PositionInside
<1>3. transmit_max' = transmit_max + msglen
  <2>1. transmit_max + msglen \in Nat
    BY <1>2
  <2> QED
    BY <1>1, <1>2, <2>1, ModSmall
<1>4. PICK label \in Label : \A i \in tmax .. tmax + msglen - 1 : transmit_buf[i] = label
  BY <1>1 DEF IInvTx, Written
<1>5. transmit_buf[tmax] = label
  BY <1>2, <1>4
<1> DEFINE new == [i \in 1 .. msglen |-> label]
<1>6. pending' = pending \o new /\ new \in Seq(Label) /\ Len(new) = msglen /\ pending \in Seq(Label)
  BY <1>1, <1>2, <1>5 DEF Message, IInvTx, Typed
<1>7. \A i \in 1 .. msglen : new[i] = label
  OBVIOUS
<1>8. Len(pending) = transmit_max - transmit_pos
  BY <1>2 DEF IInvTx, PendingLength
<1> HIDE DEF new
<1>9. pending' \in Seq(Label) /\ Len(pending') = transmit_max' - transmit_pos
  <2>1. pending' \in Seq(Label) /\ Len(pending') = Len(pending) + Len(new)
    BY <1>6, ConcatTyped
  <2> QED
    BY <2>1, <1>2, <1>3, <1>6, <1>8
<1>10. Typed' /\ PositionInside' /\ Located' /\ Written' /\ PendingLength'
  <2>1. Typed'
    BY <1>1, <1>2, <1>3, <1>9 DEF IInvTx, Typed
  <2>2. PositionInside' /\ PendingLength'
    BY <1>1, <1>2, <1>3, <1>9 DEF PositionInside, PendingLength
  <2>3. Located' /\ Written'
    BY <1>1 DEF Located, Written
  <2> QED
    BY <2>1, <2>2, <2>3
<1>11. PendingBytes'
  <2> SUFFICES ASSUME NEW i \in 1 .. Len(pending')
               PROVE  transmit_buf[transmit_pos + i - 1] = pending'[i]
    BY <1>1 DEF PendingBytes
  <2>1. CASE i <= Len(pending)
    BY <2>1, <1>6, <1>8, <1>9 DEF IInvTx, PendingBytes
  <2>2. CASE i > Len(pending)
    <3>1. i - Len(pending) \in 1 .. msglen /\ pending'[i] = new[i - Len(pending)]
      BY <2>2, <1>2, <1>3, <1>6, <1>8, <1>9
    <3>2. transmit_pos + i - 1 \in tmax .. tmax + msglen - 1
      BY <2>2, <1>2, <1>3, <1>8, <1>9
    <3> QED
      BY <3>1, <3>2, <1>4, <1>7
  <2> QED
    BY <2>1, <2>2, <1>2, <1>8
<1> QED
  BY <1>10, <1>11 DEF IInvTx

LEMMA EndStep == ASSUME IInvTx, EnableIrq \/ Release \/ IrqShutdownTx \/ task_end_tx PROVE IInvTx'
<1>1. /\ UNCHANGED <<transmit_buf, transmit_pos, transmit_max, tpos, tmax, msglen, pending>>
      /\ \/ tx = "enable" /\ tx' = "release"
         \/ tx' = "idle" \/ tx' = "end"
  BY DEF EnableIrq, Release, IrqShutdownTx, task_end_tx, localVars
<1>2. PendingLength' /\ PendingBytes'
  BY <1>1, QueueUntouched
<1>3. Typed' /\ PositionInside' /\ Located' /\ Written'
  BY <1>1 DEF IInvTx, Typed, PositionInside, Located, Written
<1> QED
  BY <1>2, <1>3 DEF IInvTx

LEMMA TransmitStep == ASSUME IInvTx, Transmit PROVE IInvTx'
<1>1. CASE TransmitNothing
  <2>1. UNCHANGED <<transmit_buf, transmit_pos, transmit_max, tx, tpos, tmax, msglen, pending>>
    BY <1>1 DEF TransmitNothing, localVars
  <2> QED
    BY <2>1 DEF IInvTx, Typed, PositionInside, Located, Written, PendingLength, PendingBytes
<1>2. CASE TransmitByte
  <2>1. /\ transmit_pos < transmit_max /\ transmit_pos' = transmit_pos + 1
        /\ pending' = IF pending = <<>> THEN <<>> ELSE Tail(pending)
        /\ UNCHANGED <<transmit_buf, transmit_max, tx, tpos, tmax, msglen>>
    BY <1>2 DEF TransmitByte, localVars
  <2>2. transmit_pos \in Nat /\ transmit_max \in Nat /\ pending \in Seq(Label)
    BY DEF IInvTx, Typed
  <2>3. Len(pending) = transmit_max - transmit_pos
    BY <2>1, <2>2 DEF IInvTx, PendingLength
  <2>4. /\ pending' = Tail(pending) /\ pending' \in Seq(Label)
        /\ Len(pending') = Len(pending) - 1
        /\ \A i \in 1 .. Len(pending') : pending'[i] = pending[i + 1]
    BY <2>1, <2>2, <2>3
  <2>5. Typed' /\ PositionInside'
    BY <2>1, <2>2, <2>4 DEF IInvTx, Typed, PositionInside
  <2>6. Located' /\ Written'
    BY <2>1, <2>2 DEF IInvTx, Typed, Located, Written
  <2>7. PendingLength'
    BY <2>1, <2>2, <2>3, <2>4 DEF PendingLength
  <2>8. PendingBytes'
    <3> SUFFICES ASSUME NEW i \in 1 .. Len(pending')
                 PROVE  transmit_buf[transmit_pos' + i - 1] = pending'[i]
      BY <2>1 DEF PendingBytes
    <3>1. i + 1 \in 1 .. Len(pending) /\ transmit_pos' + i - 1 = transmit_pos + (i + 1) - 1
      BY <2>1, <2>2, <2>3, <2>4
    <3> QED
      BY <3>1, <2>4 DEF IInvTx, PendingBytes
  <2> QED
    BY <2>5, <2>6, <2>7, <2>8 DEF IInvTx
<1> QED
  BY <1>1, <1>2 DEF Transmit

LEMMA StepHolds == ASSUME LengthsFit, Paced, IInvTx, [NextTx]_txVars PROVE IInvTx'
<1>1. CASE Respond
  BY <1>1, GuardStep DEF Respond
<1>2. CASE MainTx
  BY <1>2, ReadStep, RewindStep, WriteStep, CommitStep, EndStep DEF MainTx
<1>3. CASE Transmit
  BY <1>3, TransmitStep
<1>4. CASE IrqShutdownTx
  BY <1>4, EndStep
<1>5. CASE UNCHANGED txVars
  BY <1>5 DEF txVars, localVars, IInvTx, Typed, PositionInside, Located, Written, PendingLength, PendingBytes
<1> QED
  BY <1>1, <1>2, <1>3, <1>4, <1>5 DEF NextTx

\* While responses are paced, the buffer between the two counters is the queue
\* of the bytes still to be sent, wherever the interrupt and a shutdown cut in.
THEOREM SenderKeepsBytes == ASSUME LengthsFit, Paced PROVE SpecTx => []QueuedIsPending
<1>1. InitTx => IInvTx
  BY InitHolds
<1>2. IInvTx /\ [NextTx]_txVars => IInvTx'
  BY StepHolds
<1>3. IInvTx => QueuedIsPending
  BY DEF IInvTx, PendingLength, PendingBytes, QueuedIsPending
<1> QED
  BY <1>1, <1>2, <1>3, PTL DEF SpecTx

\* The guard is on exactly while a response is put together, paced or not.
THEOREM GuardAlwaysReleased == SpecTx => []GuardIsReleased
<1>1. InitTx => GuardIsReleased
  BY DEF InitTx, GuardIsReleased
<1>2. GuardIsReleased /\ [NextTx]_txVars => GuardIsReleased'
  <2> SUFFICES ASSUME GuardIsReleased, [NextTx]_txVars PROVE GuardIsReleased'
    OBVIOUS
  <2>1. CASE Respond
    BY <2>1 DEF Respond, Guard, GuardIsReleased
  <2>2. CASE MainTx
    BY <2>2 DEF MainTx, ReadPosition, ReadMaximum, Rewind, RewindPosition, AppendAfter, WriteMessage,
               Commit, EnableIrq, Release, task_end_tx, GuardIsReleased
  <2>3. CASE Transmit
    BY <2>3 DEF Transmit, TransmitNothing, TransmitByte, GuardIsReleased
  <2>4. CASE IrqShutdownTx
    BY <2>4 DEF IrqShutdownTx, GuardIsReleased
  <2>5. CASE UNCHANGED txVars
    BY <2>5 DEF txVars, GuardIsReleased
  <2> QED
    BY <2>1, <2>2, <2>3, <2>4, <2>5 DEF NextTx
<1> QED
  BY <1>1, <1>2, PTL DEF SpecTx
-----------------------------------------------------------------------------
(* The wire: what is proved of either end, as the properties of the whole    *)
(* that is model-checked.                                                    *)

\* The theorem about the console, with the constants and variables of the whole
Receiver == INSTANCE RxBufferProofs WITH
  PosRange <- 8, BufSize <- 16, MsgMin <- 2, MsgMax <- 8, SeqRange <- 2, ReceiveWindow <- 0,
  MaxNoise <- 1, Burst <- 5

\* The part that receives begins, goes on and is to be as the component.
LEMMA SameConsole ==
  /\ Linux!InitLinux => Receiver!InitLinux
  /\ [Linux!NextLinux]_linuxVars => [Receiver!NextLinux]_Receiver!linuxVars
  /\ Receiver!BufferIsQueue => Linux!BufferIsQueue
<1>1. Linux!InitLinux => Receiver!InitLinux
  BY Zenon DEF
       Linux!InitLinux, Receiver!InitLinux, Linux!InitRx, Receiver!InitRx, Linux!Zero, Receiver!Zero
<1>2. Linux!NextLinux => Receiver!NextLinux
  BY Zenon DEF
       Linux!NextLinux, Receiver!NextLinux, Linux!Sequence, Receiver!Sequence, Linux!HostWrite, Receiver!HostWrite,
       Linux!HostText, Receiver!HostText, Linux!console_sleep, Receiver!console_sleep, Linux!ReadFails,
       Receiver!ReadFails, Linux!ReadLinux, Receiver!ReadLinux, Linux!TaskLinux, Receiver!TaskLinux,
       Linux!SpoiltLinux, Receiver!SpoiltLinux, Linux!FrameLen, Receiver!FrameLen, Linux!Frame, Receiver!Frame,
       Linux!bufVars, Receiver!bufVars, Linux!syncVars, Receiver!syncVars, Linux!Noise, Receiver!Noise, Linux!rxVars,
       Receiver!rxVars, Linux!Chunk, Receiver!Chunk, Linux!ReadAndFind, Receiver!ReadAndFind, Linux!ForceShutdown,
       Receiver!ForceShutdown, Linux!FindBlock, Receiver!FindBlock, Linux!CommandShutdown, Receiver!CommandShutdown,
       Linux!RemoveBlock, Receiver!RemoveBlock, Linux!RemoveTooMuch, Receiver!RemoveTooMuch, Linux!linuxVars,
       Receiver!linuxVars, Linux!MSG_SYNC, Receiver!MSG_SYNC, Linux!hostVars, Receiver!hostVars, Linux!ReadChunk,
       Receiver!ReadChunk, Linux!MsglenOf, Receiver!MsglenOf, Linux!IsForceShutdown, Receiver!IsForceShutdown,
       Linux!NeedMoreData, Receiver!NeedMoreData, Linux!Accept, Receiver!Accept, Linux!OutOfSequence,
       Receiver!OutOfSequence, Linux!DropLeadingSync, Receiver!DropLeadingSync, Linux!DropDamaged,
       Receiver!DropDamaged, Linux!DropUnsynced, Receiver!DropUnsynced, Linux!RunDone, Receiver!RunDone, Linux!left,
       Receiver!left, Linux!InSync, Receiver!InSync, Linux!SyncFound, Receiver!SyncFound, Linux!HasBlock,
       Receiver!HasBlock, Linux!IsFrame, Receiver!IsFrame, Linux!Zero, Receiver!Zero, Linux!NextOf, Receiver!NextOf,
       Linux!msglen, Receiver!msglen, Linux!RanBefore, Receiver!RanBefore, Linux!Damaged, Receiver!Damaged,
       Linux!DecodeWrites, Receiver!DecodeWrites, Linux!Decode, Receiver!Decode, Linux!Discard, Receiver!Discard,
       Linux!FirstSync, Receiver!FirstSync, Linux!Block, Receiver!Block
<1>3. UNCHANGED linuxVars => UNCHANGED Receiver!linuxVars
  BY DEF linuxVars,
       Receiver!linuxVars, Receiver!rxVars, Receiver!bufVars, Receiver!hostVars, Receiver!syncVars
<1>4. Receiver!BufferIsQueue => Linux!BufferIsQueue
  BY Zenon DEF
       Linux!BufferIsQueue, Receiver!BufferIsQueue, Linux!InClean, Receiver!InClean, Linux!Zero, Receiver!Zero
<1> QED  BY <1>1, <1>2, <1>3, <1>4

\* The receiving end of the wire keeps what it reads and has not removed.
THEOREM WireKeepsBytes == Spec => []ConsoleKeepsBytes
<1>1. Receiver!InitLinux /\ [][Receiver!NextLinux]_Receiver!linuxVars => []Receiver!BufferIsQueue
  <2>1. Receiver!RxAssumption
    BY DEF Receiver!RxAssumption
  <2> QED
    BY <2>1, Receiver!LinuxKeepsBytes
<1>2. Init => Receiver!InitLinux
  BY SameConsole DEF Init
<1>3. [TxStep \/ LinuxStep]_<<part, txVars, linuxVars>> => [Receiver!NextLinux]_Receiver!linuxVars
  <2> SUFFICES ASSUME [TxStep \/ LinuxStep]_<<part, txVars, linuxVars>>
               PROVE  [Linux!NextLinux]_linuxVars
    BY SameConsole
  <2> QED
    BY DEF TxStep, LinuxStep
<1>4. Receiver!BufferIsQueue => ConsoleKeepsBytes
  BY SameConsole DEF ConsoleKeepsBytes
<1> QED
  BY <1>1, <1>2, <1>3, <1>4, PTL DEF Spec
-----------------------------------------------------------------------------
(* Analog inputs *)

AdcTyped ==
  /\ TypeOKAdc
  /\ oid \in Nat /\ args \in Query \cup {NoQuery} /\ mux \in Pin \cup {ADC_DUMMY}
  /\ run \in [Oid -> [n : Nat, sum : Nat, open : BOOLEAN]]
  /\ bad \in [Oid -> Nat] /\ inRow \in [Oid -> 0 .. MaxInvalid]

\* A query is under way: its input is not sampled, unless a shutdown ends it.
InAdcQuery == thread \in {"cancel", "count", "limits", "add"}
AdcTargets ==
  /\ thread \in {"take", "send"} \/ InAdcQuery => oid \in configured
  /\ armed = {c \in configured : a[c].sample_count # 0 /\ ~(InAdcQuery /\ c = oid)}
  /\ thread \in {"limits", "add"} => a[oid].sample_count = args.sample_count

\* What the code counts is the run; its sum fits.
RunIsCounted(c) ==
  /\ a[c].state >= 1
  /\ run[c].open => run[c].n = a[c].state /\ a[c].state < a[c].sample_count /\ run[c].sum = a[c].value
  /\ ~run[c].open => a[c].state >= a[c].sample_count
  /\ a[c].state = a[c].sample_count => run[c].n = a[c].state /\ run[c].sum = a[c].value
  /\ a[c].state <= a[c].sample_count => a[c].sample_count * run[c].sum <= run[c].n * (ValueRange - 1)

\* Between the two assignments of a query nothing is said of its input.
RunsAreCounted ==
  /\ \A c \in configured : (thread = "limits" /\ c = oid) \/ RunIsCounted(c)
  /\ \A c \in configured : a[c].state >= 1 /\ pin[c] \in Pin
  /\ \A c \in Oid \ configured : a[c] = Cleared /\ run[c] = NoRun

ConverterIsShared == last_analog_read # ADC_DUMMY => (IF busy THEN mux ELSE converted) = last_analog_read

AlarmsAreCounted ==
  \A c \in Oid : /\ bad[c] <= a[c].invalid_count /\ a[c].invalid_count <= inRow[c]
                 /\ bad[c] = 0 \/ bad[c] < a[c].range_check_count

AdcInv ==
  /\ AdcTyped /\ AdcTargets /\ RunsAreCounted /\ ConverterIsShared /\ AlarmsAreCounted
  /\ RunIsSeen /\ ReportIsWhole

LEMMA AdcConstants ==
  /\ ByteRange \in Nat \ {0, 1} /\ ValueRange \in Nat \ {0}
  /\ MaxInvalid \in Nat /\ MaxInvalid < ByteRange
  /\ Reading \subseteq Nat /\ Oid \subseteq Nat /\ ADC_DUMMY \notin Pin
BY AnalogAssumption DEF AnalogAssumption

LEMMA CountFits ==
  ASSUME NEW n \in Count
  PROVE  /\ n \in Nat /\ n + 1 < ByteRange
         /\ \A r \in Reading : n * r <= ValueRange - 1
<1>1. n \in Nat
  BY AnalogAssumption DEF AnalogAssumption, Count
<1>2. ASSUME NEW r \in Reading PROVE n * r <= ValueRange - 1
  <2>1. r \in Nat /\ n * r < ValueRange
    BY AdcConstants, SamplesFit DEF SamplesFit
  <2> QED
    BY <1>1, <2>1, AdcConstants
<1> QED
  BY <1>1, <1>2, SamplesFit DEF SamplesFit

\* The query's count is one of the host's or zero.
LEMMA ArgsTyped ==
  ASSUME args \in Query \cup {NoQuery}
  PROVE  /\ args.sample_count \in Count \cup {0} /\ args.sample_count \in Nat
         /\ args.sample_count + 1 < ByteRange
         /\ args.min_value \in 0 .. ValueRange - 1 /\ args.max_value \in 0 .. ValueRange - 1
         /\ args.range_check_count \in 0 .. ByteRange - 1
<1>1. CASE args \in Query
  <2>1. args.sample_count \in Count
    BY <1>1 DEF Count
  <2> QED
    BY <1>1, <2>1, CountFits, AnalogAssumption DEF AnalogAssumption
<1>2. CASE args = NoQuery
  BY <1>2, AdcConstants DEF NoQuery
<1> QED
  BY <1>1, <1>2

\* An input's fields
LEMMA InputTyped ==
  ASSUME NEW s \in Input
  PROVE  /\ s.state \in Nat /\ s.sample_count \in Nat /\ s.value \in Nat /\ s.value < ValueRange
         /\ s.invalid_count \in Nat /\ s.range_check_count \in Nat
         /\ s.min_value \in Nat /\ s.max_value \in Nat
         /\ s.sample_count + 1 < ByteRange /\ s.sample_count \in Count \cup {0}
         /\ s.state \in 0 .. ByteRange - 1
         /\ (s.sample_count + 1) % ByteRange = s.sample_count + 1
<1>1. /\ s.state \in 0 .. ByteRange - 1 /\ s.sample_count \in Count \cup {0} /\ s.value \in 0 .. ValueRange - 1
      /\ s.invalid_count \in 0 .. ByteRange - 1 /\ s.range_check_count \in 0 .. ByteRange - 1
      /\ s.min_value \in 0 .. ValueRange - 1 /\ s.max_value \in 0 .. ValueRange - 1
  BY DEF Input
<1>2. s.sample_count \in Nat /\ s.sample_count + 1 < ByteRange
  <2>1. CASE s.sample_count = 0
    BY <2>1, AdcConstants
  <2>2. CASE s.sample_count \in Count
    BY <2>2, CountFits
  <2> QED
    BY <1>1, <2>1, <2>2
<1>3. (s.sample_count + 1) % ByteRange = s.sample_count + 1
  BY <1>2, AdcConstants
<1> QED
  BY <1>1, <1>2, <1>3, AdcConstants

LEMMA InitAdcInv == InitAdc => AdcInv
<1> SUFFICES ASSUME InitAdc PROVE AdcInv
  OBVIOUS
<1>1. Cleared \in Input
  BY AdcConstants DEF Cleared, Input
<1>2. TypeOKAdc
  BY <1>1 DEF InitAdc, TypeOKAdc
<1>3. AdcTyped
  BY <1>2, AdcConstants DEF InitAdc, AdcTyped, NoRun
<1> QED
  BY <1>3, AdcConstants DEF InitAdc, AdcInv, AdcTargets, InAdcQuery, RunsAreCounted, ConverterIsShared, AlarmsAreCounted,
     RunIsSeen, ReportIsWhole, Cleared

-----------------------------------------------------------------------------
\* The steps that leave the objects alone
LEMMA ObjectsUntouched ==
  ASSUME AdcInv, UNCHANGED <<configured, a, pin, run, bad, inRow>>, thread # "limits", thread' # "limits"
  PROVE  RunsAreCounted' /\ AlarmsAreCounted'
BY DEF AdcInv, RunsAreCounted, AlarmsAreCounted, RunIsCounted

LEMMA ConverterStep ==
  ASSUME AdcInv, ConversionDone \/ ClearShutdown \/ (\E c \in configured : StartSample(c) \/ WaitSample(c))
  PROVE  AdcInv'
<1>0. AdcTyped /\ AdcTargets /\ RunsAreCounted /\ ConverterIsShared /\ AlarmsAreCounted /\ RunIsSeen /\ ReportIsWhole
  BY DEF AdcInv
<1>1. /\ UNCHANGED <<configured, a, pin, armed, analog_wake, mainVars, histVars>>
      /\ mux' \in {mux} \cup {pin[c] : c \in configured} /\ busy' \in BOOLEAN \cup {busy}
  BY DEF ConversionDone, ClearShutdown, StartSample, WaitSample, convVars, adcVars
<1>2. \A c \in configured : pin[c] \in Pin
  BY <1>0 DEF RunsAreCounted
<1>3. ConverterIsShared'
  BY <1>0, <1>2, AdcConstants
  DEF ConverterIsShared, ConversionDone, ClearShutdown, StartSample, WaitSample, convVars, adcVars, AdcTyped, TypeOKAdc
<1>4. last_analog_read' \in Pin \cup {ADC_DUMMY} /\ converted' \in Pin \cup {ADC_DUMMY}
  BY <1>0, <1>2 DEF ConversionDone, ClearShutdown, StartSample, WaitSample, convVars, adcVars, AdcTyped, TypeOKAdc, ConverterIsShared
<1>5. AdcTyped'
  BY <1>0, <1>1, <1>4 DEF AdcTyped, TypeOKAdc, mainVars, histVars
<1>6. AdcTargets' /\ RunIsSeen' /\ ReportIsWhole'
  BY <1>0, <1>1 DEF AdcTargets, InAdcQuery, RunIsSeen, ReportIsWhole, Complete, mainVars
<1>7. RunsAreCounted' /\ AlarmsAreCounted'
  BY <1>0, <1>1 DEF RunsAreCounted, RunIsCounted, AlarmsAreCounted, mainVars, histVars
<1> QED
  BY <1>3, <1>5, <1>6, <1>7 DEF AdcInv

\* The task and the command move on without touching the objects.
LEMMA MainStep ==
  ASSUME AdcInv,
         \/ TaskBegin \/ TaskEnds \/ TaskSkips \/ TaskFinds \/ TaskMisses \/ TaskReports
         \/ QueryCancel \/ QueryAddTimer
         \/ \E c \in Oid : \E q \in Query : QueryDelTimer(c, q)
  PROVE  AdcInv'
<1>0. AdcTyped /\ AdcTargets /\ RunsAreCounted /\ ConverterIsShared /\ AlarmsAreCounted /\ RunIsSeen /\ ReportIsWhole
  BY DEF AdcInv
<1>1. /\ UNCHANGED <<configured, a, pin, shutdown, busy, mux, converted, histVars>>
      /\ thread # "limits" /\ thread' # "limits"
      /\ last_analog_read' \in {last_analog_read, ADC_DUMMY}
  BY DEF TaskBegin, TaskEnds, TaskSkips, TaskFinds, TaskMisses, TaskReports, QueryCancel, QueryAddTimer, QueryDelTimer,
         gpio_adc_cancel_sample, convVars
<1>2. RunsAreCounted' /\ AlarmsAreCounted'
  BY <1>1, ObjectsUntouched DEF histVars
<1>3. ConverterIsShared'
  BY <1>0, <1>1 DEF ConverterIsShared
<1>4. configured \subseteq Nat
  BY <1>0, AdcConstants DEF AdcTyped, TypeOKAdc
<1>5. AdcTyped'
  <2>1. /\ oid' \in Nat /\ args' \in Query \cup {NoQuery} /\ armed' \subseteq configured
        /\ thread' \in {"idle", "test", "take", "send", "cancel", "count", "limits", "add"}
    BY <1>0, <1>4
    DEF TaskBegin, TaskEnds, TaskSkips, TaskFinds, TaskMisses, TaskReports, QueryCancel, QueryAddTimer, QueryDelTimer,
        AdcTyped, TypeOKAdc, NextOids, AdcTargets, InAdcQuery
  <2> QED
    BY <1>0, <1>1, <2>1 DEF AdcTyped, TypeOKAdc, histVars
<1>6. AdcTargets'
  <2>1. CASE TaskBegin \/ TaskEnds \/ TaskSkips \/ TaskFinds \/ TaskMisses \/ TaskReports
    BY <2>1, <1>0, <1>1
    DEF TaskBegin, TaskEnds, TaskSkips, TaskFinds, TaskMisses, TaskReports, AdcTargets, InAdcQuery, NextOids
  <2>2. CASE QueryCancel
    BY <2>2, <1>0 DEF QueryCancel, AdcTargets, InAdcQuery
  <2>3. CASE QueryAddTimer
    BY <2>3, <1>0 DEF QueryAddTimer, AdcTargets, InAdcQuery
  <2>4. CASE \E c \in Oid : \E q \in Query : QueryDelTimer(c, q)
    BY <2>4, <1>0 DEF QueryDelTimer, AdcTargets, InAdcQuery
  <2> QED
    BY <2>1, <2>2, <2>3, <2>4
<1>7. RunIsSeen'
  <2> SUFFICES ASSUME NEW d \in configured, Complete(d)
               PROVE  \/ analog_wake'
                      \/ thread' \in {"test", "take"} /\ oid' <= d
                      \/ thread' = "send" /\ oid' < d
                      \/ thread' \in {"count", "limits"} /\ oid' = d
    BY <1>1 DEF RunIsSeen, Complete
  <2>0. d \in Nat /\ oid \in Nat
    BY <1>0, <1>4 DEF AdcTyped
  <2>1. \/ analog_wake
        \/ thread \in {"test", "take"} /\ oid <= d
        \/ thread = "send" /\ oid < d
        \/ thread \in {"count", "limits"} /\ oid = d
    BY <1>0 DEF RunIsSeen
  <2>2. CASE TaskBegin
    BY <2>0, <2>2 DEF TaskBegin
  <2>3. CASE TaskEnds
    BY <2>0, <2>1, <2>3, <1>4 DEF TaskEnds
  <2>4. CASE TaskSkips
    <3>1. PICK c \in NextOids(oid) : a[c].state # a[c].sample_count /\ oid' = c + 1
      BY <2>4 DEF TaskSkips
    <3>2. c \in Nat /\ (d < oid \/ c <= d)
      BY <3>1, <1>4 DEF NextOids
    <3>3. c # d
      BY <3>1 DEF Complete
    <3> QED
      BY <3>1, <3>2, <3>3, <2>0, <2>1, <2>4 DEF TaskSkips
  <2>5. CASE TaskFinds
    <3>1. PICK c \in NextOids(oid) : oid' = c
      BY <2>5 DEF TaskFinds
    <3>2. c \in Nat /\ (d < oid \/ c <= d)
      BY <3>1, <1>4 DEF NextOids
    <3> QED
      BY <3>1, <3>2, <2>0, <2>1, <2>5 DEF TaskFinds
  <2>6. CASE TaskMisses
    BY <2>0, <2>1, <2>6 DEF TaskMisses, Complete
  <2>7. CASE TaskReports
    BY <2>0, <2>1, <2>7 DEF TaskReports
  <2>8. CASE QueryCancel \/ QueryAddTimer \/ \E c \in Oid : \E q \in Query : QueryDelTimer(c, q)
    BY <2>1, <2>8 DEF QueryCancel, QueryAddTimer, QueryDelTimer
  <2> QED
    BY <2>2, <2>3, <2>4, <2>5, <2>6, <2>7, <2>8
<1>8. ReportIsWhole'
  BY DEF TaskBegin, TaskEnds, TaskSkips, TaskFinds, TaskMisses, TaskReports, QueryCancel, QueryAddTimer, QueryDelTimer,
         ReportIsWhole
<1> QED
  BY <1>2, <1>3, <1>5, <1>6, <1>7, <1>8 DEF AdcInv

-----------------------------------------------------------------------------
(* A sample *)

\* The sum of a run that does not exceed its share of the range
LEMMA ShareGrows ==
  ASSUME NEW N \in Nat, NEW sum \in Nat, NEW n \in Nat, NEW r \in Nat, NEW V \in Nat,
         N * sum <= n * V, N * r <= V
  PROVE  N * (sum + r) <= (n + 1) * V
<1>1. N * (sum + r) = N * sum + N * r /\ (n + 1) * V = n * V + V
  OBVIOUS
<1>2. N * sum \in Nat /\ N * r \in Nat /\ n * V \in Nat
  OBVIOUS
<1> QED
  BY <1>1, <1>2

LEMMA ShareFits ==
  ASSUME NEW N \in Nat, N >= 1, NEW sum \in Nat, NEW n \in Nat, n <= N, NEW V \in Nat,
         N * sum <= n * V
  PROVE  sum <= V
<1>1. n * V <= N * V
  <2>1. PICK k \in Nat : N = n + k
    <3>1. N - n \in Nat /\ N = n + (N - n)
      OBVIOUS
    <3> QED
      BY <3>1
  <2>2. N * V = n * V + k * V /\ k * V \in Nat /\ n * V \in Nat
    BY <2>1
  <2> QED
    BY <2>2
<1>2. CASE sum > V
  <2>1. PICK k \in Nat : sum = V + 1 + k
    <3>1. sum - V - 1 \in Nat /\ sum = V + 1 + (sum - V - 1)
      BY <1>2
    <3> QED
      BY <3>1
  <2>2. N * sum = N * V + N + N * k
    BY <2>1
  <2>3. N * V \in Nat /\ N * k \in Nat /\ n * V \in Nat
    OBVIOUS
  <2> QED
    BY <1>1, <2>2, <2>3
<1> QED
  BY <1>2

\* The reading is added to the run and to what the code keeps of it alike.
LEMMA RunAdds ==
  ASSUME AdcInv, NEW c \in armed, NEW r \in Reading
  PROVE  \E n \in Nat, sum \in Nat, N \in Nat :
           /\ N = a[c].sample_count /\ N >= 1 /\ n < N
           /\ RunWith(c, r) = [n |-> n + 1, sum |-> sum, open |-> n + 1 < N]
           /\ Taken(c) = n + 1 /\ SumWith(c, r) = sum
           /\ N * sum <= (n + 1) * (ValueRange - 1)
<1>0. AdcTyped /\ AdcTargets /\ RunsAreCounted
  BY DEF AdcInv
<1>1. /\ c \in configured /\ c \in Oid /\ a[c].sample_count # 0 /\ ~(InAdcQuery /\ c = oid)
      /\ a[c] \in Input
  BY <1>0 DEF AdcTargets, AdcTyped, TypeOKAdc
<1>2. RunIsCounted(c)
  BY <1>0, <1>1 DEF RunsAreCounted, InAdcQuery
<1>3. PICK N \in Nat : N = a[c].sample_count /\ N >= 1 /\ N \in Count
  BY <1>1, InputTyped
<1>4. PICK V \in Nat : V = ValueRange - 1
  BY AdcConstants
<1>5. r \in Nat /\ N * r <= V
  BY <1>3, <1>4, AdcConstants, CountFits
<1>6. /\ run[c].n \in Nat /\ run[c].sum \in Nat /\ run[c].open \in BOOLEAN
      /\ a[c].state \in Nat /\ a[c].value \in Nat
  BY <1>0, <1>1, InputTyped DEF AdcTyped
<1>8. run[c].open <=> ~Fresh(c)
  BY <1>2, <1>3, <1>6 DEF RunIsCounted, Fresh
<1>9. PICK n \in Nat, sum \in Nat :
        /\ n = (IF run[c].open THEN run[c].n ELSE 0) /\ sum = (IF run[c].open THEN run[c].sum ELSE 0)
        /\ N * sum <= n * V /\ n < N
  <2>1. CASE run[c].open
    BY <2>1, <1>2, <1>3, <1>4, <1>6 DEF RunIsCounted
  <2>2. CASE ~run[c].open
    <3>1. N * 0 <= 0 * V
      OBVIOUS
    <3> QED
      BY <2>2, <1>3, <3>1
  <2> QED
    BY <2>1, <2>2
<1>10. Taken(c) = n + 1 /\ SumWith(c, r) = (sum + r) % ValueRange
  BY <1>2, <1>8, <1>9 DEF Taken, SumWith, RunIsCounted
<1>11. RunWith(c, r) = [n |-> n + 1, sum |-> sum + r, open |-> n + 1 < N]
  <2>1. CASE run[c].open
    BY <2>1, <1>3, <1>9 DEF RunWith
  <2>2. CASE ~run[c].open
    BY <2>2, <1>3, <1>9 DEF RunWith
  <2> QED
    BY <2>1, <2>2
<1>12. N * (sum + r) <= (n + 1) * V
  BY <1>5, <1>9, ShareGrows, Zenon
<1>13. sum + r <= V
  <2>1. PICK m \in Nat : m = n + 1 /\ m <= N
    BY <1>3, <1>9
  <2>2. PICK s \in Nat : s = sum + r
    BY <1>5, <1>9
  <2>3. N * s <= m * V /\ N >= 1
    BY <1>3, <1>12, <2>1, <2>2
  <2>4. s <= V
    BY <2>1, <2>3, ShareFits, Zenon
  <2> QED
    BY <2>2, <2>4
<1>14. sum + r \in Nat /\ (sum + r) % ValueRange = sum + r
  <2>1. sum + r \in Nat /\ sum + r < ValueRange
    BY <1>4, <1>5, <1>9, <1>13, AdcConstants
  <2> QED
    BY <2>1, ModSmall, AdcConstants
<1> QED
  BY <1>3, <1>4, <1>9, <1>10, <1>11, <1>12, <1>14

\* So the code judges the run by what was sampled.
LEMMA RunIsJudged ==
  ASSUME AdcInv, NEW c \in armed, NEW r \in Reading
  PROVE  Outside(c, r) <=> ~InRange(c, r)
<1>1. PICK sum \in Nat : SumWith(c, r) = sum /\ RunWith(c, r).sum = sum
  BY RunAdds
<1>2. a[c].min_value \in Nat /\ a[c].max_value \in Nat
  <2>1. a[c] \in Input
    BY DEF AdcInv, AdcTyped, TypeOKAdc
  <2> QED
    BY <2>1, InputTyped
<1> QED
  BY <1>1, <1>2 DEF Outside, InRange

\* Taking a reading counts it, whatever becomes of the run.
LEMMA SampleCounts ==
  ASSUME AdcInv, NEW c \in armed, NEW r \in Reading,
         ReadValue(c, r), a'[c].state = Taken(c), a'[c].value = SumWith(c, r),
         a'[c].sample_count = a[c].sample_count, a' \in [Oid -> Input],
         \A d \in Oid \ {c} : a'[d] = a[d]
  PROVE  /\ RunIsCounted(c)'
         /\ run' \in [Oid -> [n : Nat, sum : Nat, open : BOOLEAN]]
         /\ \A d \in Oid \ {c} : run'[d] = run[d]
         /\ c \in configured /\ Taken(c) \in Nat
<1>0. AdcTyped /\ AdcTargets
  BY DEF AdcInv
<1>1. c \in configured /\ c \in Oid
  BY <1>0 DEF AdcTargets, AdcTyped, TypeOKAdc
<1>2. PICK n \in Nat, sum \in Nat, N \in Nat :
        /\ N = a[c].sample_count /\ N >= 1 /\ n < N
        /\ RunWith(c, r) = [n |-> n + 1, sum |-> sum, open |-> n + 1 < N]
        /\ Taken(c) = n + 1 /\ SumWith(c, r) = sum
        /\ N * sum <= (n + 1) * (ValueRange - 1)
  BY RunAdds
<1>3. run'[c] = RunWith(c, r) /\ \A d \in Oid \ {c} : run'[d] = run[d]
  BY <1>0, <1>1 DEF ReadValue, AdcTyped
<1>4. run'[c] \in [n : Nat, sum : Nat, open : BOOLEAN]
  BY <1>2, <1>3
<1>5. run' \in [Oid -> [n : Nat, sum : Nat, open : BOOLEAN]]
  BY <1>0, <1>1, <1>3, <1>4 DEF ReadValue, AdcTyped
<1>6. RunIsCounted(c)'
  <2>1. /\ a'[c].state = n + 1 /\ a'[c].value = sum /\ a'[c].sample_count = N
        /\ run'[c].n = n + 1 /\ run'[c].sum = sum
    BY <1>2, <1>3
  <2>2. run'[c].open = (n + 1 < N)
    BY <1>2, <1>3
  <2>3. run'[c].open <=> n + 1 < N
    BY <2>2, Zenon
  <2>4. a'[c].sample_count * run'[c].sum <= run'[c].n * (ValueRange - 1)
    BY <1>2, <2>1
  <2>5. n + 1 >= 1 /\ (n + 1 < N \/ n + 1 >= N)
    BY <1>2
  <2> QED
    BY <2>1, <2>3, <2>4, <2>5 DEF RunIsCounted
<1> QED
  BY <1>1, <1>2, <1>3, <1>5, <1>6

LEMMA SampleKeeps ==
  ASSUME AdcInv, NEW c \in armed, NEW r \in Reading,
         ReadValue(c, r), a'[c].state = Taken(c), a'[c].value = SumWith(c, r),
         a'[c].sample_count = a[c].sample_count, a' \in [Oid -> Input],
         \A d \in Oid \ {c} : a'[d] = a[d],
         UNCHANGED <<armed, mainVars>>, analog_wake => analog_wake',
         a'[c].state = a'[c].sample_count => analog_wake',
         bad' \in [Oid -> Nat], inRow' \in [Oid -> 0 .. MaxInvalid], AlarmsAreCounted'
  PROVE  AdcInv'
<1>0. AdcTyped /\ AdcTargets /\ RunsAreCounted /\ RunIsSeen /\ ReportIsWhole
  BY DEF AdcInv
<1>1. /\ RunIsCounted(c)'
      /\ run' \in [Oid -> [n : Nat, sum : Nat, open : BOOLEAN]]
      /\ \A d \in Oid \ {c} : run'[d] = run[d]
      /\ c \in configured /\ Taken(c) \in Nat
  BY SampleCounts
<1>2. /\ last_analog_read' = ADC_DUMMY /\ UNCHANGED <<configured, pin, busy, mux, converted>>
      /\ UNCHANGED <<thread, oid, args, taken>> /\ configured \subseteq Oid /\ c \in Oid
  BY <1>0, <1>1 DEF ReadValue, mainVars, AdcTyped, TypeOKAdc
<1>3. AdcTyped'
  BY <1>0, <1>1, <1>2 DEF AdcTyped, TypeOKAdc
<1>4. AdcTargets'
  <2>1. \A d \in configured : a'[d].sample_count = a[d].sample_count
    BY <1>2
  <2> QED
    BY <1>0, <1>2, <2>1 DEF AdcTargets, InAdcQuery
<1>5. RunsAreCounted'
  <2>1. ASSUME NEW d \in configured, d # c PROVE RunIsCounted(d)' <=> RunIsCounted(d)
    BY <1>1, <1>2, <2>1 DEF RunIsCounted
  <2>2. \A d \in configured : a'[d].state >= 1
    BY <1>0, <1>1, <1>2 DEF RunsAreCounted, RunIsCounted
  <2>3. \A d \in Oid \ configured : a'[d] = a[d] /\ run'[d] = run[d]
    BY <1>1
  <2> QED
    BY <1>0, <1>1, <1>2, <2>1, <2>2, <2>3 DEF RunsAreCounted
<1>6. RunIsSeen'
  <2> SUFFICES ASSUME NEW d \in configured, Complete(d)'
               PROVE  \/ analog_wake'
                      \/ thread \in {"test", "take"} /\ oid <= d
                      \/ thread = "send" /\ oid < d
                      \/ thread \in {"count", "limits"} /\ oid = d
    BY <1>2 DEF RunIsSeen
  <2>1. CASE d = c
    BY <2>1 DEF Complete
  <2>2. CASE d # c
    <3>1. a'[d] = a[d]
      BY <1>2, <2>2
    <3> QED
      BY <1>0, <3>1 DEF RunIsSeen, Complete
  <2> QED
    BY <2>1, <2>2
<1> QED
  BY <1>0, <1>2, <1>3, <1>4, <1>5, <1>6 DEF AdcInv, ConverterIsShared, ReportIsWhole

LEMMA SampleStep ==
  ASSUME AdcInv, NEW c \in armed, NEW r \in Reading,
         SampleMore(c, r) \/ RunInRange(c, r) \/ RunOutOfRange(c, r)
  PROVE  AdcInv'
<1>0. AdcTyped /\ AdcTargets /\ RunsAreCounted /\ AlarmsAreCounted
  BY DEF AdcInv
<1>1. /\ c \in Oid /\ c \in configured /\ a[c] \in Input /\ a[c].sample_count # 0
      /\ bad \in [Oid -> Nat] /\ inRow \in [Oid -> 0 .. MaxInvalid] /\ a \in [Oid -> Input]
      /\ bad[c] \in Nat /\ inRow[c] \in 0 .. MaxInvalid
  BY <1>0 DEF AdcTyped, TypeOKAdc, AdcTargets
<1>2. PICK N \in Nat : N = a[c].sample_count /\ N >= 1 /\ N + 1 < ByteRange
  BY <1>1, InputTyped
<1>3. RunIsCounted(c)
  BY <1>0, <1>1 DEF RunsAreCounted, AdcTargets, InAdcQuery
<1>4. Taken(c) \in 0 .. ByteRange - 1 /\ Taken(c) <= N
  BY <1>1, <1>2, InputTyped, AdcConstants DEF Taken, Fresh
<1>5. SumWith(c, r) \in 0 .. ValueRange - 1
  BY <1>1, InputTyped, AdcConstants DEF SumWith
<1>6. ReadValue(c, r) /\ UNCHANGED <<armed, mainVars>> /\ (analog_wake => analog_wake')
  BY DEF SampleMore, RunInRange, RunOutOfRange, LastSample
<1>7. CASE SampleMore(c, r)
  <2>1. /\ a' = [a EXCEPT ![c].state = Taken(c), ![c].value = SumWith(c, r)]
        /\ Taken(c) < a[c].sample_count /\ UNCHANGED <<bad, inRow>>
    BY <1>7 DEF SampleMore
  <2>2. /\ a'[c] = [a[c] EXCEPT !.state = Taken(c), !.value = SumWith(c, r)]
        /\ \A d \in Oid \ {c} : a'[d] = a[d]
    BY <1>1, <2>1
  <2>3. a'[c] \in Input
    BY <1>1, <1>4, <1>5, <2>2 DEF Input
  <2>4. a' \in [Oid -> Input]
    BY <1>1, <2>1, <2>3
  <2>5. /\ a'[c].state = Taken(c) /\ a'[c].value = SumWith(c, r) /\ a'[c].sample_count = a[c].sample_count
        /\ a'[c].invalid_count = a[c].invalid_count /\ a'[c].range_check_count = a[c].range_check_count
    BY <1>1, <2>2 DEF Input
  <2>6. AlarmsAreCounted'
    BY <1>0, <2>1, <2>2, <2>5 DEF AlarmsAreCounted
  <2>7. a'[c].state # a'[c].sample_count
    BY <1>2, <1>4, <2>1, <2>5
  <2> QED
    BY <1>1, <1>6, <2>1, <2>2, <2>4, <2>5, <2>6, <2>7, SampleKeeps
<1>8. CASE RunInRange(c, r)
  <2>1. /\ a' = [a EXCEPT ![c].state = Taken(c), ![c].value = SumWith(c, r), ![c].invalid_count = 0]
        /\ bad' = [bad EXCEPT ![c] = 0] /\ inRow' = [inRow EXCEPT ![c] = 0] /\ analog_wake' = TRUE
    <3>1. ~Outside(c, r)
      BY <1>8, RunIsJudged DEF RunInRange
    <3> QED
      BY <1>8, <3>1 DEF RunInRange, CountRun, CountRow
  <2>2. /\ a'[c] = [a[c] EXCEPT !.state = Taken(c), !.value = SumWith(c, r), !.invalid_count = 0]
        /\ \A d \in Oid \ {c} : a'[d] = a[d]
    BY <1>1, <2>1
  <2>3. a'[c] \in Input
    <3>1. 0 \in 0 .. ByteRange - 1
      BY AdcConstants
    <3> QED
      BY <1>1, <1>4, <1>5, <2>2, <3>1 DEF Input
  <2>4. a' \in [Oid -> Input] /\ bad' \in [Oid -> Nat] /\ inRow' \in [Oid -> 0 .. MaxInvalid]
    BY <1>1, <2>1, <2>3, AdcConstants
  <2>5. /\ a'[c].state = Taken(c) /\ a'[c].value = SumWith(c, r) /\ a'[c].sample_count = a[c].sample_count
        /\ a'[c].invalid_count = 0 /\ bad'[c] = 0 /\ inRow'[c] = 0
    BY <1>1, <2>1, <2>2 DEF Input
  <2>6. \A d \in Oid \ {c} : bad'[d] = bad[d] /\ inRow'[d] = inRow[d]
    BY <1>1, <2>1
  <2>7. AlarmsAreCounted'
    <3>1. /\ bad'[c] <= a'[c].invalid_count /\ a'[c].invalid_count <= inRow'[c] /\ bad'[c] = 0
      BY <2>5
    <3> QED
      BY <1>0, <2>2, <2>6, <3>1 DEF AlarmsAreCounted
  <2> QED
    BY <1>6, <2>1, <2>2, <2>4, <2>5, <2>7, SampleKeeps
<1>9. CASE RunOutOfRange(c, r)
  <2>0. PICK k \in Nat : k = a[c].invalid_count /\ k < MaxInvalid /\ k <= inRow[c] /\ bad[c] <= k
    BY <1>0, <1>1, <1>9, InputTyped DEF RunOutOfRange, AlarmsAreCounted
  <2>11. PICK m : m = (IF TooManyInvalid(c) THEN 0 ELSE Invalid(c))
    OBVIOUS
  <2>1. /\ m \in Nat /\ m <= k + 1 /\ m < ByteRange
        /\ ~TooManyInvalid(c) => m = k + 1 /\ m < a[c].range_check_count
    <3>1. k + 1 \in Nat /\ k + 1 < ByteRange
      BY <2>0, AdcConstants
    <3>2. Invalid(c) = k + 1
      BY <2>0, <3>1, ModSmall, AdcConstants DEF Invalid
    <3>3. a[c].range_check_count \in Nat
      BY <1>1, InputTyped
    <3>4. CASE TooManyInvalid(c)
      <4>1. m = 0
        BY <2>11, <3>4
      <4>2. 0 <= k + 1 /\ 0 < ByteRange
        BY <3>1, AdcConstants
      <4> QED
        BY <3>4, <4>1, <4>2
    <3>5. CASE ~TooManyInvalid(c)
      <4>1. ~(k + 1 >= a[c].range_check_count)
        BY <3>2, <3>5 DEF TooManyInvalid
      <4> QED
        BY <2>11, <3>1, <3>2, <3>3, <3>5, <4>1
    <3> QED
      BY <3>4, <3>5
  <2>2. /\ a' = [a EXCEPT ![c].state = Taken(c), ![c].value = SumWith(c, r), ![c].invalid_count = m]
        /\ bad' = [bad EXCEPT ![c] = IF shutdown THEN 0 ELSE bad[c] + 1]
        /\ inRow' = [inRow EXCEPT ![c] = OneMore(inRow[c])] /\ analog_wake' = TRUE
        /\ TooManyInvalid(c) => shutdown
    <3>1. Outside(c, r)
      BY <1>9, RunIsJudged DEF RunOutOfRange
    <3>2. bad' = [bad EXCEPT ![c] = IF shutdown THEN 0 ELSE bad[c] + 1]
      BY <1>9, <3>1 DEF RunOutOfRange, CountRun
    <3> QED
      BY <1>9, <2>11, <3>1, <3>2 DEF RunOutOfRange, CountRun, CountRow
  <2>3. /\ a'[c] = [a[c] EXCEPT !.state = Taken(c), !.value = SumWith(c, r), !.invalid_count = m]
        /\ \A d \in Oid \ {c} : a'[d] = a[d]
    BY <1>1, <2>2
  <2>4. a'[c] \in Input
    <3>1. m \in 0 .. ByteRange - 1
      BY <2>1, AdcConstants
    <3> QED
      BY <1>1, <1>4, <1>5, <2>3, <3>1 DEF Input
  <2>5. OneMore(inRow[c]) \in 0 .. MaxInvalid /\ k + 1 <= OneMore(inRow[c])
    BY <1>1, <2>0, AdcConstants DEF OneMore
  <2>6. a' \in [Oid -> Input] /\ bad' \in [Oid -> Nat] /\ inRow' \in [Oid -> 0 .. MaxInvalid]
    BY <1>1, <2>2, <2>4, <2>5
  <2>7. /\ a'[c].state = Taken(c) /\ a'[c].value = SumWith(c, r) /\ a'[c].sample_count = a[c].sample_count
        /\ a'[c].invalid_count = m /\ a'[c].range_check_count = a[c].range_check_count
        /\ bad'[c] = (IF shutdown THEN 0 ELSE bad[c] + 1) /\ inRow'[c] = OneMore(inRow[c])
    BY <1>1, <2>2, <2>3 DEF Input
  <2>8. \A d \in Oid \ {c} : bad'[d] = bad[d] /\ inRow'[d] = inRow[d]
    BY <1>1, <2>2
  <2>9. /\ bad'[c] <= a'[c].invalid_count /\ a'[c].invalid_count <= inRow'[c]
        /\ bad'[c] = 0 \/ bad'[c] < a'[c].range_check_count
    <3>1. a[c].range_check_count \in Nat
      BY <1>1, InputTyped
    <3>2. CASE shutdown
      BY <1>1, <2>1, <2>2, <2>5, <2>7, <3>2, AdcConstants
    <3>3. CASE ~shutdown
      BY <1>1, <2>0, <2>1, <2>2, <2>5, <2>7, <3>1, <3>3, AdcConstants
    <3> QED
      BY <3>2, <3>3
  <2>10. AlarmsAreCounted'
    BY <1>0, <2>3, <2>8, <2>9 DEF AlarmsAreCounted
  <2> QED
    BY <1>6, <2>2, <2>3, <2>6, <2>7, <2>10, SampleKeeps
<1> QED
  BY <1>7, <1>8, <1>9

-----------------------------------------------------------------------------
(* Shutdown, commands and reports *)

\* A shutdown gives every run up.
LEMMA EndKeeps ==
  ASSUME AdcInv, NEW b \in [Oid -> Input],
         \A c \in Oid : /\ b[c].sample_count = a[c].sample_count /\ b[c].state = a[c].state
                        /\ b[c].range_check_count = a[c].range_check_count,
         \A c \in Oid \ configured : b[c] = a[c],
         task_end_analog_in(b), inRow' \in [Oid -> 0 .. MaxInvalid],
         \A c \in Oid : b[c].invalid_count <= inRow'[c]
  PROVE  AdcInv'
<1>0. AdcTyped /\ AdcTargets /\ RunsAreCounted /\ ConverterIsShared /\ RunIsSeen
  BY DEF AdcInv
<1>1. /\ a' = EndRun(b) /\ armed' = {c \in configured : b[c].sample_count # 0}
      /\ last_analog_read' \in {last_analog_read, ADC_DUMMY}
      /\ run' = [c \in Oid |-> NoRun] /\ bad' = [c \in Oid |-> 0]
      /\ thread' = "idle" /\ oid' = 0 /\ args' = NoQuery
      /\ UNCHANGED <<configured, pin, analog_wake, busy, mux, converted>>
  BY DEF task_end_analog_in
<1>2. configured \subseteq Oid /\ a \in [Oid -> Input]
  BY <1>0 DEF AdcTyped, TypeOKAdc
<1>3. ASSUME NEW c \in Oid
      PROVE  /\ a'[c] \in Input /\ a'[c].sample_count = a[c].sample_count
             /\ a'[c].invalid_count = b[c].invalid_count
             /\ c \in configured /\ a[c].sample_count # 0 => a'[c].state = a[c].sample_count + 1
             /\ c \notin configured \/ a[c].sample_count = 0 => a'[c] = b[c]
  <2>1. /\ b[c] \in Input /\ a[c] \in Input
        /\ b[c].sample_count = a[c].sample_count /\ b[c].state = a[c].state
    BY <1>2
  <2>2. CASE c \in configured /\ a[c].sample_count # 0
    <3>1. a'[c] = [b[c] EXCEPT !.state = (b[c].sample_count + 1) % ByteRange]
      BY <1>1, <2>1, <2>2 DEF EndRun
    <3>2. /\ (b[c].sample_count + 1) % ByteRange = a[c].sample_count + 1
          /\ a[c].sample_count + 1 \in 0 .. ByteRange - 1
      BY <2>1, InputTyped, AdcConstants
    <3> QED
      BY <2>1, <2>2, <3>1, <3>2 DEF Input
  <2>3. CASE ~(c \in configured /\ a[c].sample_count # 0)
    <3>1. a'[c] = b[c]
      BY <1>1, <2>1, <2>3 DEF EndRun
    <3> QED
      BY <2>1, <2>3, <3>1
  <2> QED
    BY <2>2, <2>3
<1>4. a' \in [Oid -> Input]
  BY <1>1, <1>3 DEF EndRun
<1>5. AdcTyped'
  <2>1. NoRun \in [n : Nat, sum : Nat, open : BOOLEAN]
    BY DEF NoRun
  <2>2. armed' \subseteq configured
    BY <1>1
  <2> QED
    BY <1>0, <1>1, <1>4, <2>1, <2>2 DEF AdcTyped, TypeOKAdc
<1>6. AdcTargets'
  <2>1. \A c \in configured : b[c].sample_count = a'[c].sample_count
    BY <1>2, <1>3
  <2> QED
    BY <1>1, <2>1 DEF AdcTargets, InAdcQuery
<1>7. RunsAreCounted'
  <2>1. ASSUME NEW c \in configured PROVE RunIsCounted(c)' /\ a'[c].state >= 1
    <3>1. /\ c \in Oid /\ a[c] \in Input /\ a[c].state >= 1
          /\ run'[c].open = FALSE
      BY <1>0, <1>1, <1>2 DEF RunsAreCounted, NoRun
    <3>2. a'[c].sample_count \in Nat /\ a'[c].state \in Nat
      BY <1>3, <3>1, InputTyped
    <3>3. a'[c].state > a'[c].sample_count /\ a'[c].state >= 1
      <4>1. CASE a[c].sample_count # 0
        BY <1>3, <3>1, <3>2, <4>1
      <4>2. CASE a[c].sample_count = 0
        BY <1>3, <3>1, <3>2, <4>2
      <4> QED
        BY <4>1, <4>2
    <3> QED
      BY <3>1, <3>2, <3>3 DEF RunIsCounted
  <2>2. \A c \in Oid \ configured : a'[c] = a[c] /\ run'[c] = NoRun
    BY <1>1, <1>3
  <2> QED
    BY <1>0, <1>1, <2>1, <2>2 DEF RunsAreCounted
<1>8. ConverterIsShared'
  BY <1>0, <1>1 DEF ConverterIsShared
<1>9. AlarmsAreCounted'
  <2> SUFFICES ASSUME NEW c \in Oid
               PROVE  bad'[c] = 0 /\ 0 <= a'[c].invalid_count /\ a'[c].invalid_count <= inRow'[c]
    BY DEF AlarmsAreCounted
  <2> QED
    BY <1>1, <1>3, InputTyped
<1>10. RunIsSeen'
  <2>1. ASSUME NEW c \in configured PROVE ~Complete(c)'
    <3>1. CASE a[c].sample_count # 0
      <4>1. a'[c].state = a'[c].sample_count + 1 /\ a'[c].sample_count \in Nat
        BY <1>2, <1>3, <3>1, InputTyped
      <4> QED
        BY <4>1 DEF Complete
    <3>2. CASE a[c].sample_count = 0
      BY <1>2, <1>3, <3>2 DEF Complete
    <3> QED
      BY <3>1, <3>2
  <2> QED
    BY <1>1, <2>1 DEF RunIsSeen
<1> QED
  BY <1>1, <1>5, <1>6, <1>7, <1>8, <1>9, <1>10 DEF AdcInv, ReportIsWhole

LEMMA ShutdownStep ==
  ASSUME AdcInv, IrqShutdown \/ \E c \in armed : \E r \in Reading : RunShutsDown(c, r)
  PROVE  AdcInv'
<1>0. AdcTyped /\ AdcTargets /\ AlarmsAreCounted
  BY DEF AdcInv
<1>1. a \in [Oid -> Input] /\ inRow \in [Oid -> 0 .. MaxInvalid]
  BY <1>0 DEF AdcTyped, TypeOKAdc
<1>2. CASE IrqShutdown
  <2>1. task_end_analog_in(a) /\ inRow' = inRow
    BY <1>2 DEF IrqShutdown
  <2> QED
    BY <1>0, <1>1, <2>1, EndKeeps DEF AlarmsAreCounted
<1>3. ASSUME NEW c \in armed, NEW r \in Reading, RunShutsDown(c, r) PROVE AdcInv'
  <2>1. c \in configured /\ c \in Oid /\ a[c] \in Input /\ inRow[c] \in 0 .. MaxInvalid
    BY <1>0, <1>1 DEF AdcTargets, AdcTyped, TypeOKAdc
  <2>2. PICK k \in Nat : k = a[c].invalid_count /\ k < MaxInvalid /\ k <= inRow[c]
    BY <1>0, <1>3, <2>1, InputTyped DEF RunShutsDown, AlarmsAreCounted
  <2>3. Invalid(c) = k + 1 /\ k + 1 \in 0 .. ByteRange - 1
    BY <2>2, ModSmall, AdcConstants DEF Invalid
  <2>4. SumWith(c, r) \in 0 .. ValueRange - 1
    BY <2>1, InputTyped, AdcConstants DEF SumWith
  <2>5. PICK b : b = [a EXCEPT ![c].value = SumWith(c, r), ![c].invalid_count = Invalid(c)]
    OBVIOUS
  <2>6. /\ b[c] = [a[c] EXCEPT !.value = SumWith(c, r), !.invalid_count = k + 1]
        /\ \A d \in Oid \ {c} : b[d] = a[d]
    BY <1>1, <2>1, <2>3, <2>5
  <2>7. /\ b[c] \in Input /\ b[c].sample_count = a[c].sample_count /\ b[c].state = a[c].state
        /\ b[c].range_check_count = a[c].range_check_count /\ b[c].invalid_count = k + 1
    BY <2>1, <2>3, <2>4, <2>6 DEF Input
  <2>8. b \in [Oid -> Input]
    BY <1>1, <2>1, <2>5, <2>7
  <2>9. OneMore(inRow[c]) \in 0 .. MaxInvalid /\ k + 1 <= OneMore(inRow[c])
    BY <2>1, <2>2, AdcConstants DEF OneMore
  <2>10. task_end_analog_in(b) /\ inRow' = [inRow EXCEPT ![c] = OneMore(inRow[c])]
    <3>1. Outside(c, r)
      BY <1>3, RunIsJudged DEF RunShutsDown
    <3> QED
      BY <1>3, <2>5, <3>1 DEF RunShutsDown, CountRow
  <2>11. /\ inRow' \in [Oid -> 0 .. MaxInvalid] /\ inRow'[c] = OneMore(inRow[c])
         /\ \A d \in Oid \ {c} : inRow'[d] = inRow[d]
    BY <1>1, <2>1, <2>9, <2>10
  <2>12. \A d \in Oid : b[d].invalid_count <= inRow'[d]
    BY <1>0, <2>6, <2>7, <2>9, <2>11 DEF AlarmsAreCounted
  <2>13. /\ \A d \in Oid : /\ b[d].sample_count = a[d].sample_count /\ b[d].state = a[d].state
                           /\ b[d].range_check_count = a[d].range_check_count
         /\ \A d \in Oid \ configured : b[d] = a[d]
    BY <2>1, <2>6, <2>7
  <2> QED
    BY <2>8, <2>10, <2>11, <2>12, <2>13, EndKeeps
<1> QED
  BY <1>2, <1>3

LEMMA ConfigStep ==
  ASSUME AdcInv, NEW c \in Oid, NEW p \in Pin, command_config_analog_in(c, p)
  PROVE  AdcInv'
<1>0. AdcTyped /\ AdcTargets /\ RunsAreCounted /\ ConverterIsShared /\ AlarmsAreCounted /\ RunIsSeen
  BY DEF AdcInv
<1>1. /\ thread = "idle" /\ c \notin configured /\ configured' = configured \cup {c}
      /\ pin' = [pin EXCEPT ![c] = p] /\ a' = [a EXCEPT ![c].state = 1]
      /\ UNCHANGED <<armed, analog_wake, shutdown, convVars, mainVars, histVars>>
  BY DEF command_config_analog_in
<1>2. /\ a \in [Oid -> Input] /\ pin \in [Oid -> Pin \cup {ADC_DUMMY}] /\ a[c] = Cleared /\ run[c] = NoRun
      /\ configured \subseteq Oid
  BY <1>0, <1>1 DEF AdcTyped, TypeOKAdc, RunsAreCounted
<1>3. a'[c] = [Cleared EXCEPT !.state = 1] /\ \A d \in Oid \ {c} : a'[d] = a[d]
  BY <1>1, <1>2
<1>4. a'[c].state = 1 /\ a'[c].sample_count = 0 /\ a'[c].invalid_count = 0 /\ a'[c].range_check_count = 0
  BY <1>3 DEF Cleared
<1>5. a'[c] \in Input
  <2>1. 1 \in 0 .. ByteRange - 1 /\ Cleared \in Input
    BY AdcConstants DEF Cleared, Input
  <2> QED
    BY <1>3, <2>1 DEF Input
<1>6. a' \in [Oid -> Input]
  BY <1>1, <1>2, <1>5
<1>7. /\ pin' \in [Oid -> Pin \cup {ADC_DUMMY}] /\ pin'[c] = p /\ \A d \in Oid \ {c} : pin'[d] = pin[d]
      /\ configured' \subseteq Oid
  BY <1>1, <1>2
<1>8. AdcTyped'
  BY <1>0, <1>1, <1>6, <1>7 DEF AdcTyped, TypeOKAdc, convVars, mainVars, histVars
<1>9. AdcTargets'
  BY <1>0, <1>1, <1>2, <1>3, <1>4 DEF AdcTargets, InAdcQuery, mainVars
<1>10. RunsAreCounted'
  <2>1. RunIsCounted(c)'
    <3>1. run'[c].open = FALSE
      BY <1>1, <1>2 DEF histVars, NoRun
    <3> QED
      BY <1>4, <3>1 DEF RunIsCounted
  <2>2. ASSUME NEW d \in configured PROVE RunIsCounted(d)' /\ a'[d].state >= 1 /\ pin'[d] \in Pin
    <3>1. RunIsCounted(d) /\ a[d].state >= 1 /\ pin[d] \in Pin /\ d \in Oid \ {c}
      BY <1>0, <1>1, <1>2 DEF RunsAreCounted
    <3>2. run' = run /\ a'[d] = a[d] /\ pin'[d] = pin[d]
      BY <1>1, <1>3, <1>7, <3>1 DEF histVars
    <3> QED
      BY <3>1, <3>2 DEF RunIsCounted
  <2>3. \A d \in Oid \ configured' : a'[d] = a[d] /\ run'[d] = run[d]
    BY <1>1, <1>3 DEF histVars
  <2>4. \A d \in Oid \ configured' : a'[d] = Cleared /\ run'[d] = NoRun
    BY <1>0, <1>1, <2>3 DEF RunsAreCounted
  <2>5. \A d \in configured' : RunIsCounted(d)' /\ a'[d].state >= 1 /\ pin'[d] \in Pin
    BY <1>1, <1>4, <1>7, <2>1, <2>2
  <2> QED
    BY <2>4, <2>5 DEF RunsAreCounted
<1>11. AlarmsAreCounted'
  <2>1. \A d \in Oid : a'[d].invalid_count = a[d].invalid_count /\ a'[d].range_check_count = a[d].range_check_count
    BY <1>2, <1>3, <1>4 DEF Cleared
  <2> QED
    BY <1>0, <1>1, <2>1 DEF AlarmsAreCounted, histVars
<1>12. RunIsSeen'
  <2>1. \A d \in configured' : Complete(d)' => d \in configured /\ Complete(d)
    BY <1>1, <1>2, <1>3, <1>4 DEF Complete
  <2> QED
    BY <1>0, <1>1, <2>1 DEF RunIsSeen, mainVars
<1> QED
  BY <1>0, <1>1, <1>8, <1>9, <1>10, <1>11, <1>12 DEF AdcInv, ConverterIsShared, ReportIsWhole, convVars, mainVars

LEMMA CountStep == ASSUME AdcInv, QueryCount PROVE AdcInv'
<1>0. AdcTyped /\ AdcTargets /\ RunsAreCounted /\ ConverterIsShared /\ AlarmsAreCounted /\ RunIsSeen
  BY DEF AdcInv
<1>1. /\ thread = "count" /\ thread' = "limits" /\ a' = [a EXCEPT ![oid].sample_count = args.sample_count]
      /\ UNCHANGED <<configured, pin, armed, analog_wake, shutdown, convVars, oid, args, taken, histVars>>
  BY DEF QueryCount
<1>2. /\ oid \in configured /\ oid \in Oid /\ configured \subseteq Oid /\ a \in [Oid -> Input] /\ a[oid] \in Input
      /\ args.sample_count \in Count \cup {0}
  BY <1>0, <1>1, ArgsTyped DEF AdcTyped, TypeOKAdc, AdcTargets, InAdcQuery
<1>3. a'[oid] = [a[oid] EXCEPT !.sample_count = args.sample_count] /\ \A d \in Oid \ {oid} : a'[d] = a[d]
  BY <1>1, <1>2
<1>4. /\ a'[oid] \in Input /\ a'[oid].sample_count = args.sample_count /\ a'[oid].state = a[oid].state
      /\ a'[oid].invalid_count = a[oid].invalid_count /\ a'[oid].range_check_count = a[oid].range_check_count
  BY <1>2, <1>3 DEF Input
<1>5. a' \in [Oid -> Input]
  BY <1>1, <1>2, <1>4
<1>6. AdcTyped'
  BY <1>0, <1>1, <1>5 DEF AdcTyped, TypeOKAdc, convVars, histVars
<1>7. AdcTargets'
  BY <1>0, <1>1, <1>2, <1>3, <1>4 DEF AdcTargets, InAdcQuery
<1>8. RunsAreCounted'
  <2>1. ASSUME NEW d \in configured, d # oid PROVE RunIsCounted(d)'
    <3>1. RunIsCounted(d) /\ a'[d] = a[d] /\ run' = run
      BY <1>0, <1>1, <1>2, <1>3, <2>1 DEF RunsAreCounted, histVars
    <3> QED
      BY <3>1 DEF RunIsCounted
  <2>2. \A d \in configured : a'[d].state >= 1 /\ pin'[d] \in Pin
    BY <1>0, <1>1, <1>2, <1>3, <1>4 DEF RunsAreCounted
  <2> QED
    BY <1>0, <1>1, <1>2, <1>3, <2>1, <2>2 DEF RunsAreCounted, histVars
<1>9. AlarmsAreCounted'
  <2>1. \A d \in Oid : a'[d].invalid_count = a[d].invalid_count /\ a'[d].range_check_count = a[d].range_check_count
    BY <1>3, <1>4
  <2> QED
    BY <1>0, <1>1, <2>1 DEF AlarmsAreCounted, histVars
<1>10. RunIsSeen'
  <2>1. \A d \in configured : Complete(d)' => d = oid \/ Complete(d)
    BY <1>2, <1>3 DEF Complete
  <2> QED
    BY <1>0, <1>1, <2>1 DEF RunIsSeen
<1> QED
  BY <1>0, <1>1, <1>6, <1>7, <1>8, <1>9, <1>10 DEF AdcInv, ConverterIsShared, ReportIsWhole, convVars

LEMMA LimitsStep == ASSUME AdcInv, QueryLimits PROVE AdcInv'
<1>0. AdcTyped /\ AdcTargets /\ RunsAreCounted /\ ConverterIsShared /\ AlarmsAreCounted /\ RunIsSeen
  BY DEF AdcInv
<1>1. /\ thread = "limits" /\ thread' = "add"
      /\ a' = [a EXCEPT ![oid].state = (args.sample_count + 1) % ByteRange,
                        ![oid].min_value = args.min_value, ![oid].max_value = args.max_value,
                        ![oid].range_check_count = args.range_check_count]
      /\ run' = [run EXCEPT ![oid] = NoRun] /\ bad' = [bad EXCEPT ![oid] = 0]
      /\ UNCHANGED <<configured, pin, armed, analog_wake, shutdown, convVars, oid, args, taken, inRow>>
  BY DEF QueryLimits
<1>2. /\ oid \in configured /\ oid \in Oid /\ configured \subseteq Oid /\ a \in [Oid -> Input] /\ a[oid] \in Input
      /\ a[oid].sample_count = args.sample_count
      /\ run \in [Oid -> [n : Nat, sum : Nat, open : BOOLEAN]] /\ bad \in [Oid -> Nat]
  BY <1>0, <1>1 DEF AdcTyped, TypeOKAdc, AdcTargets, InAdcQuery
<1>3. PICK n \in Nat : /\ n = args.sample_count /\ (args.sample_count + 1) % ByteRange = n + 1
                       /\ n + 1 \in 0 .. ByteRange - 1
  BY <1>2, InputTyped, AdcConstants
<1>4. /\ args.min_value \in 0 .. ValueRange - 1 /\ args.max_value \in 0 .. ValueRange - 1
      /\ args.range_check_count \in 0 .. ByteRange - 1
  BY <1>0, ArgsTyped DEF AdcTyped
<1>5. /\ a'[oid] = [a[oid] EXCEPT !.state = n + 1, !.min_value = args.min_value, !.max_value = args.max_value,
                                  !.range_check_count = args.range_check_count]
      /\ \A d \in Oid \ {oid} : a'[d] = a[d]
  BY <1>1, <1>2, <1>3
<1>6. /\ a'[oid] \in Input /\ a'[oid].sample_count = n /\ a'[oid].state = n + 1
      /\ a'[oid].invalid_count = a[oid].invalid_count
  BY <1>2, <1>3, <1>4, <1>5 DEF Input
<1>7. /\ a' \in [Oid -> Input] /\ run'[oid] = NoRun /\ bad'[oid] = 0
      /\ \A d \in Oid \ {oid} : run'[d] = run[d] /\ bad'[d] = bad[d]
  BY <1>1, <1>2, <1>6
<1>8. AdcTyped'
  <2>1. NoRun \in [n : Nat, sum : Nat, open : BOOLEAN]
    BY DEF NoRun
  <2>2. run' \in [Oid -> [n : Nat, sum : Nat, open : BOOLEAN]] /\ bad' \in [Oid -> Nat]
    BY <1>1, <1>2, <2>1
  <2> QED
    BY <1>0, <1>1, <1>7, <2>2 DEF AdcTyped, TypeOKAdc, convVars
<1>9. AdcTargets'
  BY <1>0, <1>1, <1>2, <1>3, <1>5, <1>6 DEF AdcTargets, InAdcQuery
<1>10. RunsAreCounted'
  <2>1. ASSUME NEW d \in configured PROVE RunIsCounted(d)' /\ a'[d].state >= 1
    <3>1. CASE d = oid
      <4>1. run'[oid].open = FALSE
        BY <1>7 DEF NoRun
      <4>2. n + 1 > n /\ n + 1 >= 1
        BY <1>3
      <4> QED
        BY <1>3, <1>6, <3>1, <4>1, <4>2 DEF RunIsCounted
    <3>2. CASE d # oid
      <4>1. RunIsCounted(d) /\ a'[d] = a[d] /\ run'[d] = run[d]
        BY <1>0, <1>2, <1>5, <1>7, <3>2 DEF RunsAreCounted
      <4> QED
        BY <4>1 DEF RunIsCounted
    <3> QED
      BY <3>1, <3>2
  <2>2. \A d \in Oid \ configured : a'[d] = a[d] /\ run'[d] = run[d]
    BY <1>2, <1>5, <1>7
  <2> QED
    BY <1>0, <1>1, <2>1, <2>2 DEF RunsAreCounted
<1>11. AlarmsAreCounted'
  <2> SUFFICES ASSUME NEW d \in Oid
               PROVE  /\ bad'[d] <= a'[d].invalid_count /\ a'[d].invalid_count <= inRow'[d]
                      /\ bad'[d] = 0 \/ bad'[d] < a'[d].range_check_count
    BY DEF AlarmsAreCounted
  <2>1. CASE d = oid
    BY <1>0, <1>1, <1>2, <1>6, <1>7, <2>1, InputTyped DEF AlarmsAreCounted
  <2>2. CASE d # oid
    BY <1>0, <1>1, <1>5, <1>7, <2>2 DEF AlarmsAreCounted
  <2> QED
    BY <2>1, <2>2
<1>12. RunIsSeen'
  <2>0. a'[oid].state # a'[oid].sample_count
    BY <1>3, <1>6
  <2>1. ASSUME NEW d \in configured, Complete(d)' PROVE d # oid /\ Complete(d)
    <3>1. d # oid
      BY <2>0, <2>1 DEF Complete
    <3> QED
      BY <1>2, <1>5, <2>1, <3>1 DEF Complete
  <2> QED
    BY <1>0, <1>1, <2>1 DEF RunIsSeen
<1> QED
  BY <1>0, <1>1, <1>8, <1>9, <1>10, <1>11, <1>12 DEF AdcInv, ConverterIsShared, ReportIsWhole, convVars

LEMMA TakesStep == ASSUME AdcInv, TaskTakes PROVE AdcInv'
<1>0. AdcTyped /\ AdcTargets /\ RunsAreCounted /\ ConverterIsShared /\ AlarmsAreCounted /\ RunIsSeen
  BY DEF AdcInv
<1>1. /\ thread = "take" /\ thread' = "send" /\ a[oid].state = a[oid].sample_count
      /\ taken' = [n |-> run[oid].n, sum |-> run[oid].sum, value |-> a[oid].value, count |-> a[oid].sample_count]
      /\ a' = [a EXCEPT ![oid].state = (a[oid].state + 1) % ByteRange]
      /\ UNCHANGED <<configured, pin, armed, analog_wake, shutdown, convVars, oid, args, histVars>>
  BY DEF TaskTakes
<1>2. /\ oid \in configured /\ oid \in Oid /\ oid \in Nat /\ configured \subseteq Oid /\ a \in [Oid -> Input] /\ a[oid] \in Input
  BY <1>0, <1>1 DEF AdcTyped, TypeOKAdc, AdcTargets
<1>3. RunIsCounted(oid)
  BY <1>0, <1>1, <1>2 DEF RunsAreCounted
<1>4. PICK n \in Nat : /\ n = a[oid].sample_count /\ (a[oid].state + 1) % ByteRange = n + 1
                       /\ n + 1 \in 0 .. ByteRange - 1
  BY <1>1, <1>2, InputTyped, AdcConstants
<1>5. a'[oid] = [a[oid] EXCEPT !.state = n + 1] /\ \A d \in Oid \ {oid} : a'[d] = a[d]
  BY <1>1, <1>2, <1>4
<1>6. /\ a'[oid] \in Input /\ a'[oid].sample_count = n /\ a'[oid].state = n + 1
      /\ a'[oid].invalid_count = a[oid].invalid_count /\ a'[oid].range_check_count = a[oid].range_check_count
  BY <1>2, <1>4, <1>5 DEF Input
<1>7. a' \in [Oid -> Input]
  BY <1>1, <1>2, <1>6
<1>8. AdcTyped'
  BY <1>0, <1>1, <1>7 DEF AdcTyped, TypeOKAdc, convVars, histVars
<1>9. AdcTargets'
  <2>1. \A d \in configured : a'[d].sample_count = a[d].sample_count
    BY <1>2, <1>4, <1>5, <1>6
  <2> QED
    BY <1>0, <1>1, <1>2, <2>1 DEF AdcTargets, InAdcQuery
<1>10. RunsAreCounted'
  <2>1. ASSUME NEW d \in configured PROVE RunIsCounted(d)' /\ a'[d].state >= 1
    <3>1. CASE d = oid
      <4>1. run' = run /\ ~run[oid].open
        BY <1>1, <1>2, <1>3, <1>4 DEF RunIsCounted, histVars
      <4>2. n + 1 > n /\ n + 1 >= 1
        BY <1>4
      <4> QED
        BY <1>4, <1>6, <3>1, <4>1, <4>2 DEF RunIsCounted
    <3>2. CASE d # oid
      <4>1. RunIsCounted(d) /\ a'[d] = a[d] /\ run' = run /\ a[d].state >= 1
        BY <1>0, <1>1, <1>2, <1>5, <3>2 DEF RunsAreCounted, histVars
      <4> QED
        BY <4>1 DEF RunIsCounted
    <3> QED
      BY <3>1, <3>2
  <2>2. \A d \in Oid \ configured : a'[d] = a[d]
    BY <1>2, <1>5
  <2> QED
    BY <1>0, <1>1, <2>1, <2>2 DEF RunsAreCounted, histVars
<1>11. AlarmsAreCounted'
  <2>1. \A d \in Oid : a'[d].invalid_count = a[d].invalid_count /\ a'[d].range_check_count = a[d].range_check_count
    BY <1>5, <1>6
  <2> QED
    BY <1>0, <1>1, <2>1 DEF AlarmsAreCounted, histVars
<1>12. RunIsSeen'
  <2>0. a'[oid].state # a'[oid].sample_count
    BY <1>4, <1>6
  <2>1. ASSUME NEW d \in configured, Complete(d)' PROVE d # oid /\ Complete(d) /\ d \in Nat
    <3>1. d # oid
      BY <2>0, <2>1 DEF Complete
    <3> QED
      BY <1>2, <1>5, <2>1, <3>1, AdcConstants DEF Complete
  <2>2. \A d \in Nat : d # oid /\ oid <= d => oid < d
    BY <1>2
  <2> QED
    BY <1>0, <1>1, <2>1, <2>2 DEF RunIsSeen
<1>13. ReportIsWhole'
  BY <1>1, <1>3 DEF RunIsCounted, ReportIsWhole
<1> QED
  BY <1>0, <1>1, <1>8, <1>9, <1>10, <1>11, <1>12, <1>13 DEF AdcInv, ConverterIsShared, convVars

LEMMA StepAdcInv == ASSUME AdcInv, [NextAdc]_adcVars PROVE AdcInv'
<1>1. armed \subseteq configured /\ configured \subseteq Oid
  BY DEF AdcInv, AdcTyped, TypeOKAdc
<1>2. ASSUME NEW c \in armed, analog_in_event(c) PROVE AdcInv'
  <2>1. CASE StartSample(c) \/ WaitSample(c)
    BY <1>1, <2>1, ConverterStep
  <2>2. ASSUME NEW r \in Reading, SampleMore(c, r) \/ RunInRange(c, r) \/ RunOutOfRange(c, r) PROVE AdcInv'
    BY <2>2, SampleStep
  <2>3. ASSUME NEW r \in Reading, RunShutsDown(c, r) PROVE AdcInv'
    BY <2>3, ShutdownStep
  <2> QED
    BY <1>2, <2>1, <2>2, <2>3 DEF analog_in_event
<1>3. CASE ConversionDone \/ ClearShutdown
  BY <1>3, ConverterStep
<1>4. CASE IrqShutdown
  BY <1>4, ShutdownStep
<1>5. CASE task_analog_in \/ query_analog_in
  BY <1>5, MainStep, TakesStep, CountStep, LimitsStep DEF task_analog_in, query_analog_in
<1>6. ASSUME NEW c \in Oid, NEW p \in Pin, command_config_analog_in(c, p) PROVE AdcInv'
  BY <1>6, ConfigStep
<1>7. ASSUME NEW c \in Oid, NEW q \in Query, QueryDelTimer(c, q) PROVE AdcInv'
  BY <1>7, MainStep
<1>8. CASE UNCHANGED adcVars
  <2>1. UNCHANGED <<configured, a, pin, armed, analog_wake, shutdown, convVars, mainVars, histVars>>
    BY <1>8 DEF adcVars
  <2> QED
    BY <2>1 DEF AdcInv, AdcTyped, TypeOKAdc, AdcTargets, InAdcQuery, RunsAreCounted, RunIsCounted, ConverterIsShared,
       AlarmsAreCounted, RunIsSeen, Complete, ReportIsWhole, convVars, mainVars, histVars
<1> QED
  BY <1>2, <1>3, <1>4, <1>5, <1>6, <1>7, <1>8 DEF NextAdc

\* The objects, the converter and the main thread's place have their types.
THEOREM AdcTypeCorrect == SafeAdc => []TypeOKAdc
<1>1. AdcInv /\ [NextAdc]_adcVars => AdcInv'
  BY StepAdcInv
<1>2. AdcInv => TypeOKAdc
  BY DEF AdcInv, AdcTyped
<1> QED
  BY InitAdcInv, <1>1, <1>2, PTL DEF SafeAdc

\* Every report is the sum of one whole run of its own input and none is passed over,
\* what was asked for is sampled, and the alarm comes exactly at its limit, for runs above
\* the range as for those below, however the inputs share the converter and queries and
\* shutdowns cut in (cmds_adc.c).
THEOREM InputsAlwaysRead == SafeAdc => []InputsAreRead
<1>1. AdcInv /\ [NextAdc]_adcVars => AdcInv'
  BY StepAdcInv
<1>2. AdcInv => InputsAreRead
  <2> SUFFICES ASSUME AdcInv PROVE InputsAreRead
    OBVIOUS
  <2>1. AdcTyped /\ AdcTargets /\ RunsAreCounted /\ ConverterIsShared /\ AlarmsAreCounted /\ RunIsSeen /\ ReportIsWhole
    BY DEF AdcInv
  <2>2. ReadsOwnPin
    BY <2>1, AdcConstants DEF RunsAreCounted, ConverterIsShared, ReadsOwnPin, Ready
  <2>3. SampledAsAsked
    BY <2>1 DEF AdcTargets, InAdcQuery, SampledAsAsked
  <2>4. AlarmIsExact
    BY <2>1 DEF AlarmsAreCounted, AlarmIsExact, AlarmIsRaised, AlarmIsJustified, AdcTyped, TypeOKAdc
  <2> QED
    BY <2>1, <2>2, <2>3, <2>4 DEF InputsAreRead, SamplesAreWhole
<1> QED
  BY InitAdcInv, <1>1, <1>2, PTL DEF SafeAdc
=============================================================================
