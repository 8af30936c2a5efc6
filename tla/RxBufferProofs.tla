--------------------------- MODULE RxBufferProofs ---------------------------
(***************************************************************************)
(* rx_buffer_clean loses, repeats and reorders no byte, whatever the sizes *)
(* and however often the interrupt races it, provided the host's window    *)
(* keeps receive_pos from rolling over; an interrupt that shuts down while *)
(* it moves bytes leaves those already moved twice and every other one in  *)
(* place; and the console of the Linux build keeps every byte that it      *)
(* reads, for any size of its buffer.                                      *)
(***************************************************************************)
EXTENDS LinuxConsole, TLAPS

\* What the host sends never fills the range of receive_pos.
WindowFits == ReceiveWindow + MsgMin < PosRange

Typed ==
  /\ receive_buf \in [0 .. BufSize - 1 -> Byte] /\ receive_pos \in Nat
  /\ rpos \in Nat /\ pop_count \in Nat /\ copied \in Nat
  /\ line \in Seq(Byte) /\ queue \in Seq(Byte)

Counted == receive_pos = Len(queue) /\ Len(queue) + Len(line) <= ReceiveWindow + MsgMin

Fits == receive_pos = Len(queue) /\ Len(queue) <= BufSize

\* What the main thread's local variables say of the buffer
Located ==
  /\ main \in {"find", "move", "commit"} => rpos <= receive_pos
  /\ main \in {"run", "clean", "move", "commit"} => pop_count >= 1
  /\ main = "clean" /\ copied > 0 => copied + pop_count <= receive_pos
  /\ main = "move" /\ copied > 0 => copied + pop_count <= rpos
  /\ main = "commit" => copied + pop_count = rpos

\* Outside rx_buffer_clean
Whole == \A i \in 1 .. Len(queue) : receive_buf[i - 1] = queue[i] \/ (i = 1 /\ receive_buf[0] = Zero)

\* Inside it: the bytes already moved, and those behind them, which are still
\* where they were received
Moved == \A i \in 1 .. copied : receive_buf[i - 1] = queue[pop_count + i]
InPlace(i) == receive_buf[i - 1] = queue[i] \/ (i = 1 /\ receive_buf[0] = Zero)
Behind == \A i \in Nat : i > copied /\ i <= Len(queue) => InPlace(i)

Content ==
  /\ main \in {"idle", "find", "run"} => Whole
  /\ InClean => Moved /\ Behind

IInvRx == main = "spoilt" \/ (Typed /\ Counted /\ Located /\ Content)

Places == main \in {"idle", "find", "run", "clean", "move", "commit", "spoilt"}

IndRx == Places /\ IInvRx

LEMMA ConstantsTyped ==
  /\ PosRange \in Nat \ {0} /\ BufSize \in Nat /\ PosRange <= BufSize
  /\ MsgMin \in Nat \ {0} /\ MsgMax \in Nat
  /\ SeqRange \in Nat \ {0} /\ ReceiveWindow \in Nat
BY RxAssumption DEF RxAssumption

\* A frame is a sequence of bytes of at most one more than the minimum.
LEMMA FrameTyped ==
  ASSUME NEW s \in Sequence
  PROVE  Frame(s) \in Seq(Byte) /\ Len(Frame(s)) <= MsgMin + 1
<1>1. FrameLen(s) \in Nat /\ FrameLen(s) <= MsgMin + 1
  BY ConstantsTyped DEF FrameLen
<1>2. \A i \in 1 .. FrameLen(s) : (IF i = FrameLen(s) THEN MSG_SYNC ELSE s) \in Byte
  BY DEF Byte
<1> QED
  BY <1>1, <1>2 DEF Frame

\* The position of the block's MSG_SYNC is in the bytes searched.
LEMMA MsglenTyped ==
  ASSUME rpos \in Nat, SyncFound
  PROVE  msglen \in Nat /\ msglen >= 1
<1>1. (CHOOSE i \in FirstSync(receive_buf, rpos + 1) : TRUE) \in FirstSync(receive_buf, rpos + 1)
  BY DEF SyncFound
<1>2. \A i \in FirstSync(receive_buf, rpos + 1) : i \in Nat
  BY DEF FirstSync
<1> HIDE DEF FirstSync
<1> QED
  BY <1>1, <1>2 DEF msglen

\* What is left of a sequence without its first p elements
LEMMA RestTyped ==
  ASSUME NEW S, NEW q \in Seq(S), NEW p \in Nat, NEW n \in Nat, p + n = Len(q)
  PROVE  /\ SubSeq(q, p + 1, Len(q)) \in Seq(S)
         /\ Len(SubSeq(q, p + 1, Len(q))) = n
         /\ \A i \in 1 .. n : SubSeq(q, p + 1, Len(q))[i] = q[p + i]
OBVIOUS

LEMMA InitInd == ASSUME WindowFits, InitRx PROVE IndRx
<1>1. [i \in 0 .. BufSize - 1 |-> Zero] \in [0 .. BufSize - 1 -> Byte]
  BY DEF Byte
<1>2. Typed
  BY <1>1 DEF InitRx, Typed
<1>3. Counted /\ Located /\ Content
  BY ConstantsTyped DEF InitRx, Counted, Located, Content, Whole, InClean
<1> QED
  BY <1>2, <1>3 DEF InitRx, IndRx, IInvRx, Places

\* A byte stored by the interrupt goes behind every byte the main thread uses.
LEMMA AddInd ==
  ASSUME WindowFits, Places, Typed, Counted, Located, Content, line # <<>>,
         NEW b \in Byte, rx_buffer_add(b), line' = Tail(line),
         UNCHANGED <<main, rpos, pop_count, copied>>
  PROVE  IndRx'
<1>1. line' \in Seq(Byte) /\ Len(line') = Len(line) - 1 /\ Len(line) >= 1
  BY DEF Typed
<1>2. receive_pos + 1 < PosRange /\ receive_pos < BufSize
  BY <1>1, ConstantsTyped DEF WindowFits, Counted, Typed
<1>3. /\ receive_buf' = [receive_buf EXCEPT ![receive_pos] = b]
      /\ receive_pos' = receive_pos + 1
      /\ queue' = Append(queue, b)
  BY <1>2, ConstantsTyped DEF rx_buffer_add, Typed
<1>4. Typed'
  <2>1. receive_buf' \in [0 .. BufSize - 1 -> Byte]
    BY <1>3 DEF Typed
  <2>2. queue' \in Seq(Byte)
    BY <1>3 DEF Typed
  <2> QED
    BY <1>1, <1>3, <2>1, <2>2 DEF Typed
<1>5. Counted'
  BY <1>1, <1>3, ConstantsTyped DEF Counted, Typed
<1>6. Located'
  BY <1>3 DEF Located, Typed
<1>7. /\ \A i \in 1 .. Len(queue) : receive_buf'[i - 1] = receive_buf[i - 1] /\ queue'[i] = queue[i]
      /\ receive_buf'[Len(queue)] = b /\ queue'[Len(queue) + 1] = b
      /\ Len(queue') = Len(queue) + 1
  <2>1. /\ \A i \in 1 .. Len(queue) : queue'[i] = queue[i]
        /\ queue'[Len(queue) + 1] = b /\ Len(queue') = Len(queue) + 1
    BY <1>3 DEF Typed
  <2>2. receive_pos = Len(queue) /\ Len(queue) \in Nat /\ BufSize \in Nat
    BY ConstantsTyped DEF Typed, Counted
  <2>3. \A i \in 1 .. Len(queue) : i - 1 \in 0 .. BufSize - 1 /\ i - 1 # receive_pos
    BY <1>2, <2>2
  <2>4. receive_pos \in 0 .. BufSize - 1
    BY <1>2, <2>2
  <2>5. \A k \in 0 .. BufSize - 1 : receive_buf'[k] = IF k = receive_pos THEN b ELSE receive_buf[k]
    BY <1>3 DEF Typed
  <2> QED
    BY <2>1, <2>2, <2>3, <2>4, <2>5
<1>8. Whole => Whole'
  BY <1>7 DEF Whole, Typed
<1>9. ASSUME InClean PROVE Moved' /\ Behind'
  <2>1. copied = 0 \/ copied + pop_count <= Len(queue)
    BY <1>9 DEF InClean, Located, Counted, Typed
  <2>2. Moved'
    <3> SUFFICES ASSUME NEW i \in 1 .. copied PROVE receive_buf'[i - 1] = queue'[pop_count + i]
      BY DEF Moved
    <3>1. i \in 1 .. Len(queue) /\ pop_count + i \in 1 .. Len(queue)
      BY <2>1 DEF Typed
    <3>2. receive_buf[i - 1] = queue[pop_count + i]
      BY <1>9 DEF Content, Moved
    <3> QED
      BY <3>1, <3>2, <1>7
  <2>3. Behind'
    <3> SUFFICES ASSUME NEW i \in Nat, i > copied, i <= Len(queue')
                 PROVE  receive_buf'[i - 1] = queue'[i] \/ (i = 1 /\ receive_buf'[0] = Zero)
      BY DEF Behind, InPlace
    <3>1. Len(queue) \in Nat
      BY DEF Typed
    <3>2. CASE i = Len(queue) + 1
      BY <1>7, <3>1, <3>2
    <3>3. CASE i # Len(queue) + 1
      <4>1. i \in 1 .. Len(queue)
        BY <1>7, <3>1, <3>3 DEF Typed
      <4>2. receive_buf[i - 1] = queue[i] \/ (i = 1 /\ receive_buf[0] = Zero)
        BY <1>9, <4>1 DEF Content, Behind, InPlace
      <4>3. receive_buf'[i - 1] = receive_buf[i - 1] /\ queue'[i] = queue[i]
        BY <1>7, <4>1
      <4>4. i = 1 => receive_buf'[0] = receive_buf[0]
        BY <4>3
      <4> QED
        BY <4>2, <4>3, <4>4
    <3> QED
      BY <3>2, <3>3
  <2> QED
    BY <2>2, <2>3
<1> QED
  BY <1>4, <1>5, <1>6, <1>8, <1>9 DEF IndRx, IInvRx, Content, InClean, Places

\* However the search changed the block, rx_buffer_clean starts on a queue when
\* the buffer agrees with it and at least one byte is to be removed.
LEMMA CleanEntry ==
  ASSUME WindowFits, Typed, Counted, Located,
         receive_buf' \in [0 .. BufSize - 1 -> Byte],
         queue' \in Seq(Byte), Len(queue') = Len(queue),
         \A i \in 1 .. Len(queue) : receive_buf'[i - 1] = queue'[i] \/ (i = 1 /\ receive_buf'[0] = Zero),
         NEW n \in Nat, n >= 1, pop_count' = n, main' = "clean", copied' = 0,
         UNCHANGED <<receive_pos, line, rpos>>
  PROVE  IndRx'
<1>1. Typed'
  BY DEF Typed
<1>2. Counted' /\ Located'
  BY DEF Counted, Located, Typed
<1>3. Moved'
  BY DEF Moved
<1>4. Behind'
  <2> SUFFICES ASSUME NEW i \in Nat, i > 0, i <= Len(queue)
               PROVE  receive_buf'[i - 1] = queue'[i] \/ (i = 1 /\ receive_buf'[0] = Zero)
    BY DEF Behind, InPlace
  <2>1. i \in 1 .. Len(queue)
    BY DEF Typed
  <2> QED
    BY <2>1
<1> QED
  BY <1>1, <1>2, <1>3, <1>4 DEF IndRx, IInvRx, Content, InClean, Places

\* What the buffer holds when the search leaves all of it but the COBS code.
LEMMA SearchKeeps ==
  ASSUME Typed, Fits, Whole,
         receive_buf' = receive_buf \/ receive_buf' = [receive_buf EXCEPT ![0] = Zero]
  PROVE  /\ receive_buf' \in [0 .. BufSize - 1 -> Byte]
         /\ \A i \in 2 .. Len(queue) : receive_buf'[i - 1] = queue[i]
         /\ \A i \in 1 .. Len(queue) : receive_buf'[i - 1] = queue[i] \/ (i = 1 /\ receive_buf'[0] = Zero)
<1>1. receive_buf' \in [0 .. BufSize - 1 -> Byte]
  BY ConstantsTyped DEF Typed, Byte
<1>2. ASSUME NEW i \in 2 .. Len(queue) PROVE receive_buf'[i - 1] = queue[i]
  <2>1. i - 1 \in 0 .. BufSize - 1 /\ i - 1 # 0
    BY ConstantsTyped DEF Fits, Typed
  <2>2. receive_buf[i - 1] = queue[i]
    BY DEF Whole, Typed
  <2> QED
    BY <2>1, <2>2 DEF Typed
<1>3. ASSUME NEW i \in 1 .. Len(queue)
      PROVE  receive_buf'[i - 1] = queue[i] \/ (i = 1 /\ receive_buf'[0] = Zero)
  <2>1. CASE i = 1
    <3>1. 0 \in 0 .. BufSize - 1
      BY <2>1, ConstantsTyped DEF Fits, Typed
    <3>2. receive_buf[0] = queue[1] \/ receive_buf[0] = Zero
      BY <2>1 DEF Whole
    <3>3. receive_buf'[0] = receive_buf[0] \/ receive_buf'[0] = Zero
      BY <3>1 DEF Typed
    <3> QED
      BY <2>1, <3>2, <3>3
  <2>2. CASE i # 1
    BY <1>2, <2>2
  <2> QED
    BY <2>1, <2>2
<1> QED
  BY <1>1, <1>2, <1>3

\* And when the decoder wrote over some of it.
LEMMA DecodeKeeps ==
  ASSUME Typed, Fits, Whole, NEW D, Decode(D)
  PROVE  /\ receive_buf' \in [0 .. BufSize - 1 -> Byte]
         /\ queue' \in Seq(Byte) /\ Len(queue') = Len(queue)
         /\ \A i \in 2 .. Len(queue) : receive_buf'[i - 1] = queue'[i]
         /\ \A i \in 1 .. Len(queue) : receive_buf'[i - 1] = queue'[i] \/ (i = 1 /\ receive_buf'[0] = Zero)
<1>1. receive_buf' = [i \in 0 .. BufSize - 1 |-> IF i \in D THEN MSG_SYNC ELSE receive_buf[i]]
  BY DEF Decode, Typed
<1>2. \A i \in 0 .. BufSize - 1 : (IF i \in D THEN MSG_SYNC ELSE receive_buf[i]) \in Byte
  BY DEF Typed, Byte
<1>3. receive_buf' \in [0 .. BufSize - 1 -> Byte]
  BY <1>1, <1>2
<1>4. Len(queue) \in Nat /\ \A i \in 1 .. Len(queue) : (IF i - 1 \in D THEN MSG_SYNC ELSE queue[i]) \in Byte
  BY DEF Typed, Byte
<1>5. queue' \in Seq(Byte) /\ Len(queue') = Len(queue)
  BY <1>4 DEF Decode
<1>6. ASSUME NEW i \in 2 .. Len(queue) PROVE receive_buf'[i - 1] = queue'[i]
  <2>1. i - 1 \in 0 .. BufSize - 1 /\ i \in 1 .. Len(queue)
    BY ConstantsTyped DEF Fits, Typed
  <2>2. receive_buf[i - 1] = queue[i]
    BY DEF Whole, Typed
  <2>3. receive_buf'[i - 1] = IF i - 1 \in D THEN MSG_SYNC ELSE receive_buf[i - 1]
    BY <1>1, <2>1
  <2>4. queue'[i] = IF i - 1 \in D THEN MSG_SYNC ELSE queue[i]
    BY <2>1 DEF Decode
  <2> QED
    BY <2>2, <2>3, <2>4
<1>7. ASSUME NEW i \in 1 .. Len(queue)
      PROVE  receive_buf'[i - 1] = queue'[i] \/ (i = 1 /\ receive_buf'[0] = Zero)
  <2>1. CASE i = 1
    <3>1. 0 \in 0 .. BufSize - 1 /\ 1 \in 1 .. Len(queue)
      BY <2>1, ConstantsTyped DEF Fits, Typed
    <3>2. receive_buf[0] = queue[1] \/ receive_buf[0] = Zero
      BY <3>1 DEF Whole
    <3>3. receive_buf'[0] = IF 0 \in D THEN MSG_SYNC ELSE receive_buf[0]
      BY <1>1, <3>1
    <3>4. queue'[1] = IF 1 - 1 \in D THEN MSG_SYNC ELSE queue[1]
      BY <3>1 DEF Decode
    <3> QED
      BY <2>1, <3>2, <3>3, <3>4
  <2>2. CASE i # 1
    BY <1>6, <2>2
  <2> QED
    BY <2>1, <2>2
<1> QED
  BY <1>3, <1>5, <1>6, <1>7

LEMMA DiscardsSome ==
  ASSUME NEW buf, rpos \in Nat, rpos >= 1, Discard(FirstSync(buf, rpos))
  PROVE  \E n \in Nat : n >= 1 /\ pop_count' = n
<1> DEFINE found == FirstSync(buf, rpos)
<1>1. pop_count' = IF found = {} THEN rpos ELSE (CHOOSE i \in found : TRUE) + 1
  BY DEF Discard
<1>2. \A i \in found : i \in Nat
  BY DEF FirstSync
<1> HIDE DEF found
<1>3. CASE found = {}
  BY <1>1, <1>3
<1>4. CASE found # {}
  <2>1. PICK k \in Nat : k = (CHOOSE i \in found : TRUE)
    BY <1>2, <1>4
  <2>2. pop_count' = k + 1
    BY <1>1, <1>4, <2>1
  <2>3. k + 1 \in Nat /\ k + 1 >= 1
    BY <2>1
  <2> QED
    BY <2>2, <2>3
<1> QED
  BY <1>3, <1>4

\* Once the task was left, the buffer agreeing with its bytes is all that counts.
LEMMA StoppedInd ==
  ASSUME Typed, Counted, MainStops,
         receive_buf' \in [0 .. BufSize - 1 -> Byte], queue' \in Seq(Byte), Len(queue') = Len(queue), Whole'
  PROVE  IndRx'
<1>1. main' = "idle" /\ UNCHANGED <<receive_pos, line, rpos, pop_count, copied>>
  BY DEF MainStops
<1>2. Typed' /\ Counted' /\ Located'
  BY <1>1 DEF Typed, Counted, Located
<1> QED
  BY <1>1, <1>2 DEF IndRx, IInvRx, Places, Content, InClean

\* A decoding that was cut off wrote over the same bytes in the buffer and in
\* its history.
LEMMA DecodeStopsKeeps ==
  ASSUME Typed, Fits, Whole, DecodeStops
  PROVE  /\ receive_buf' \in [0 .. BufSize - 1 -> Byte]
         /\ queue' \in Seq(Byte) /\ Len(queue') = Len(queue) /\ Whole'
<1>0. PICK D \in DecodeWrites : \E B :
        /\ B = [i \in 0 .. BufSize - 1 |-> IF i \in D THEN MSG_SYNC ELSE receive_buf[i]]
        /\ receive_buf' = B \/ receive_buf' = [B EXCEPT ![0] = Zero]
        /\ queue' = [i \in 1 .. Len(queue) |-> IF i - 1 \in D THEN MSG_SYNC ELSE queue[i]]
  BY DEF DecodeStops, Typed
<1>1. PICK B :
        /\ B = [i \in 0 .. BufSize - 1 |-> IF i \in D THEN MSG_SYNC ELSE receive_buf[i]]
        /\ receive_buf' = B \/ receive_buf' = [B EXCEPT ![0] = Zero]
        /\ queue' = [i \in 1 .. Len(queue) |-> IF i - 1 \in D THEN MSG_SYNC ELSE queue[i]]
  BY <1>0
<1>2. B \in [0 .. BufSize - 1 -> Byte]
  <2>1. \A i \in 0 .. BufSize - 1 : (IF i \in D THEN MSG_SYNC ELSE receive_buf[i]) \in Byte
    BY DEF Typed, Byte
  <2> QED
    BY <1>1, <2>1
<1>3. receive_buf' \in [0 .. BufSize - 1 -> Byte]
  BY <1>1, <1>2 DEF Byte
<1>4. Len(queue) \in Nat /\ \A i \in 1 .. Len(queue) : (IF i - 1 \in D THEN MSG_SYNC ELSE queue[i]) \in Byte
  BY DEF Typed, Byte
<1>5. queue' \in Seq(Byte) /\ Len(queue') = Len(queue)
  BY <1>1, <1>4
<1>6. ASSUME NEW i \in 1 .. Len(queue)
      PROVE  receive_buf'[i - 1] = queue'[i] \/ (i = 1 /\ receive_buf'[0] = Zero)
  <2>1. i - 1 \in 0 .. BufSize - 1
    BY <1>4, ConstantsTyped DEF Fits
  <2>2. B[i - 1] = (IF i - 1 \in D THEN MSG_SYNC ELSE receive_buf[i - 1])
    BY <1>1, <2>1
  <2>3. queue'[i] = IF i - 1 \in D THEN MSG_SYNC ELSE queue[i]
    BY <1>1
  <2>4. receive_buf[i - 1] = queue[i] \/ (i = 1 /\ receive_buf[0] = Zero)
    BY DEF Whole
  <2>5. CASE i = 1
    <3>1. 0 \in 0 .. BufSize - 1
      BY <2>1, <2>5
    <3>2. receive_buf'[0] = B[0] \/ receive_buf'[0] = Zero
      BY <1>1, <1>2, <3>1
    <3>3. i - 1 = 0
      BY <2>5
    <3> QED
      BY <2>2, <2>3, <2>4, <2>5, <3>2, <3>3
  <2>6. CASE i # 1
    <3>1. i - 1 # 0
      BY <1>4, <2>6
    <3>2. receive_buf'[i - 1] = B[i - 1]
      BY <1>1, <1>2, <2>1, <3>1
    <3> QED
      BY <2>2, <2>3, <2>4, <2>6, <3>2
  <2> QED
    BY <2>5, <2>6
<1> QED
  BY <1>3, <1>5, <1>6 DEF Whole

\* A shutdown within rx_buffer_clean leaves the bytes moved so far twice.
LEMMA TornKeeps ==
  ASSUME Typed, Fits, Located, InClean, Moved, Behind, CleanStops
  PROVE  /\ receive_buf' \in [0 .. BufSize - 1 -> Byte]
         /\ queue' \in Seq(Byte) /\ Len(queue') = Len(queue) /\ Whole'
<1>0. PICK n \in Nat : n = Len(queue)
  BY DEF Typed
<1>1. PICK k \in Nat :
        /\ copied <= k /\ (k = copied \/ (main = "move" /\ k <= needcopy))
        /\ receive_buf' = [i \in 0 .. BufSize - 1 |->
                             IF i \in copied .. k - 1 THEN receive_buf[i + pop_count] ELSE receive_buf[i]]
        /\ queue' = Torn(k)
  <2>1. PICK k \in copied .. (IF main = "move" /\ needcopy > copied THEN needcopy ELSE copied) :
          /\ receive_buf' = [i \in DOMAIN receive_buf |->
                               IF i \in copied .. k - 1 THEN receive_buf[i + pop_count] ELSE receive_buf[i]]
          /\ queue' = Torn(k)
    BY DEF CleanStops
  <2>2. needcopy \in Int /\ copied \in Nat
    BY DEF needcopy, Typed
  <2>3. k \in Nat /\ copied <= k /\ (k = copied \/ (main = "move" /\ k <= needcopy))
    BY <2>1, <2>2
  <2>4. DOMAIN receive_buf = 0 .. BufSize - 1
    BY DEF Typed
  <2> QED
    BY <2>1, <2>3, <2>4
<1>2. /\ k = 0 \/ k + pop_count <= n
      /\ pop_count \in Nat /\ pop_count >= 1 /\ copied \in Nat /\ n <= BufSize /\ BufSize \in Nat
  BY <1>0, <1>1, ConstantsTyped DEF Located, Typed, InClean, Fits, needcopy
<1>3. receive_buf' \in [0 .. BufSize - 1 -> Byte]
  <2>1. \A i \in 0 .. BufSize - 1 :
          (IF i \in copied .. k - 1 THEN receive_buf[i + pop_count] ELSE receive_buf[i]) \in Byte
    BY <1>2 DEF Typed
  <2> QED
    BY <1>1, <2>1
<1>4. queue' = [i \in 1 .. n |-> IF i <= k THEN queue[i + pop_count] ELSE queue[i]]
  BY <1>0, <1>1 DEF Torn
<1>5. queue' \in Seq(Byte) /\ Len(queue') = n
  <2>1. \A i \in 1 .. n : (IF i <= k THEN queue[i + pop_count] ELSE queue[i]) \in Byte
    BY <1>0, <1>2 DEF Typed
  <2> QED
    BY <1>4, <2>1
<1>6. ASSUME NEW i \in 1 .. n
      PROVE  receive_buf'[i - 1] = queue'[i] \/ (i = 1 /\ receive_buf'[0] = Zero)
  <2>0. i - 1 \in 0 .. BufSize - 1
    BY <1>2
  <2>1. CASE i <= copied
    <3>1. receive_buf'[i - 1] = receive_buf[i - 1] /\ queue'[i] = queue[i + pop_count]
      BY <1>1, <1>2, <1>4, <2>0, <2>1
    <3>2. receive_buf[i - 1] = queue[pop_count + i]
      BY <2>1 DEF Moved
    <3> QED
      BY <3>1, <3>2, <1>2
  <2>2. CASE i > copied /\ i <= k
    <3>1. receive_buf'[i - 1] = receive_buf[(pop_count + i) - 1] /\ queue'[i] = queue[pop_count + i]
      BY <1>1, <1>2, <1>4, <2>0, <2>2
    <3>2. /\ pop_count + i \in Nat /\ pop_count + i > copied
          /\ pop_count + i <= Len(queue) /\ pop_count + i # 1
      BY <1>0, <1>2, <2>2
    <3>3. receive_buf[(pop_count + i) - 1] = queue[pop_count + i]
      BY <3>2 DEF Behind, InPlace
    <3> QED
      BY <3>1, <3>3
  <2>3. CASE i > k
    <3>1. receive_buf'[i - 1] = receive_buf[i - 1] /\ queue'[i] = queue[i]
      BY <1>1, <1>2, <1>4, <2>0, <2>3
    <3>2. receive_buf[i - 1] = queue[i] \/ (i = 1 /\ receive_buf[0] = Zero)
      BY <1>0, <1>1, <1>2, <2>3 DEF Behind, InPlace
    <3>3. i = 1 => receive_buf'[0] = receive_buf[0]
      BY <3>1
    <3> QED
      BY <3>1, <3>2, <3>3
  <2> QED
    BY <1>1, <1>2, <2>1, <2>2, <2>3
<1> QED
  BY <1>0, <1>3, <1>5, <1>6 DEF Whole

\* An interrupt that shuts down at any step of the task
LEMMA StopInd ==
  ASSUME Typed, Fits, Counted, Located, Content, IrqStops
  PROVE  IndRx'
<1>1. CASE SearchStops
  <2>1. main = "find" /\ MainStops /\ Whole
    BY <1>1 DEF SearchStops, Content
  <2>2. CASE DecodeStops
    BY <2>1, <2>2, DecodeStopsKeeps, StoppedInd
  <2>3. CASE UNCHANGED <<receive_buf, queue>>
    BY <2>1, <2>3, StoppedInd DEF Whole, Typed
  <2> QED
    BY <1>1, <2>2, <2>3 DEF SearchStops
<1>2. CASE BlockStops
  <2>1. main = "run" /\ MainStops /\ Whole /\ UNCHANGED <<receive_buf, queue>>
    BY <1>2 DEF BlockStops, Content
  <2> QED
    BY <2>1, StoppedInd DEF Whole, Typed
<1>3. CASE CleanStops
  <2>1. InClean /\ MainStops /\ Moved /\ Behind
    BY <1>3 DEF CleanStops, Content, InClean
  <2> QED
    BY <1>3, <2>1, TornKeeps, StoppedInd
<1> QED
  BY <1>1, <1>2, <1>3 DEF IrqStops

LEMMA StepInd == ASSUME WindowFits, IndRx, [NextRx]_rxVars PROVE IndRx'
<1>1. CASE UNCHANGED rxVars
  BY <1>1 DEF rxVars, bufVars, hostVars, syncVars, IndRx, IInvRx, Places, Typed, Counted,
             Located, Content, Whole, Moved, Behind, InPlace, InClean
<1>2. CASE Spoilt
  BY <1>2 DEF Spoilt, rxVars, IndRx, IInvRx, Places
<1>3. CASE main = "spoilt" /\ NextRx /\ ~Spoilt
  <2>1. main' = "spoilt"
    BY <1>3 DEF NextRx, HostSend, LoseByte, IrqRx, MainRx, ReadPos, NeedMoreData, Accept,
               OutOfSequence, DropLeadingSync, DropDamaged, DropUnsynced, Discard, RunDone, RunStops,
               CleanRead, MoveBytes, MoveTooMany, CleanRetry, CleanCommit, InSync, HasBlock,
               IrqStops, SearchStops, BlockStops, CleanStops
  <2> QED
    BY <2>1 DEF IndRx, IInvRx, Places
<1>4. CASE main # "spoilt" /\ NextRx /\ ~Spoilt
  <2> USE <1>4
  <2>0. Places /\ Typed /\ Counted /\ Located /\ Content
    BY DEF IndRx, IInvRx
  <2>f. Fits
    BY <2>0, ConstantsTyped DEF WindowFits, Counted, Typed, Fits
  <2>1. ASSUME NEW s \in Sequence, HostSend(s) PROVE IndRx'
    <3>1. line' \in Seq(Byte) /\ Len(line') <= MsgMin + 1 /\ Len(queue) < ReceiveWindow
      BY <2>1, FrameTyped DEF HostSend
    <3>2. UNCHANGED <<receive_buf, receive_pos, queue, main, rpos, pop_count, copied>>
      BY <2>1 DEF HostSend, bufVars
    <3>3. Counted'
      BY <2>0, <3>1, <3>2, ConstantsTyped DEF Counted, Typed
    <3> QED
      BY <2>0, <3>1, <3>2, <3>3 DEF IndRx, IInvRx, Places, Typed, Located, Content, Whole, Moved, Behind, InPlace, InClean
  <2>2. ASSUME LoseByte PROVE IndRx'
    <3>1. line' \in Seq(Byte) /\ Len(line') <= Len(line)
      BY <2>0, <2>2 DEF LoseByte, Typed
    <3>2. UNCHANGED <<receive_buf, receive_pos, queue, main, rpos, pop_count, copied>>
      BY <2>2 DEF LoseByte, bufVars
    <3>3. Counted'
      BY <2>0, <3>1, <3>2, ConstantsTyped DEF Counted, Typed
    <3> QED
      BY <2>0, <3>1, <3>2, <3>3 DEF IndRx, IInvRx, Places, Typed, Located, Content, Whole, Moved, Behind, InPlace, InClean
  <2>3. ASSUME IrqRx PROVE IndRx'
    <3>1. line # <<>> /\ line' = Tail(line) /\ UNCHANGED <<main, rpos, pop_count, copied>>
      BY <2>3 DEF IrqRx, ReceiveByte
    <3>2. PICK b \in Byte : rx_buffer_add(b)
      BY <2>0, <2>3 DEF IrqRx, ReceiveByte, Typed, Byte
    <3> QED
      BY <2>0, <3>1, <3>2, AddInd
  <2>4. ASSUME ReadPos \/ NeedMoreData PROVE IndRx'
    <3>1. /\ main \in {"idle", "find"} /\ main' \in {"idle", "find"}
          /\ main' = "find" => rpos' = receive_pos
          /\ rpos' \in {rpos, receive_pos}
          /\ UNCHANGED <<receive_buf, receive_pos, queue, line, pop_count, copied>>
      BY <2>4 DEF ReadPos, NeedMoreData, InSync, bufVars, hostVars
    <3>2. Typed' /\ Counted' /\ Located'
      BY <2>0, <3>1 DEF Typed, Counted, Located
    <3>3. Whole'
      BY <2>0, <3>1 DEF Content, Whole
    <3> QED
      BY <3>1, <3>2, <3>3 DEF IndRx, IInvRx, Places, Content, InClean
  <2>5. ASSUME Accept PROVE IndRx'
    <3>1. msglen \in Nat /\ msglen >= 1
      BY <2>0, <2>5, MsglenTyped DEF Accept, HasBlock, Typed
    <3>2. /\ receive_buf' = [receive_buf EXCEPT ![0] = Zero]
          /\ pop_count' = msglen /\ main' = "run" /\ main = "find"
          /\ UNCHANGED <<receive_pos, queue, line, rpos, copied>>
      BY <2>5 DEF Accept, HasBlock, InSync, hostVars
    <3>3. Typed' /\ Counted' /\ Located'
      BY <2>0, <3>1, <3>2 DEF Typed, Counted, Located, Byte
    <3>4. Whole'
      BY <2>0, <3>2, ConstantsTyped DEF Typed, Content, Whole
    <3> QED
      BY <3>2, <3>3, <3>4 DEF IndRx, IInvRx, Places, Content, InClean
  <2>6. ASSUME OutOfSequence PROVE IndRx'
    <3>1. msglen \in Nat /\ msglen >= 1
      BY <2>0, <2>6, MsglenTyped DEF OutOfSequence, HasBlock, Typed
    <3>2. /\ receive_buf' = [receive_buf EXCEPT ![0] = Zero]
          /\ pop_count' = msglen /\ main' = "clean" /\ copied' = 0 /\ main = "find"
          /\ UNCHANGED <<receive_pos, queue, line, rpos>>
      BY <2>6 DEF OutOfSequence, HasBlock, InSync, hostVars
    <3>3. Whole /\ queue' \in Seq(Byte)
      BY <2>0, <3>2 DEF Content, Typed
    <3>4. /\ receive_buf' \in [0 .. BufSize - 1 -> Byte]
          /\ \A i \in 1 .. Len(queue) : receive_buf'[i - 1] = queue[i] \/ (i = 1 /\ receive_buf'[0] = Zero)
      BY <2>0, <2>f, <3>2, <3>3, SearchKeeps
    <3> QED
      BY <2>0, <3>1, <3>2, <3>3, <3>4, CleanEntry
  <2>7. ASSUME DropLeadingSync PROVE IndRx'
    <3>1. /\ pop_count' = 1 /\ main' = "clean" /\ copied' = 0 /\ main = "find"
          /\ UNCHANGED <<receive_pos, line, rpos>>
      BY <2>7 DEF DropLeadingSync, HasBlock, InSync, hostVars
    <3>2. Whole
      BY <2>0, <3>1 DEF Content
    <3>3. PICK D \in DecodeWrites : Decode(D)
      BY <2>7 DEF DropLeadingSync
    <3> QED
      BY <2>0, <2>f, <3>1, <3>2, <3>3, DecodeKeeps, CleanEntry
  <2>8. ASSUME DropDamaged PROVE IndRx'
    <3>1. /\ Discard(FirstSync(receive_buf', rpos)) /\ main = "find" /\ rpos >= 1
      BY <2>0, <2>8, ConstantsTyped DEF DropDamaged, HasBlock, InSync, Typed
    <3>2. Whole
      BY <2>0, <3>1 DEF Content
    <3>3. PICK D \in DecodeWrites : Decode(D)
      BY <2>8 DEF DropDamaged
    <3>4. PICK n \in Nat : n >= 1 /\ pop_count' = n
      BY <2>0, <3>1, DiscardsSome DEF Typed
    <3>5. main' = "clean" /\ copied' = 0 /\ UNCHANGED <<receive_pos, line, rpos>>
      BY <3>1 DEF Discard, hostVars
    <3> QED
      BY <2>0, <2>f, <3>2, <3>3, <3>4, <3>5, DecodeKeeps, CleanEntry
  <2>9. ASSUME DropUnsynced PROVE IndRx'
    <3>1. /\ Discard(FirstSync(receive_buf, rpos)) /\ main = "find" /\ rpos >= 1
          /\ UNCHANGED <<receive_buf, queue>>
      BY <2>0, <2>9 DEF DropUnsynced, Typed
    <3>2. Whole /\ queue' \in Seq(Byte)
      BY <2>0, <3>1 DEF Content, Typed
    <3>3. /\ receive_buf' \in [0 .. BufSize - 1 -> Byte]
          /\ \A i \in 1 .. Len(queue) : receive_buf'[i - 1] = queue[i] \/ (i = 1 /\ receive_buf'[0] = Zero)
      BY <2>0, <2>f, <3>1, <3>2, SearchKeeps
    <3>4. PICK n \in Nat : n >= 1 /\ pop_count' = n
      BY <2>0, <3>1, DiscardsSome DEF Typed
    <3>5. main' = "clean" /\ copied' = 0 /\ UNCHANGED <<receive_pos, line, rpos>>
      BY <3>1 DEF Discard, hostVars
    <3> QED
      BY <2>0, <3>1, <3>2, <3>3, <3>4, <3>5, CleanEntry
  <2>15. ASSUME RunDone PROVE IndRx'
    <3>1. /\ receive_buf' = receive_buf /\ pop_count' = pop_count
          /\ main' = "clean" /\ copied' = 0 /\ main = "run"
          /\ UNCHANGED <<receive_pos, queue, line, rpos>>
      BY <2>15 DEF RunDone, hostVars, bufVars
    <3>2. pop_count \in Nat /\ pop_count >= 1 /\ Whole /\ queue' \in Seq(Byte)
      BY <2>0, <3>1 DEF Typed, Located, Content
    <3>3. /\ receive_buf' \in [0 .. BufSize - 1 -> Byte]
          /\ \A i \in 1 .. Len(queue) : receive_buf'[i - 1] = queue[i] \/ (i = 1 /\ receive_buf'[0] = Zero)
      BY <2>0, <2>f, <3>1, <3>2, SearchKeeps
    <3> QED
      BY <2>0, <3>1, <3>2, <3>3, CleanEntry
  <2>10. ASSUME RunStops PROVE IndRx'
    BY <2>0, <2>10 DEF RunStops, bufVars, hostVars, IndRx, IInvRx, Places,
                      Typed, Counted, Located, Content, Whole, InClean
  <2>11. ASSUME CleanRead \/ CleanRetry PROVE IndRx'
    <3>1. /\ \/ main = "clean" /\ main' = "move" /\ rpos' = receive_pos
             \/ main = "commit" /\ main' = "clean" /\ rpos' = rpos
          /\ UNCHANGED <<receive_buf, receive_pos, queue, line, pop_count, copied>>
      BY <2>11 DEF CleanRead, CleanRetry, bufVars, hostVars
    <3>2. Typed' /\ Counted' /\ Located'
      BY <2>0, <3>1 DEF Typed, Counted, Located
    <3>3. Moved' /\ Behind'
      BY <2>0, <3>1 DEF Content, Moved, Behind, InPlace, InClean
    <3> QED
      BY <3>1, <3>2, <3>3 DEF IndRx, IInvRx, Places, Content, InClean
  <2>12. ASSUME MoveBytes PROVE IndRx'
    <3>1. /\ main = "move" /\ main' = "commit"
          /\ UNCHANGED <<receive_pos, queue, line, rpos, pop_count>>
          /\ copied <= needcopy \/ needcopy = 0
          /\ copied' = IF needcopy > 0 THEN needcopy ELSE copied
      BY <2>12 DEF MoveBytes, hostVars
    <3>2. /\ copied' = needcopy /\ needcopy \in Nat /\ copied <= needcopy
          /\ needcopy + pop_count = rpos /\ rpos <= Len(queue) /\ pop_count >= 1
      BY <2>0, <3>1 DEF needcopy, Typed, Located, Counted
    <3>3. rpos < BufSize
      BY <2>0, <3>2, ConstantsTyped DEF WindowFits, Counted, Typed
    <3>4. receive_buf' = [i \in 0 .. BufSize - 1 |->
                 IF i \in copied .. needcopy - 1 THEN receive_buf[i + pop_count] ELSE receive_buf[i]]
      BY <2>0, <2>12 DEF MoveBytes, Typed
    <3>5. receive_buf' \in [0 .. BufSize - 1 -> Byte]
      <4>1. \A i \in 0 .. BufSize - 1 :
              (IF i \in copied .. needcopy - 1 THEN receive_buf[i + pop_count] ELSE receive_buf[i]) \in Byte
        BY <2>0, <3>2, <3>3, ConstantsTyped DEF Typed
      <4> QED
        BY <3>4, <4>1
    <3>6. Typed' /\ Counted' /\ Located'
      BY <2>0, <3>1, <3>2, <3>5 DEF Typed, Counted, Located
    <3>7. \A i \in 1 .. needcopy : receive_buf'[i - 1] = queue[pop_count + i]
      <4> SUFFICES ASSUME NEW i \in 1 .. needcopy PROVE receive_buf'[i - 1] = queue[pop_count + i]
        OBVIOUS
      <4>1. CASE i <= copied
        BY <4>1, <2>0, <3>1, <3>2, <3>3, <3>4, ConstantsTyped DEF Typed, Content, Moved, InClean
      <4>2. CASE i > copied
        <5>1. receive_buf'[i - 1] = receive_buf[(pop_count + i) - 1]
          BY <4>2, <2>0, <3>2, <3>3, <3>4, ConstantsTyped DEF Typed
        <5>2. pop_count + i \in Nat /\ pop_count + i > copied /\ pop_count + i <= Len(queue) /\ pop_count + i # 1
          BY <4>2, <2>0, <3>2 DEF Typed
        <5>3. receive_buf[(pop_count + i) - 1] = queue[pop_count + i]
          BY <5>2, <2>0, <3>1 DEF Content, Behind, InPlace, InClean
        <5> QED
          BY <5>1, <5>3
      <4> QED
        BY <4>1, <4>2, <2>0, <3>2 DEF Typed
    <3>8. Behind'
      <4> SUFFICES ASSUME NEW i \in Nat, i > needcopy, i <= Len(queue)
                   PROVE  receive_buf'[i - 1] = queue[i] \/ (i = 1 /\ receive_buf'[0] = Zero)
        BY <3>1, <3>2 DEF Behind, InPlace
      <4>1. receive_buf[i - 1] = queue[i] \/ (i = 1 /\ receive_buf[0] = Zero)
        BY <2>0, <3>1, <3>2 DEF Typed, Content, Behind, InPlace, InClean
      <4>2. i - 1 \in 0 .. BufSize - 1 /\ i - 1 \notin copied .. needcopy - 1
        BY <2>0, <3>2, ConstantsTyped DEF Typed, WindowFits, Counted
      <4>3. receive_buf'[i - 1] = receive_buf[i - 1]
        BY <4>2, <3>4
      <4>4. i = 1 => receive_buf'[0] = receive_buf[0]
        BY <4>3
      <4> QED
        BY <4>1, <4>3, <4>4
    <3> QED
      BY <3>1, <3>2, <3>6, <3>7, <3>8 DEF IndRx, IInvRx, Places, Content, Moved, InClean
  <2>13. ASSUME MoveTooMany PROVE IndRx'
    BY <2>13 DEF MoveTooMany, IndRx, IInvRx, Places
  <2>14. ASSUME CleanCommit PROVE IndRx'
    <3>1. /\ main = "commit" /\ main' = "idle" /\ rpos = receive_pos
          /\ receive_pos' = needcopy /\ queue' = SubSeq(queue, pop_count + 1, Len(queue))
          /\ UNCHANGED <<receive_buf, line, rpos, pop_count, copied>>
      BY <2>14 DEF CleanCommit, hostVars
    <3>2. needcopy = copied /\ copied + pop_count = Len(queue)
      BY <2>0, <3>1 DEF needcopy, Located, Counted, Typed
    <3>3. /\ queue' \in Seq(Byte) /\ Len(queue') = copied
          /\ \A i \in 1 .. copied : queue'[i] = queue[pop_count + i]
      <4>1. queue \in Seq(Byte) /\ pop_count \in Nat /\ copied \in Nat /\ pop_count + copied = Len(queue)
        BY <2>0, <3>2 DEF Typed
      <4> QED
        BY <3>1, <4>1, RestTyped
    <3>4. Typed' /\ Counted' /\ Located'
      <4>1. Typed'
        BY <2>0, <3>1, <3>2, <3>3 DEF Typed
      <4>2. Counted'
        BY <2>0, <3>1, <3>2, <3>3, ConstantsTyped DEF Typed, Counted
      <4>3. Located'
        BY <3>1 DEF Located
      <4> QED
        BY <4>1, <4>2, <4>3
    <3>5. Whole'
      BY <2>0, <3>1, <3>3 DEF Whole, Content, Moved, InClean
    <3> QED
      BY <3>1, <3>4, <3>5 DEF IndRx, IInvRx, Places, Content, InClean
  <2>16. ASSUME IrqStops PROVE IndRx'
    BY <2>0, <2>f, <2>16, StopInd
  <2> QED
    BY <2>1, <2>2, <2>3, <2>4, <2>5, <2>6, <2>7, <2>8, <2>9, <2>10, <2>11, <2>12, <2>13, <2>14, <2>15, <2>16
    DEF NextRx, MainRx
<1> QED
  BY <1>1, <1>2, <1>3, <1>4

\* While the host keeps to a window below the range of receive_pos, the buffer
\* is a queue, however often the serial interrupt races rx_buffer_clean, and
\* whatever step of the task an interrupt's shutdown leaves.
THEOREM ReceiverKeepsBytes == ASSUME WindowFits PROVE SafeRx => []BufferIsQueue
<1>1. InitRx => IndRx
  BY InitInd
<1>2. IndRx /\ [NextRx]_rxVars => IndRx'
  BY StepInd
<1>3. IndRx => BufferIsQueue
  BY DEF IndRx, IInvRx, Places, Counted, Content, Whole, BufferIsQueue, InClean
<1> QED
  BY <1>1, <1>2, <1>3, PTL DEF SafeRx
-----------------------------------------------------------------------------
(* The console of the Linux build, which no interrupt races                  *)

\* A read may come in parts or shut down; what a shutdown puts receive_pos back
\* to is never more than what was read.
LinuxInv ==
  \/ main = "spoilt"
  \/ /\ main \in {"idle", "find", "run", "clean"} /\ Typed /\ Fits
     /\ received \in Nat /\ (main # "idle" => received <= Len(queue))
     /\ (main \in {"run", "clean"} => pop_count >= 1)
     /\ (main # "clean" => Whole)
     /\ (main = "clean" => \A i \in Nat : i > pop_count /\ i <= Len(queue) => receive_buf[i - 1] = queue[i])

LEMMA InitLinuxInv == InitLinux => LinuxInv
<1> SUFFICES ASSUME InitLinux PROVE LinuxInv
  OBVIOUS
<1>1. [i \in 0 .. BufSize - 1 |-> Zero] \in [0 .. BufSize - 1 -> Byte]
  BY DEF Byte
<1>2. Typed /\ Fits /\ Whole
  BY <1>1, ConstantsTyped DEF InitLinux, InitRx, Typed, Fits, Whole
<1> QED
  BY <1>2 DEF InitLinux, InitRx, LinuxInv

\* What a read takes is there and fits into the buffer.
LEMMA ChunkFits ==
  ASSUME Typed, Fits, NEW n \in Chunk
  PROVE  n \in Nat /\ n <= Len(line) /\ receive_pos + n <= BufSize
<1>1. Len(line) \in Nat /\ receive_pos \in Nat /\ receive_pos <= BufSize /\ BufSize \in Nat
  BY ConstantsTyped DEF Typed, Fits
<1> QED
  BY <1>1 DEF Chunk

\* It goes behind what was received before.
LEMMA ReadKeeps ==
  ASSUME Typed, Fits, NEW n \in Chunk, ReadChunk(n)
  PROVE  /\ receive_buf' \in [0 .. BufSize - 1 -> Byte] /\ line' \in Seq(Byte)
         /\ \A i \in 1 .. Len(queue) : receive_buf'[i - 1] = receive_buf[i - 1]
         /\ SubSeq(line, 1, n) \in Seq(Byte) /\ Len(SubSeq(line, 1, n)) = n
         /\ \A i \in 1 .. n : receive_buf'[receive_pos + i - 1] = SubSeq(line, 1, n)[i]
<1>1. n \in Nat /\ n <= Len(line) /\ receive_pos + n <= BufSize
  BY ChunkFits
<1>2. /\ receive_buf' = [i \in 0 .. BufSize - 1 |->
                           IF i \in receive_pos .. receive_pos + n - 1
                           THEN line[i - receive_pos + 1] ELSE receive_buf[i]]
      /\ line' = SubSeq(line, n + 1, Len(line))
  BY DEF ReadChunk, Typed
<1>3. \A i \in 1 .. Len(line) : line[i] \in Byte
  BY DEF Typed
<1>4. receive_pos \in Nat /\ receive_pos = Len(queue) /\ Len(queue) <= BufSize /\ BufSize \in Nat
  BY ConstantsTyped DEF Typed, Fits
<1>5. receive_buf' \in [0 .. BufSize - 1 -> Byte]
  <2>1. \A i \in 0 .. BufSize - 1 :
          (IF i \in receive_pos .. receive_pos + n - 1 THEN line[i - receive_pos + 1] ELSE receive_buf[i]) \in Byte
    BY <1>1, <1>3, <1>4 DEF Typed
  <2> QED
    BY <1>2, <2>1
<1>6. line' \in Seq(Byte) /\ SubSeq(line, 1, n) \in Seq(Byte) /\ Len(SubSeq(line, 1, n)) = n
  BY <1>1, <1>2 DEF Typed
<1>7. \A i \in 1 .. Len(queue) : receive_buf'[i - 1] = receive_buf[i - 1]
  BY <1>1, <1>2, <1>4
<1>8. \A i \in 1 .. n : receive_buf'[receive_pos + i - 1] = SubSeq(line, 1, n)[i]
  <2> SUFFICES ASSUME NEW i \in 1 .. n PROVE receive_buf'[receive_pos + i - 1] = SubSeq(line, 1, n)[i]
    OBVIOUS
  <2>1. receive_pos + i - 1 \in 0 .. BufSize - 1 /\ receive_pos + i - 1 \in receive_pos .. receive_pos + n - 1
    BY <1>1, <1>4
  <2>2. receive_buf'[receive_pos + i - 1] = line[(receive_pos + i - 1) - receive_pos + 1]
    BY <1>2, <2>1
  <2>3. (receive_pos + i - 1) - receive_pos + 1 = i /\ SubSeq(line, 1, n)[i] = line[i]
    BY <1>1, <1>4 DEF Typed
  <2> QED
    BY <2>2, <2>3
<1> QED
  BY <1>5, <1>6, <1>7, <1>8

LEMMA ReadLinuxInv == ASSUME LinuxInv, NEW n \in Chunk, ReadAndFind(n) PROVE LinuxInv'
<1>0. main = "idle" /\ Typed /\ Fits /\ Whole
  BY DEF LinuxInv, ReadAndFind
<1>1. /\ receive_buf' \in [0 .. BufSize - 1 -> Byte] /\ line' \in Seq(Byte)
      /\ \A i \in 1 .. Len(queue) : receive_buf'[i - 1] = receive_buf[i - 1]
      /\ SubSeq(line, 1, n) \in Seq(Byte) /\ Len(SubSeq(line, 1, n)) = n
      /\ \A i \in 1 .. n : receive_buf'[receive_pos + i - 1] = SubSeq(line, 1, n)[i]
  BY <1>0, ReadKeeps DEF ReadAndFind
<1>2. n \in Nat /\ receive_pos + n <= BufSize
  BY <1>0, ChunkFits
<1>3. PICK chunk \in Seq(Byte) : chunk = SubSeq(line, 1, n)
  BY <1>1
<1>4. /\ received' = receive_pos /\ receive_pos' = receive_pos + n /\ queue' = queue \o chunk
      /\ rpos' = MsglenOf(receive_pos + n) /\ main' = "find"
      /\ UNCHANGED <<pop_count, copied>>
  BY <1>3 DEF ReadAndFind
<1>5. rpos' \in Nat
  <2>1. receive_pos + n \in Nat
    BY <1>0, <1>2 DEF Typed
  <2> QED
    BY <1>4, <2>1, ConstantsTyped DEF MsglenOf
<1>6. /\ queue' \in Seq(Byte) /\ Len(queue') = Len(queue) + n
      /\ \A i \in 1 .. Len(queue) : queue'[i] = queue[i]
      /\ \A i \in 1 .. n : queue'[Len(queue) + i] = chunk[i]
  BY <1>0, <1>1, <1>3, <1>4 DEF Typed
<1>7. Typed'
  BY <1>0, <1>1, <1>2, <1>4, <1>5, <1>6 DEF Typed
<1>8. Fits'
  BY <1>0, <1>2, <1>4, <1>6 DEF Fits
<1>9. Whole'
  <2> SUFFICES ASSUME NEW i \in 1 .. Len(queue')
               PROVE  receive_buf'[i - 1] = queue'[i] \/ (i = 1 /\ receive_buf'[0] = Zero)
    BY DEF Whole
  <2>0. Len(queue) \in Nat /\ receive_pos = Len(queue)
    BY <1>0 DEF Typed, Fits
  <2>1. CASE i <= Len(queue)
    <3>1. i \in 1 .. Len(queue) /\ queue'[i] = queue[i] /\ receive_buf'[i - 1] = receive_buf[i - 1]
      BY <2>0, <2>1, <1>1, <1>6
    <3>2. i = 1 => receive_buf'[0] = receive_buf[0]
      BY <3>1
    <3> QED
      BY <1>0, <3>1, <3>2 DEF Whole
  <2>2. CASE i > Len(queue)
    <3>1. PICK j \in 1 .. n : i = Len(queue) + j
      <4>1. i - Len(queue) \in 1 .. n
        BY <2>0, <2>2, <1>2, <1>6
      <4> QED
        BY <4>1, <2>0
    <3>2. receive_buf'[receive_pos + j - 1] = chunk[j]
      BY <1>1, <1>3
    <3> QED
      BY <3>1, <3>2, <2>0, <1>6
  <2> QED
    BY <2>0, <2>1, <2>2
<1>10. received' \in Nat /\ received' <= Len(queue')
  BY <1>0, <1>2, <1>4, <1>6 DEF Typed, Fits
<1> QED
  BY <1>4, <1>7, <1>8, <1>9, <1>10 DEF LinuxInv

\* The search of RxBuffer finds, runs or removes a block of what was read.
LEMMA FindLinuxInv == ASSUME LinuxInv, FindBlock PROVE LinuxInv'
<1>0. main \in {"find", "run"} /\ Typed /\ Fits /\ Whole /\ received \in Nat /\ received <= Len(queue)
  BY DEF LinuxInv, FindBlock, NeedMoreData, Accept, OutOfSequence, DropLeadingSync, DropDamaged, DropUnsynced,
         RunDone, HasBlock, InSync
<1>1. received' = received
  BY DEF FindBlock
<1>c. ASSUME NEW n \in Nat, n >= 1, pop_count' = n, main' = "clean", copied' = 0,
             receive_buf' \in [0 .. BufSize - 1 -> Byte],
             queue' \in Seq(Byte), Len(queue') = Len(queue),
             \A i \in 2 .. Len(queue) : receive_buf'[i - 1] = queue'[i],
             UNCHANGED <<receive_pos, line, rpos>>
      PROVE  LinuxInv'
  <2>1. Typed' /\ Fits'
    BY <1>0, <1>c DEF Typed, Fits
  <2>2. \A i \in Nat : i > n /\ i <= Len(queue') => receive_buf'[i - 1] = queue'[i]
    BY <1>0, <1>c DEF Typed
  <2> QED
    BY <1>0, <1>1, <1>c, <2>1, <2>2 DEF LinuxInv
<1>2. CASE NeedMoreData
  <2>1. main' = "idle" /\ UNCHANGED <<receive_buf, receive_pos, queue, line, rpos, pop_count, copied>>
    BY <1>2 DEF NeedMoreData, bufVars, hostVars
  <2>2. Typed' /\ Fits' /\ Whole'
    BY <1>0, <2>1 DEF Typed, Fits, Whole
  <2> QED
    BY <1>0, <1>1, <2>1, <2>2 DEF LinuxInv
<1>3. CASE Accept
  <2>1. msglen \in Nat /\ msglen >= 1
    BY <1>0, <1>3, MsglenTyped DEF Accept, HasBlock, Typed
  <2>2. /\ receive_buf' = [receive_buf EXCEPT ![0] = Zero]
        /\ pop_count' = msglen /\ main' = "run"
        /\ UNCHANGED <<receive_pos, queue, line, rpos, copied>>
    BY <1>3 DEF Accept, hostVars
  <2>3. /\ receive_buf' \in [0 .. BufSize - 1 -> Byte]
        /\ \A i \in 2 .. Len(queue) : receive_buf'[i - 1] = queue[i]
    BY <1>0, <2>2, SearchKeeps
  <2>4. Typed' /\ Fits'
    BY <1>0, <2>1, <2>2, <2>3 DEF Typed, Fits
  <2>5. Whole'
    <3> SUFFICES ASSUME NEW i \in 1 .. Len(queue)
                 PROVE  receive_buf'[i - 1] = queue[i] \/ (i = 1 /\ receive_buf'[0] = Zero)
      BY <2>2 DEF Whole
    <3>1. CASE i = 1
      <4>1. 0 \in 0 .. BufSize - 1
        BY <1>0, <3>1, ConstantsTyped DEF Fits, Typed
      <4> QED
        BY <1>0, <2>2, <3>1, <4>1 DEF Typed
    <3>2. CASE i # 1
      BY <2>3, <3>2
    <3> QED
      BY <3>1, <3>2
  <2> QED
    BY <1>0, <1>1, <2>1, <2>2, <2>4, <2>5 DEF LinuxInv
<1>4. CASE OutOfSequence
  <2>1. msglen \in Nat /\ msglen >= 1
    BY <1>0, <1>4, MsglenTyped DEF OutOfSequence, HasBlock, Typed
  <2>2. /\ receive_buf' = [receive_buf EXCEPT ![0] = Zero]
        /\ pop_count' = msglen /\ main' = "clean" /\ copied' = 0
        /\ UNCHANGED <<receive_pos, queue, line, rpos>>
    BY <1>4 DEF OutOfSequence, hostVars
  <2>3. /\ receive_buf' \in [0 .. BufSize - 1 -> Byte]
        /\ \A i \in 2 .. Len(queue) : receive_buf'[i - 1] = queue[i]
    BY <1>0, <2>2, SearchKeeps
  <2>4. queue' \in Seq(Byte)
    BY <1>0, <2>2 DEF Typed
  <2> QED
    BY <2>1, <2>2, <2>3, <2>4, <1>c
<1>5. CASE DropLeadingSync
  <2>1. pop_count' = 1 /\ main' = "clean" /\ copied' = 0 /\ UNCHANGED <<receive_pos, line, rpos>>
    BY <1>5 DEF DropLeadingSync, hostVars
  <2>2. PICK D \in DecodeWrites : Decode(D)
    BY <1>5 DEF DropLeadingSync
  <2>3. /\ receive_buf' \in [0 .. BufSize - 1 -> Byte]
        /\ queue' \in Seq(Byte) /\ Len(queue') = Len(queue)
        /\ \A i \in 2 .. Len(queue) : receive_buf'[i - 1] = queue'[i]
    BY <1>0, <2>2, DecodeKeeps
  <2> QED
    BY <2>1, <2>3, <1>c
<1>6. CASE DropDamaged
  <2>1. Discard(FirstSync(receive_buf', rpos)) /\ rpos \in Nat /\ rpos >= 1
    BY <1>0, <1>6, ConstantsTyped DEF DropDamaged, HasBlock, Typed
  <2>2. PICK D \in DecodeWrites : Decode(D)
    BY <1>6 DEF DropDamaged
  <2>3. /\ receive_buf' \in [0 .. BufSize - 1 -> Byte]
        /\ queue' \in Seq(Byte) /\ Len(queue') = Len(queue)
        /\ \A i \in 2 .. Len(queue) : receive_buf'[i - 1] = queue'[i]
    BY <1>0, <2>2, DecodeKeeps
  <2>4. PICK n \in Nat : n >= 1 /\ pop_count' = n
    BY <2>1, DiscardsSome
  <2>5. main' = "clean" /\ copied' = 0 /\ UNCHANGED <<receive_pos, line, rpos>>
    BY <2>1 DEF Discard, hostVars
  <2> QED
    BY <2>3, <2>4, <2>5, <1>c
<1>7. CASE DropUnsynced
  <2>1. /\ Discard(FirstSync(receive_buf, rpos)) /\ rpos \in Nat /\ rpos >= 1
        /\ UNCHANGED <<receive_buf, queue>>
    BY <1>0, <1>7 DEF DropUnsynced, Typed
  <2>2. /\ receive_buf' \in [0 .. BufSize - 1 -> Byte]
        /\ \A i \in 2 .. Len(queue) : receive_buf'[i - 1] = queue[i]
    BY <1>0, <2>1, SearchKeeps
  <2>3. PICK n \in Nat : n >= 1 /\ pop_count' = n
    BY <2>1, DiscardsSome
  <2>4. main' = "clean" /\ copied' = 0 /\ UNCHANGED <<receive_pos, line, rpos>>
    BY <2>1 DEF Discard, hostVars
  <2>5. queue' \in Seq(Byte) /\ Len(queue') = Len(queue)
    BY <1>0, <2>1 DEF Typed
  <2> QED
    BY <2>1, <2>2, <2>3, <2>4, <2>5, <1>c
<1>8. CASE RunDone
  <2>1. main' = "clean" /\ copied' = 0 /\ UNCHANGED <<receive_buf, receive_pos, queue, line, rpos, pop_count>>
    BY <1>8 DEF RunDone, bufVars, hostVars
  <2>2. pop_count \in Nat /\ pop_count >= 1
    BY <1>8 DEF RunDone, LinuxInv, Typed
  <2>3. /\ receive_buf' \in [0 .. BufSize - 1 -> Byte]
        /\ \A i \in 2 .. Len(queue) : receive_buf'[i - 1] = queue[i]
    BY <1>0, <2>1, SearchKeeps
  <2>4. queue' \in Seq(Byte) /\ Len(queue') = Len(queue)
    BY <1>0, <2>1 DEF Typed
  <2> QED
    BY <2>1, <2>2, <2>3, <2>4, <1>c
<1> QED
  BY <1>2, <1>3, <1>4, <1>5, <1>6, <1>7, <1>8 DEF FindBlock

\* A shutdown by a command forgets what was read last and nothing else.
LEMMA ShutdownLinuxInv == ASSUME LinuxInv, CommandShutdown PROVE LinuxInv'
<1>0. main = "run" /\ Typed /\ Fits /\ Whole /\ received \in Nat /\ received <= Len(queue)
  BY DEF LinuxInv, CommandShutdown
<1>1. /\ main' = "idle" /\ receive_pos' = received /\ queue' = SubSeq(queue, 1, received)
      /\ UNCHANGED <<receive_buf, line, rpos, pop_count, copied, received>>
  BY DEF CommandShutdown, hostVars
<1>2. /\ queue' \in Seq(Byte) /\ Len(queue') = received
      /\ \A i \in 1 .. received : queue'[i] = queue[i]
  BY <1>0, <1>1 DEF Typed
<1>3. Typed'
  BY <1>0, <1>1, <1>2 DEF Typed
<1>4. Fits'
  BY <1>0, <1>1, <1>2, ConstantsTyped DEF Fits, Typed
<1>5. Whole'
  BY <1>0, <1>1, <1>2 DEF Whole, Typed
<1> QED
  BY <1>0, <1>1, <1>3, <1>4, <1>5 DEF LinuxInv

\* What is behind the block moves to the front.
LEMMA RemoveLinuxInv == ASSUME LinuxInv, RemoveBlock PROVE LinuxInv'
<1>0. /\ main = "clean" /\ Typed /\ Fits /\ received \in Nat /\ pop_count >= 1
      /\ \A i \in Nat : i > pop_count /\ i <= Len(queue) => receive_buf[i - 1] = queue[i]
  BY DEF LinuxInv, RemoveBlock
<1>1. PICK n \in Nat : n = left
  BY <1>0 DEF RemoveBlock, left, Typed
<1>2. /\ receive_buf' = [i \in 0 .. BufSize - 1 |-> IF i < n THEN receive_buf[i + pop_count] ELSE receive_buf[i]]
      /\ receive_pos' = n /\ queue' = SubSeq(queue, pop_count + 1, Len(queue)) /\ main' = "idle"
      /\ UNCHANGED <<line, rpos, pop_count, copied, received>>
  BY <1>0, <1>1 DEF RemoveBlock, Typed, hostVars
<1>3. /\ pop_count \in Nat /\ Len(queue) \in Nat /\ n + pop_count = Len(queue)
      /\ Len(queue) <= BufSize /\ BufSize \in Nat
  BY <1>0, <1>1, ConstantsTyped DEF left, Typed, Fits
<1>4. /\ queue' \in Seq(Byte) /\ Len(queue') = n
      /\ \A i \in 1 .. n : queue'[i] = queue[pop_count + i]
  <2>1. queue \in Seq(Byte) /\ pop_count + n = Len(queue)
    BY <1>0, <1>3 DEF Typed
  <2> QED
    BY <1>2, <1>3, <2>1, RestTyped
<1>5. receive_buf' \in [0 .. BufSize - 1 -> Byte]
  <2>1. \A i \in 0 .. BufSize - 1 : (IF i < n THEN receive_buf[i + pop_count] ELSE receive_buf[i]) \in Byte
    BY <1>0, <1>3 DEF Typed
  <2> QED
    BY <1>2, <2>1
<1>6. Typed' /\ Fits'
  BY <1>0, <1>2, <1>3, <1>4, <1>5 DEF Typed, Fits
<1>7. Whole'
  <2> SUFFICES ASSUME NEW i \in 1 .. n PROVE receive_buf'[i - 1] = queue'[i]
    BY <1>4 DEF Whole
  <2>1. receive_buf'[i - 1] = receive_buf[(i - 1) + pop_count]
    BY <1>2, <1>3
  <2>2. receive_buf[(pop_count + i) - 1] = queue[pop_count + i]
    BY <1>0, <1>3
  <2> QED
    BY <2>1, <2>2, <1>3, <1>4
<1> QED
  BY <1>0, <1>2, <1>6, <1>7 DEF LinuxInv

LEMMA StepLinuxInv == LinuxInv /\ [NextLinux]_linuxVars => LinuxInv'
<1> SUFFICES ASSUME LinuxInv, [NextLinux]_linuxVars PROVE LinuxInv'
  OBVIOUS
<1>1. CASE UNCHANGED linuxVars
  BY <1>1 DEF linuxVars, rxVars, bufVars, hostVars, LinuxInv, Typed, Fits, Whole
<1>2. CASE NextLinux /\ main = "spoilt"
  <2>1. main' = "spoilt"
    BY <1>2 DEF NextLinux, HostWrite, HostText, console_sleep, ReadFails, ReadLinux, ReadAndFind, ForceShutdown,
         TaskLinux, FindBlock, CommandShutdown, RemoveBlock, RemoveTooMuch, SpoiltLinux, linuxVars, rxVars,
         NeedMoreData, Accept, OutOfSequence, DropLeadingSync, DropDamaged, DropUnsynced, RunDone, HasBlock, InSync
  <2> QED
    BY <2>1 DEF LinuxInv
<1>3. CASE NextLinux /\ main # "spoilt"
  <2>0. Typed /\ main # "spoilt"
    BY <1>3 DEF LinuxInv
  <2>1. ASSUME NEW s \in Sequence, HostWrite(s) PROVE LinuxInv'
    <3>1. /\ line' \in Seq(Byte)
          /\ UNCHANGED <<receive_buf, receive_pos, queue, main, rpos, pop_count, copied, received>>
      BY <2>0, <2>1, FrameTyped DEF HostWrite, bufVars, Typed
    <3> QED
      BY <2>0, <3>1 DEF LinuxInv, Typed, Fits, Whole
  <2>2. CASE HostText
    <3>1. /\ line' \in Seq(Byte)
          /\ UNCHANGED <<receive_buf, receive_pos, queue, main, rpos, pop_count, copied, received>>
      BY <2>0, <2>2 DEF HostText, bufVars, Typed, Byte
    <3> QED
      BY <2>0, <3>1 DEF LinuxInv, Typed, Fits, Whole
  <2>3. CASE console_sleep \/ ReadFails
    <3>1. UNCHANGED <<receive_buf, receive_pos, queue, line, main, rpos, pop_count, copied, received>>
      BY <2>3 DEF console_sleep, ReadFails, rxVars, bufVars, hostVars
    <3> QED
      BY <2>0, <3>1 DEF LinuxInv, Typed, Fits, Whole
  <2>4. ASSUME NEW n \in Chunk, ReadAndFind(n) PROVE LinuxInv'
    BY <2>4, ReadLinuxInv
  <2>5. ASSUME NEW n \in Chunk, ForceShutdown(n) PROVE LinuxInv'
    <3>0. main = "idle" /\ Typed /\ Fits /\ Whole /\ received \in Nat
      BY <2>0, <2>5 DEF LinuxInv, ForceShutdown
    <3>1. /\ receive_buf' \in [0 .. BufSize - 1 -> Byte] /\ line' \in Seq(Byte)
          /\ \A i \in 1 .. Len(queue) : receive_buf'[i - 1] = receive_buf[i - 1]
      BY <3>0, <2>5, ReadKeeps DEF ForceShutdown
    <3>2. UNCHANGED <<receive_pos, queue, main, rpos, pop_count, copied, received>>
      BY <2>5 DEF ForceShutdown
    <3>3. Typed' /\ Fits'
      BY <3>0, <3>1, <3>2 DEF Typed, Fits
    <3>4. Whole'
      <4> SUFFICES ASSUME NEW i \in 1 .. Len(queue)
                   PROVE  receive_buf'[i - 1] = queue[i] \/ (i = 1 /\ receive_buf'[0] = Zero)
        BY <3>2 DEF Whole
      <4>1. receive_buf'[i - 1] = receive_buf[i - 1] /\ (i = 1 => receive_buf'[0] = receive_buf[0])
        BY <3>1
      <4> QED
        BY <3>0, <4>1 DEF Whole
    <3> QED
      BY <3>0, <3>2, <3>3, <3>4 DEF LinuxInv
  <2>6. CASE RemoveTooMuch
    BY <2>6 DEF RemoveTooMuch, LinuxInv
  <2> QED
    BY <1>3, <2>1, <2>2, <2>3, <2>4, <2>5, <2>6, FindLinuxInv, ShutdownLinuxInv, RemoveLinuxInv
    DEF NextLinux, ReadLinux, TaskLinux, SpoiltLinux
<1> QED
  BY <1>1, <1>2, <1>3

\* The console of the Linux build keeps what it reads in a queue, however its reads
\* come in parts, fail or are cut off by a shutdown, for any size of the buffer.
THEOREM LinuxKeepsBytes == InitLinux /\ [][NextLinux]_linuxVars => []BufferIsQueue
<1>1. InitLinux => LinuxInv
  BY InitLinuxInv
<1>2. LinuxInv /\ [NextLinux]_linuxVars => LinuxInv'
  BY StepLinuxInv
<1>3. LinuxInv => BufferIsQueue
  BY DEF LinuxInv, BufferIsQueue, InClean, Whole, Fits
<1> QED
  BY <1>1, <1>2, <1>3, PTL
=============================================================================
