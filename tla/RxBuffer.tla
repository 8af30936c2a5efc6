------------------------------ MODULE RxBuffer ------------------------------
(***************************************************************************)
(* How the firmware receives messages (src/hal/common/rxtx_irq.c, with the *)
(* AVR's task_console_rx): the serial interrupt appends bytes to           *)
(* receive_buf, the main thread looks for a block in it, runs its commands *)
(* in place, and moves what follows to the front, racing the interrupt.    *)
(*                                                                         *)
(* A block is the bytes up to and including a MSG_SYNC.  The COBS code,    *)
(* the destination and the CRC of a block are abstracted to one question:  *)
(* is it exactly a frame the host built?  Each byte of a frame but the     *)
(* last is represented by the frame's sequence number.                     *)
(***************************************************************************)
EXTENDS Integers, Sequences

CONSTANTS
  PosRange,       \* 256: receive_pos, rpos and needcopy are uint8_t
  BufSize,        \* MSG_RX_BUFFER_SIZE
  MsgMin, MsgMax, \* MSG_MIN, MSG_MAX
  SeqRange,       \* MSG_SEQ_MASK + 1
  ReceiveWindow,  \* bytes in the buffer at which the host stops sending
  MaxNoise        \* bound: bytes damaged or lost, and shutdowns by an interrupt

ASSUME RxAssumption ==
  /\ PosRange \in Nat \ {0} /\ BufSize \in Nat /\ PosRange <= BufSize
  /\ MsgMin \in Nat \ {0} /\ MsgMax \in Nat
  /\ SeqRange \in Nat \ {0} /\ ReceiveWindow \in Nat /\ MaxNoise \in Nat

MSG_SYNC == -1
Zero == -2 \* the byte the code writes over a COBS code
Noise == -3

Sequence == 0 .. (SeqRange - 1)
NextOf(s) == IF s + 1 = SeqRange THEN 0 ELSE s + 1
Byte == Sequence \cup {MSG_SYNC, Zero, Noise}

\* Frames of two lengths, so that what follows one can be misread
FrameLen(s) == IF s = 0 THEN MsgMin ELSE MsgMin + 1
Frame(s) == [i \in 1 .. FrameLen(s) |-> IF i = FrameLen(s) THEN MSG_SYNC ELSE s]

VARIABLES
  receive_buf, receive_pos,
  next_sequence,
  need_sync, need_valid,   \* the two flags of sync_state
  main,                    \* where the main thread is
  rpos, pop_count, copied, \* its local variables
  line,                    \* the bytes of a frame still on the line
  noise,                   \* how many more such faults there may be
  queue                    \* history: bytes stored and not yet removed

syncVars == <<need_sync, need_valid>>
bufVars == <<receive_buf, receive_pos, queue>>
hostVars == <<line, noise>>
rxVars == <<bufVars, hostVars, next_sequence, syncVars, main, rpos, pop_count, copied>>

InitRx ==
  /\ receive_buf = [i \in 0 .. BufSize - 1 |-> Zero] /\ receive_pos = 0
  /\ next_sequence = 0 /\ need_sync = FALSE /\ need_valid = FALSE
  /\ main = "idle" /\ rpos = 0 /\ pop_count = 0 /\ copied = 0
  /\ line = <<>> /\ noise = MaxNoise
  /\ queue = <<>>

-----------------------------------------------------------------------------
(* The line and the serial interrupt *)

\* The host sends a frame: a new one, one again, or one out of sequence.
HostSend(s) ==
  /\ line = <<>> /\ Len(queue) < ReceiveWindow
  /\ line' = Frame(s)
  /\ UNCHANGED <<bufVars, noise, next_sequence, syncVars, main, rpos, pop_count, copied>>

LoseByte ==
  /\ line # <<>> /\ noise > 0
  /\ line' = Tail(line) /\ noise' = noise - 1
  /\ UNCHANGED <<bufVars, next_sequence, syncVars, main, rpos, pop_count, copied>>

\* rx_buffer_add.  The history forgets the queue when receive_pos rolls over.
rx_buffer_add(b) ==
  IF receive_pos >= BufSize
  THEN UNCHANGED bufVars
  ELSE /\ receive_buf' = [receive_buf EXCEPT ![receive_pos] = b]
       /\ receive_pos' = IF receive_pos + 1 = PosRange THEN 0 ELSE receive_pos + 1
       /\ queue' = IF receive_pos' = 0 THEN <<>> ELSE Append(queue, b)

ReceiveByte ==
  /\ line # <<>>
  /\ \/ rx_buffer_add(Head(line)) /\ UNCHANGED noise
     \/ noise > 0 /\ rx_buffer_add(Noise) /\ noise' = noise - 1
  /\ line' = Tail(line)
  /\ UNCHANGED <<next_sequence, syncVars, main, rpos, pop_count, copied>>

-----------------------------------------------------------------------------
(* rx_find_block *)

\* task_console_rx starts with the bytes received so far.
ReadPos ==
  /\ main = "idle"
  /\ rpos' = receive_pos
  /\ main' = "find"
  /\ UNCHANGED <<bufVars, hostVars, next_sequence, syncVars, pop_count, copied>>

\* The first MSG_SYNC of n bytes: a set of one position or none
FirstSync(buf, n) ==
  {i \in 0 .. n - 1 : buf[i] = MSG_SYNC /\ \A j \in 0 .. i - 1 : buf[j] # MSG_SYNC}

\* The search includes the byte at buf_len.
SyncFound == FirstSync(receive_buf, rpos + 1) # {}
msglen == (CHOOSE i \in FirstSync(receive_buf, rpos + 1) : TRUE) + 1

Block == [i \in 1 .. msglen |-> receive_buf[i - 1]]
IsFrame(s) == Block = Frame(s)

\* A block that ran before a shutdown, its COBS code zeroed, may pass again.
RanBefore(s) == Block = [Frame(s) EXCEPT ![1] = Zero]

InSync == main = "find" /\ ~(need_sync /\ rpos > 0)
HasBlock == InSync /\ rpos >= MsgMin /\ SyncFound

NeedMoreData ==
  /\ InSync /\ (rpos < MsgMin \/ ~SyncFound)
  /\ main' = "idle"
  /\ UNCHANGED <<bufVars, hostVars, next_sequence, syncVars, rpos, pop_count, copied>>

\* Mutant: the sequence number is not masked
AcceptNoMask ==
  /\ HasBlock /\ IsFrame(next_sequence)
  /\ receive_buf' = [receive_buf EXCEPT ![0] = Zero]
  /\ need_valid' = FALSE
  /\ next_sequence' = next_sequence + 1
  /\ pop_count' = msglen
  /\ main' = "run"
  /\ UNCHANGED <<receive_pos, queue, hostVars, need_sync, rpos, copied>>

\* The block is the frame expected: its commands run next.
Accept ==
  /\ HasBlock /\ IsFrame(next_sequence)
  /\ receive_buf' = [receive_buf EXCEPT ![0] = Zero]
  /\ need_valid' = FALSE
  /\ next_sequence' = NextOf(next_sequence)
  /\ pop_count' = msglen
  /\ main' = "run"
  /\ UNCHANGED <<receive_pos, queue, hostVars, need_sync, rpos, copied>>

\* Lost message - discard messages until it is retransmitted
OutOfSequence ==
  /\ HasBlock
  /\ \E s \in Sequence : (IsFrame(s) /\ s # next_sequence) \/ RanBefore(s)
  /\ receive_buf' = [receive_buf EXCEPT ![0] = Zero]
  /\ need_valid' = FALSE
  /\ pop_count' = msglen
  /\ main' = "clean" /\ copied' = 0
  /\ UNCHANGED <<receive_pos, queue, hostVars, need_sync, next_sequence, rpos>>

\* error: the block is too short, too long or damaged.
Damaged ==
  \/ msglen < MsgMin \/ msglen > MsgMax
  \/ \A s \in Sequence : ~IsFrame(s)

\* Decoding it in place may have written MSG_SYNC over any byte of it.
DecodeWrites == IF msglen \in MsgMin .. MsgMax THEN SUBSET (0 .. msglen - 1) ELSE {{}}
Decode(D) ==
  /\ receive_buf' = [i \in DOMAIN receive_buf |-> IF i \in D THEN MSG_SYNC ELSE receive_buf[i]]
  /\ queue' = [i \in 1 .. Len(queue) |-> IF i - 1 \in D THEN MSG_SYNC ELSE queue[i]]

\* A leading MSG_SYNC is dropped alone.
DropLeadingSync ==
  /\ HasBlock /\ Damaged
  /\ \E D \in DecodeWrites : Decode(D)
  /\ receive_buf'[0] = MSG_SYNC
  /\ pop_count' = 1
  /\ main' = "clean" /\ copied' = 0
  /\ UNCHANGED <<receive_pos, hostVars, next_sequence, syncVars, rpos>>

\* Mutant: CF_NEED_SYNC is never cleared
DiscardNeverSynced(found) ==
  /\ pop_count' = IF found = {} THEN rpos ELSE (CHOOSE i \in found : TRUE) + 1
  /\ need_sync' = TRUE /\ need_valid' = TRUE
  /\ main' = "clean" /\ copied' = 0
  /\ UNCHANGED <<receive_pos, hostVars, next_sequence, rpos>>

\* need_sync: discard bytes until the next MSG_SYNC, and go on until one is found
Discard(found) ==
  /\ pop_count' = IF found = {} THEN rpos ELSE (CHOOSE i \in found : TRUE) + 1
  /\ need_sync' = (found = {}) /\ need_valid' = TRUE
  /\ main' = "clean" /\ copied' = 0
  /\ UNCHANGED <<receive_pos, hostVars, next_sequence, rpos>>

DropDamaged ==
  /\ HasBlock /\ Damaged
  /\ \E D \in DecodeWrites : Decode(D)
  /\ receive_buf'[0] # MSG_SYNC
  /\ Discard(FirstSync(receive_buf', rpos))

DropUnsynced ==
  /\ main = "find" /\ need_sync /\ rpos > 0
  /\ Discard(FirstSync(receive_buf, rpos))
  /\ UNCHANGED <<receive_buf, queue>>

-----------------------------------------------------------------------------
(* rx_run_cmds and rx_buffer_clean *)

RunDone ==
  /\ main = "run"
  /\ main' = "clean" /\ copied' = 0
  /\ UNCHANGED <<bufVars, hostVars, next_sequence, syncVars, rpos, pop_count>>

\* A command shuts down: the longjmp leaves the block in the buffer.
RunStops ==
  /\ main = "run"
  /\ main' = "idle"
  /\ UNCHANGED <<bufVars, hostVars, next_sequence, syncVars, rpos, pop_count, copied>>

CleanRead ==
  /\ main = "clean"
  /\ rpos' = receive_pos
  /\ main' = "move"
  /\ UNCHANGED <<bufVars, hostVars, next_sequence, syncVars, pop_count, copied>>

needcopy == rpos - pop_count

\* memmove of the bytes that were not moved yet; the interrupt only writes
\* behind them.
MoveBytes ==
  /\ main = "move" /\ (copied <= needcopy \/ needcopy = 0)
  /\ receive_buf' = [i \in DOMAIN receive_buf |->
                       IF i \in copied .. needcopy - 1 THEN receive_buf[i + pop_count] ELSE receive_buf[i]]
  /\ copied' = IF needcopy > 0 THEN needcopy ELSE copied
  /\ main' = "commit"
  /\ UNCHANGED <<receive_pos, queue, hostVars, next_sequence, syncVars, rpos, pop_count>>

\* More is to be removed than there is: needcopy rolls over, and the buffer is
\* then said to hold bytes that were never received, or a retry moves a
\* negative number of bytes.  Nothing is claimed from here on.
MoveTooMany ==
  /\ main = "move" /\ needcopy # 0 /\ copied > needcopy
  /\ main' = "spoilt"
  /\ UNCHANGED <<bufVars, hostVars, next_sequence, syncVars, rpos, pop_count, copied>>

\* Raced with irq handler - retry
CleanRetry ==
  /\ main = "commit" /\ rpos # receive_pos
  /\ main' = "clean"
  /\ UNCHANGED <<bufVars, hostVars, next_sequence, syncVars, rpos, pop_count, copied>>

\* Mutant: no test for a byte that came in between
CommitAnyway ==
  /\ main = "commit"
  /\ receive_pos' = needcopy
  /\ queue' = SubSeq(queue, pop_count + 1, Len(queue))
  /\ main' = "idle"
  /\ UNCHANGED <<receive_buf, hostVars, next_sequence, syncVars, rpos, pop_count, copied>>

CleanCommit ==
  /\ main = "commit" /\ rpos = receive_pos
  /\ receive_pos' = needcopy
  /\ queue' = SubSeq(queue, pop_count + 1, Len(queue))
  /\ main' = "idle"
  /\ UNCHANGED <<receive_buf, hostVars, next_sequence, syncVars, rpos, pop_count, copied>>

Spoilt == main = "spoilt" /\ UNCHANGED rxVars

-----------------------------------------------------------------------------
(* sched_shutdown in an interrupt - a timer that is late, an analog reading *)
(* out of range - leaves the main thread at any step of the task: its local *)
(* variables are lost, what it wrote so far stays.                          *)

MainStops ==
  /\ noise > 0 /\ noise' = noise - 1
  /\ main' = "idle"
  /\ UNCHANGED <<receive_pos, line, next_sequence, rpos, pop_count, copied>>

\* The block was decoded in part, its COBS code perhaps zeroed already.
DecodeStops ==
  /\ HasBlock
  /\ \E D \in DecodeWrites :
       LET decoded == [i \in DOMAIN receive_buf |-> IF i \in D THEN MSG_SYNC ELSE receive_buf[i]]
       IN  /\ receive_buf' \in {decoded, [decoded EXCEPT ![0] = Zero]}
           /\ queue' = [i \in 1 .. Len(queue) |-> IF i - 1 \in D THEN MSG_SYNC ELSE queue[i]]

\* A search that came to its end and stops there is one that stops at "run" or
\* "clean".
SearchStops ==
  /\ main = "find" /\ MainStops
  /\ DecodeStops \/ UNCHANGED <<receive_buf, queue>>
  /\ need_sync' \in {need_sync, need_sync \/ (HasBlock /\ Damaged)}
  /\ need_valid' \in {need_valid, need_valid /\ ~(HasBlock /\ ~Damaged)}

BlockStops ==
  /\ main = "run" /\ MainStops
  /\ UNCHANGED <<receive_buf, queue, syncVars>>

\* Of the bytes behind the block k were moved to the front, and receive_pos
\* still counts all there were: the buffer holds those k twice.
Torn(k) == [i \in 1 .. Len(queue) |-> IF i <= k THEN queue[i + pop_count] ELSE queue[i]]

CleanStops ==
  /\ main \in {"clean", "move", "commit"} /\ MainStops
  /\ \E k \in copied .. (IF main = "move" /\ needcopy > copied THEN needcopy ELSE copied) :
       /\ receive_buf' = [i \in DOMAIN receive_buf |->
                            IF i \in copied .. k - 1 THEN receive_buf[i + pop_count] ELSE receive_buf[i]]
       /\ queue' = Torn(k)
  /\ UNCHANGED syncVars

IrqStops == SearchStops \/ BlockStops \/ CleanStops

MainRx == \/ ReadPos \/ NeedMoreData \/ Accept \/ OutOfSequence
          \/ DropLeadingSync \/ DropDamaged \/ DropUnsynced
          \/ RunDone \/ RunStops
          \/ CleanRead \/ MoveBytes \/ MoveTooMany \/ CleanRetry \/ CleanCommit

IrqRx == main # "spoilt" /\ ReceiveByte

NextRx == (\E s \in Sequence : HostSend(s)) \/ LoseByte \/ IrqRx \/ MainRx \/ IrqStops \/ Spoilt

\* The main loop comes back to the task, the line delivers, and the host sends
\* the frame it got no answer for again.
FairnessRx ==
  WF_rxVars(MainRx) /\ WF_rxVars(IrqRx) /\ SF_rxVars(HostSend(next_sequence))

SafeRx == InitRx /\ [][NextRx]_rxVars
SpecRx == SafeRx /\ FairnessRx
-----------------------------------------------------------------------------
TypeOKRx ==
  /\ receive_buf \in [0 .. BufSize - 1 -> Byte] /\ receive_pos \in 0 .. PosRange - 1
  /\ next_sequence \in Sequence /\ need_sync \in BOOLEAN /\ need_valid \in BOOLEAN
  /\ main \in {"idle", "find", "run", "clean", "move", "commit", "spoilt"}
  /\ rpos \in 0 .. PosRange - 1 /\ pop_count \in 0 .. PosRange /\ copied \in 0 .. PosRange - 1
  /\ line \in Seq(Byte) /\ noise \in 0 .. MaxNoise
  /\ queue \in Seq(Byte)

InClean == main \in {"move", "commit", "clean"}

\* The buffer is a queue: what the main thread sees in it are the bytes that
\* were stored and not removed, in order, whatever interrupts came while
\* rx_buffer_clean moved them; only the COBS code of a block may be zeroed.  An
\* interrupt that shuts down within rx_buffer_clean removes nothing, and leaves
\* the bytes moved so far a second time over the first ones (Torn): no other byte
\* is changed, and none that the interrupt added is lost.
BufferIsQueue ==
  ~InClean /\ main # "spoilt" =>
    /\ receive_pos = Len(queue)
    /\ \A i \in 1 .. Len(queue) : receive_buf[i - 1] = queue[i] \/ (i = 1 /\ receive_buf[0] = Zero)

\* Commands run only from a frame that was received to its end.
RunsOnlyReceived == main = "run" => pop_count <= receive_pos

\* After noise the receiver finds the frames again: as long as the host sends
\* the expected frame again, it is accepted.
Resynchronises == []<>(main = "run") \/ <>(main = "spoilt")
=============================================================================
