------------------------------ MODULE TxBuffer ------------------------------
(***************************************************************************)
(* How the firmware sends a response (src/hal/common/rxtx_irq.c, with the  *)
(* AVR's serial.c and send_response of sched.c): the main thread appends a *)
(* message to transmit_buf, the serial interrupt takes it out byte by      *)
(* byte, and a shutdown may cut the main thread short at any step.         *)
(*                                                                         *)
(* The branch of tx_buffer_alloc that moves the buffer is left out:        *)
(* CompactionIsDead says why it is never taken.  The message bytes are     *)
(* represented by a label of the message they belong to.                   *)
(***************************************************************************)
EXTENDS Integers, Sequences

CONSTANTS
  PosRange,    \* 256: transmit_pos, transmit_max, tpos and tmax are uint8_t
  BufSize,     \* MSG_TX_BUFFER_SIZE
  Lengths,     \* the lengths of the messages sent, with header and trailer
  Paced        \* is a response only sent while the counters cannot roll over?

ASSUME TxAssumption ==
  /\ PosRange \in Nat \ {0} /\ BufSize \in Nat /\ Lengths \subseteq Nat \ {0}
  /\ Paced \in BOOLEAN

\* tmax + msglen > sizeof(transmit_buf) is false for every 8 bit tmax.
ASSUME CompactionIsDead == \A len \in Lengths : PosRange - 1 + len <= BufSize

VARIABLES
  transmit_buf, transmit_pos, transmit_max, in_tx,
  udrie,               \* is the transmit interrupt enabled (UCSRxB)?
  tx,                  \* where the main thread is in send_response
  tpos, tmax, msglen,  \* its local variables
  pending              \* history: labels of the bytes queued and not yet sent

localVars == <<tpos, tmax, msglen>>
txVars == <<transmit_buf, transmit_pos, transmit_max, in_tx, udrie, tx, localVars, pending>>

Label == {"a", "b"}
NoByte == "none"

InitTx ==
  /\ transmit_buf = [i \in 0 .. BufSize - 1 |-> NoByte]
  /\ transmit_pos = 0 /\ transmit_max = 0 /\ in_tx = 0
  /\ udrie = TRUE
  /\ tx = "idle" /\ tpos = 0 /\ tmax = 0 /\ msglen = 0
  /\ pending = <<>>

-----------------------------------------------------------------------------
(* tx_buffer_alloc.  The interrupt may come between any two of these steps. *)

\* Mutant: one byte too many is reserved
GuardOneMore(len) ==
  /\ tx = "idle" /\ in_tx = 0
  /\ Paced => transmit_pos >= transmit_max \/ transmit_max + len + 1 < PosRange
  /\ in_tx' = 1
  /\ msglen' = len + 1
  /\ tx' = "position"
  /\ UNCHANGED <<transmit_buf, transmit_pos, transmit_max, udrie, tpos, tmax, pending>>

Guard(len) ==
  /\ tx = "idle" /\ in_tx = 0
  /\ Paced => transmit_pos >= transmit_max \/ transmit_max + len < PosRange
  /\ in_tx' = 1
  /\ msglen' = len
  /\ tx' = "position"
  /\ UNCHANGED <<transmit_buf, transmit_pos, transmit_max, udrie, tpos, tmax, pending>>

ReadPosition ==
  /\ tx = "position"
  /\ tpos' = transmit_pos
  /\ tx' = "maximum"
  /\ UNCHANGED <<transmit_buf, transmit_pos, transmit_max, in_tx, udrie, tmax, msglen, pending>>

ReadMaximum ==
  /\ tx = "maximum"
  /\ tmax' = transmit_max
  /\ tx' = "space"
  /\ UNCHANGED <<transmit_buf, transmit_pos, transmit_max, in_tx, udrie, tpos, msglen, pending>>

\* Mutant: the position is reset before the maximum
RewindPositionFirst ==
  /\ tx = "space" /\ tpos >= tmax
  /\ tpos' = 0 /\ tmax' = 0
  /\ transmit_pos' = 0
  /\ tx' = "rewind"
  /\ UNCHANGED <<transmit_buf, transmit_max, in_tx, udrie, msglen, pending>>

\* Everything was sent: start again at the front, the maximum first.
Rewind ==
  /\ tx = "space" /\ tpos >= tmax
  /\ tpos' = 0 /\ tmax' = 0
  /\ transmit_max' = 0
  /\ tx' = "rewind"
  /\ UNCHANGED <<transmit_buf, transmit_pos, in_tx, udrie, msglen, pending>>

RewindPosition ==
  /\ tx = "rewind"
  /\ transmit_pos' = 0
  /\ tx' = "write"
  /\ UNCHANGED <<transmit_buf, transmit_max, in_tx, udrie, localVars, pending>>

AppendAfter ==
  /\ tx = "space" /\ tpos < tmax
  /\ tx' = "write"
  /\ UNCHANGED <<transmit_buf, transmit_pos, transmit_max, in_tx, udrie, localVars, pending>>

-----------------------------------------------------------------------------
(* The message and tx_buffer_trigger *)

Message(label) == [i \in 1 .. msglen |-> label]

WriteMessage ==
  /\ tx = "write"
  /\ \E label \in Label :
       transmit_buf' = [i \in DOMAIN transmit_buf |->
                          IF i \in tmax .. tmax + msglen - 1 THEN label ELSE transmit_buf[i]]
  /\ tx' = "commit"
  /\ UNCHANGED <<transmit_pos, transmit_max, in_tx, udrie, localVars, pending>>

\* transmit_max is read a second time
Commit ==
  /\ tx = "commit"
  /\ transmit_max' = (transmit_max + msglen) % PosRange
  /\ pending' = pending \o Message(transmit_buf[tmax])
  /\ tx' = "enable"
  /\ UNCHANGED <<transmit_buf, transmit_pos, in_tx, udrie, localVars>>

\* Mutant: nothing enables the interrupt that disabled itself
EnableNot ==
  /\ tx = "enable"
  /\ tx' = "release"
  /\ UNCHANGED <<transmit_buf, transmit_pos, transmit_max, in_tx, udrie, localVars, pending>>

EnableIrq ==
  /\ tx = "enable"
  /\ udrie' = TRUE
  /\ tx' = "release"
  /\ UNCHANGED <<transmit_buf, transmit_pos, transmit_max, in_tx, localVars, pending>>

Release ==
  /\ tx = "release"
  /\ in_tx' = 0
  /\ tx' = "idle"
  /\ UNCHANGED <<transmit_buf, transmit_pos, transmit_max, udrie, localVars, pending>>

-----------------------------------------------------------------------------
(* The interrupts *)

\* tx_buffer_next finds nothing: the interrupt disables itself.
TransmitNothing ==
  /\ udrie /\ transmit_pos >= transmit_max
  /\ udrie' = FALSE
  /\ UNCHANGED <<transmit_buf, transmit_pos, transmit_max, in_tx, tx, localVars, pending>>

\* It sends a byte; what it sends beyond what is queued counts as nothing.
TransmitByte ==
  /\ udrie /\ transmit_pos < transmit_max
  /\ transmit_pos' = transmit_pos + 1
  /\ pending' = IF pending = <<>> THEN <<>> ELSE Tail(pending)
  /\ UNCHANGED <<transmit_buf, transmit_max, in_tx, udrie, tx, localVars>>

Transmit == TransmitNothing \/ TransmitByte

\* A timer's shutdown leaves send_response by longjmp.
IrqShutdownTx ==
  /\ tx \notin {"idle", "end"}
  /\ tx' = "end"
  /\ UNCHANGED <<transmit_buf, transmit_pos, transmit_max, in_tx, udrie, localVars, pending>>

\* Mutant: the guard stays on
EndTxNothing ==
  /\ tx = "end"
  /\ tx' = "idle"
  /\ UNCHANGED <<transmit_buf, transmit_pos, transmit_max, in_tx, udrie, localVars, pending>>

task_end_tx ==
  /\ tx = "end"
  /\ in_tx' = 0
  /\ tx' = "idle"
  /\ UNCHANGED <<transmit_buf, transmit_pos, transmit_max, udrie, localVars, pending>>

Respond == \E len \in Lengths : Guard(len)
MainTx == \/ ReadPosition \/ ReadMaximum \/ Rewind \/ RewindPosition \/ AppendAfter
          \/ WriteMessage \/ Commit \/ EnableIrq \/ Release \/ task_end_tx

NextTx == Respond \/ MainTx \/ Transmit \/ IrqShutdownTx

SpecTx == InitTx /\ [][NextTx]_txVars /\ WF_txVars(MainTx) /\ WF_txVars(Transmit)
-----------------------------------------------------------------------------
TypeOKTx ==
  /\ transmit_buf \in [0 .. BufSize - 1 -> Label \cup {NoByte}]
  /\ transmit_pos \in 0 .. PosRange - 1 /\ transmit_max \in 0 .. PosRange - 1
  /\ in_tx \in {0, 1} /\ udrie \in BOOLEAN
  /\ tx \in {"idle", "position", "maximum", "space", "rewind", "write", "commit",
             "enable", "release", "end"}
  /\ tpos \in 0 .. PosRange - 1 /\ tmax \in 0 .. PosRange - 1 /\ msglen \in Lengths \cup {0}
  /\ pending \in Seq(Label)

\* "Verify space for message" (rxtx_irq.c 190): the bytes between the two
\* counters are those queued and not yet sent, in order, at every point at
\* which the interrupt can look at them.  None is lost, sent twice, or sent
\* before its message is whole.
QueuedIsPending ==
  /\ Len(pending) = IF transmit_pos >= transmit_max THEN 0 ELSE transmit_max - transmit_pos
  /\ \A i \in 1 .. Len(pending) : transmit_buf[transmit_pos + i - 1] = pending[i]

\* The guard is on exactly while a response is being put together, so a
\* shutdown in the middle of one does not silence the firmware for good.
GuardIsReleased == (in_tx = 1) = (tx # "idle")

\* "encode (COBS) and transmit a response message" (rxtx_irq.c 217): once
\* tx_buffer_trigger has run to its end with nothing else waiting, the response
\* is sent, without another one being needed and whatever shutdowns follow.  (A
\* shutdown between Commit and EnableIrq leaves the response where it is.)
ResponseIsSent ==
  \A n \in Lengths : tx = "release" /\ Len(pending) = n ~> Len(pending) # n
=============================================================================
