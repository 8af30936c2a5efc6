------------------------------- MODULE MCWire --------------------------------
(* The two ends of the wire in the firmware: sending on the AVR (TxBuffer)    *)
(* and receiving on Linux (LinuxConsole).  A behaviour is of one of them,     *)
(* which share no state; part says of which.                                  *)
EXTENDS TxBuffer

VARIABLES
  part,   \* the component this behaviour is of
  receive_buf, receive_pos, next_sequence, need_sync, need_valid, main, rpos, pop_count, copied,
  line, noise, queue, console_wake, received, failed

Linux == INSTANCE LinuxConsole WITH
  PosRange <- 8, BufSize <- 16, MsgMin <- 2, MsgMax <- 8, SeqRange <- 2, ReceiveWindow <- 0,
  MaxNoise <- 1, Burst <- 5
linuxVars == <<receive_buf, receive_pos, next_sequence, need_sync, need_valid, main, rpos, pop_count,
  copied, line, noise, queue, console_wake, received, failed>>

Init == part \in {"tx", "linux"} /\ InitTx /\ Linux!InitLinux

TxStep == part = "tx" /\ NextTx /\ UNCHANGED <<part, linuxVars>>
LinuxStep == part = "linux" /\ Linux!NextLinux /\ UNCHANGED <<part, txVars>>

Spec ==
  /\ Init /\ [][TxStep \/ LinuxStep]_<<part, txVars, linuxVars>>
  /\ WF_txVars(part = "tx" /\ MainTx) /\ WF_txVars(part = "tx" /\ Transmit)
  /\ WF_linuxVars(part = "linux" /\ Linux!console_sleep)
  /\ SF_linuxVars(part = "linux" /\ Linux!ReadLinux)
  /\ WF_linuxVars(part = "linux" /\ Linux!TaskLinux)

(* Local variables that will be assigned before they are read make no         *)
(* difference, nor does a byte behind those received, but for being a         *)
(* MSG_SYNC: it is overwritten before it counts.                              *)
Bytes == [i \in DOMAIN receive_buf |->
            IF i < receive_pos THEN receive_buf[i]
            ELSE IF receive_buf[i] = Linux!MSG_SYNC THEN Linux!MSG_SYNC ELSE Linux!Zero]
View ==
  <<part, txVars,
    IF main = "spoilt" THEN <<main>>
    ELSE <<Bytes, receive_pos, queue, Linux!hostVars, next_sequence, need_sync, need_valid, main,
           console_wake, failed,
           IF main = "idle" THEN 0 ELSE received,
           IF main = "find" THEN rpos ELSE 0,
           IF main \in {"run", "clean"} THEN pop_count ELSE 0>> >>

------------------------------------------------------------------------------
\* On Linux the buffer holds what was read and not yet removed (LinuxConsole).
ConsoleKeepsBytes == Linux!BufferIsQueue

\* A message that was read is looked at, even when nothing comes after it
\* (LinuxConsole).
InputIsTaken == Linux!InputIsTaken

\* What is to be sent is sent (TxBuffer) and what came is looked at (LinuxConsole).
NothingIsStuck == ResponseIsSent /\ InputIsTaken
=============================================================================
