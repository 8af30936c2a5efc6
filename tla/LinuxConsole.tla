---------------------------- MODULE LinuxConsole ----------------------------
(***************************************************************************)
(* How the Linux build receives messages (src/hal/linux/console.c): no     *)
(* interrupt; the task reads what the pseudo terminal holds, looks for one *)
(* block with the rx_find_block of RxBuffer, moves the rest to the front   *)
(* and wakes itself again while something is left.                         *)
(*                                                                         *)
(* RxBuffer's line is the terminal's queue, its rpos the msglen that       *)
(* task_console_rx passes on.  receive_pos is stored at the end of the     *)
(* task; here it is when the bytes are read, and received is what a        *)
(* longjmp puts it back to: nothing looks at it in between.                *)
(***************************************************************************)
EXTENDS RxBuffer

CONSTANTS
  Burst        \* bound: bytes sent and not yet taken by the firmware; at most BufSize

VARIABLES
  console_wake, received,
  failed                  \* history: read() failed, or a shutdown came

linuxVars == <<rxVars, console_wake, received, failed>>

InitLinux == InitRx /\ console_wake = FALSE /\ received = 0 /\ failed = FALSE

\* The host writes frames as it likes, acknowledged or not.
HostWrite(s) ==
  /\ Len(queue) + Len(line) + FrameLen(s) <= Burst
  /\ line' = line \o Frame(s)
  /\ UNCHANGED <<bufVars, noise, next_sequence, syncVars, main, rpos, pop_count, copied, console_wake, received, failed>>

\* Bytes that are no frame
HostText ==
  /\ noise > 0 /\ Len(queue) + Len(line) < Burst
  /\ line' = Append(line, Noise) /\ noise' = noise - 1
  /\ UNCHANGED <<bufVars, next_sequence, syncVars, main, rpos, pop_count, copied, console_wake, received, failed>>

\* console_sleep: poll returns for the terminal
console_sleep ==
  /\ main = "idle" /\ ~console_wake /\ line # <<>>
  /\ console_wake' = TRUE
  /\ UNCHANGED <<rxVars, received, failed>>

-----------------------------------------------------------------------------
(* task_console_rx *)

\* An error of read() but EWOULDBLOCK
ReadFails ==
  /\ main = "idle" /\ console_wake
  /\ console_wake' = FALSE /\ failed' = TRUE
  /\ UNCHANGED <<rxVars, received>>

\* read() returns some of what waits: frames may come in parts.
Chunk ==
  LET room == BufSize - receive_pos
      most == IF Len(line) < room THEN Len(line) ELSE room
  IN IF most = 0 THEN {0} ELSE 1 .. most

\* It fills the buffer behind receive_pos.
ReadChunk(n) ==
  /\ receive_buf' = [i \in DOMAIN receive_buf |->
                       IF i \in receive_pos .. receive_pos + n - 1
                       THEN line[i - receive_pos + 1] ELSE receive_buf[i]]
  /\ line' = SubSeq(line, n + 1, Len(line))
  /\ console_wake' = FALSE

\* uint_fast8_t msglen = len > MSG_MAX ? MSG_MAX : len
MsglenOf(len) == (IF len > MsgMax THEN MsgMax ELSE len) % PosRange

ReadAndFind(n) ==
  /\ main = "idle" /\ console_wake
  /\ ReadChunk(n)
  /\ received' = receive_pos
  /\ receive_pos' = receive_pos + n
  /\ queue' = queue \o SubSeq(line, 1, n)
  /\ rpos' = MsglenOf(receive_pos + n)
  /\ main' = "find"
  /\ UNCHANGED <<noise, next_sequence, syncVars, pop_count, copied, failed>>

\* Noise that comes alone may be the text "FORCE_SHUTDOWN".
IsForceShutdown(n) == SubSeq(line, 1, n) = <<Noise>>

\* The longjmp leaves the text uncounted behind receive_pos.
ForceShutdown(n) ==
  /\ main = "idle" /\ console_wake /\ IsForceShutdown(n)
  /\ ReadChunk(n)
  /\ failed' = TRUE
  /\ UNCHANGED <<receive_pos, queue, noise, next_sequence, syncVars, main, rpos, pop_count, copied, received>>

\* rx_find_and_run
FindBlock ==
  /\ NeedMoreData \/ Accept \/ OutOfSequence \/ DropLeadingSync \/ DropDamaged \/ DropUnsynced \/ RunDone
  /\ UNCHANGED <<console_wake, received, failed>>

\* A command shuts down: what this call read is forgotten.
CommandShutdown ==
  /\ main = "run"
  /\ main' = "idle" /\ failed' = TRUE
  /\ receive_pos' = received
  /\ queue' = SubSeq(queue, 1, received)
  /\ UNCHANGED <<receive_buf, hostVars, next_sequence, syncVars, rpos, pop_count, copied, console_wake, received>>

left == receive_pos - pop_count

\* Mutant: the rest stays where it is
RemoveBlockInPlace ==
  /\ main = "clean" /\ left >= 0
  /\ receive_pos' = left
  /\ queue' = SubSeq(queue, pop_count + 1, Len(queue))
  /\ console_wake' = (console_wake \/ left > 0)
  /\ main' = "idle"
  /\ UNCHANGED <<receive_buf, hostVars, next_sequence, syncVars, rpos, pop_count, copied, received, failed>>

\* Mutant: the rest waits for more input
RemoveBlockAsleep ==
  /\ main = "clean" /\ left >= 0
  /\ receive_buf' = [i \in DOMAIN receive_buf |->
                       IF i < left THEN receive_buf[i + pop_count] ELSE receive_buf[i]]
  /\ receive_pos' = left
  /\ queue' = SubSeq(queue, pop_count + 1, Len(queue))
  /\ main' = "idle"
  /\ UNCHANGED <<hostVars, next_sequence, syncVars, rpos, pop_count, copied, console_wake, received, failed>>

RemoveBlock ==
  /\ main = "clean" /\ left >= 0
  /\ receive_buf' = [i \in DOMAIN receive_buf |->
                       IF i < left THEN receive_buf[i + pop_count] ELSE receive_buf[i]]
  /\ receive_pos' = left
  /\ queue' = SubSeq(queue, pop_count + 1, Len(queue))
  /\ console_wake' = (console_wake \/ left > 0)
  /\ main' = "idle"
  /\ UNCHANGED <<hostVars, next_sequence, syncVars, rpos, pop_count, copied, received, failed>>

\* A stale MSG_SYNC made the block one longer than what was received: the
\* memmove of a negative length is undefined, and nothing is claimed of it.
RemoveTooMuch ==
  /\ main = "clean" /\ left < 0
  /\ main' = "spoilt"
  /\ UNCHANGED <<bufVars, hostVars, next_sequence, syncVars, rpos, pop_count, copied, console_wake, received, failed>>

SpoiltLinux == main = "spoilt" /\ UNCHANGED linuxVars

TaskLinux == FindBlock \/ CommandShutdown \/ RemoveBlock \/ RemoveTooMuch
ReadLinux == \E n \in Chunk : ReadAndFind(n) \/ ForceShutdown(n)

NextLinux == \/ \E s \in Sequence : HostWrite(s)
             \/ HostText \/ console_sleep \/ ReadFails \/ ReadLinux \/ TaskLinux \/ SpoiltLinux

SpecLinux ==
  /\ InitLinux /\ [][NextLinux]_linuxVars
  /\ WF_linuxVars(console_sleep) /\ SF_linuxVars(ReadLinux) /\ WF_linuxVars(TaskLinux)
-----------------------------------------------------------------------------
HasMessage == Len(queue) >= MsgMin /\ \E i \in 1 .. Len(queue) : queue[i] = MSG_SYNC

\* "Process any incoming commands" (console.c 131): a message that was read is
\* looked at, whatever came with it, even when nothing comes after it, unless
\* read() fails or a shutdown comes.
InputIsTaken ==
  HasMessage /\ main = "idle" /\ ~failed ~> main \in {"run", "clean", "spoilt"} \/ failed
=============================================================================
