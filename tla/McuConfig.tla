------------------------------ MODULE McuConfig -----------------------------
(* How the host configures a board.  The parts of the printer collect        *)
(* configuration commands; when it connects, the host asks the board whether *)
(* it is configured and sends the commands, or starts over.  The board keeps *)
(* its configuration when the host starts again.  The checksum of a          *)
(* configuration is modelled by the configuration itself: two of them are    *)
(* taken to have different ones.                                             *)
(*                                                                           *)
(* The pins of the board: the parts claim them by id or by alias while the   *)
(* configuration is read; what the aliases stand for, and which pins the     *)
(* board keeps for itself, is known when the board has been identified; the  *)
(* commands are rewritten when the host configures it.                       *)
EXTENDS Integers, Sequences, FiniteSets

CONSTANTS
  Ids,          \* the pins
  Aliases,      \* their other names; alias2id maps them
  alias2id,
  Shares,       \* what users that share a pin use it for; "no" for a user that does not share
  Functions_,   \* what the board keeps pins for
  MaxCommands,  \* bound: commands that name a pin
  Kinds,        \* how a part configures itself: see Parts
  Methods,      \* how the host may reset the board: "command", "rpi_usb" or "none"
  MaxParts,     \* bound: the parts of the first host; each later one has one less
  MaxWrites, MaxSessions, MaxFaults   \* bounds

VARIABLES
  active,       \* the names claimed, and how
  reserved,     \* the pins the board keeps, and for what
  named,        \* the names in the commands, rewritten as far as stage
  wired,        \* the pins marked as used, with their polarity
  stage,        \* how far the pins are, or "error"
  mcu,       \* what the host keeps of the board
  session,   \* which start of the host this is, why, the faults from outside so far,
             \* whether the last report that the board is shut down was lost (missed), and
             \* whether a host was stopped with the board partly configured (cut)
  outbound, inbound,  \* the messages under way to the board, and to the host
  board      \* the board

pins_vars == <<active, reserved, named, wired, stage>>
mcu_vars == <<mcu, session, outbound, inbound, board>>

-----------------------------------------------------------------------------
(* The pins *)
Empty == [x \in {} |-> {}]
Params(share, invert) == [share |-> share, invert |-> invert]
Add(f, x, y) == [z \in DOMAIN f \cup {x} |-> IF z \in DOMAIN f THEN f[z] ELSE y]

-----------------------------------------------------------------------------
(* pin_register, and the command of the part that claims the pin. *)
Compatible(old, new) == new.share # "no" /\ old.share = new.share /\ old.invert = new.invert

pin_register(name, share, invert) ==
  /\ stage = "config" /\ Len(named) < MaxCommands
  /\ IF name \in DOMAIN active
     THEN /\ stage' = IF Compatible(active[name], Params(share, invert)) THEN stage ELSE "error"
          /\ UNCHANGED active
     ELSE active' = Add(active, name, Params(share, invert)) /\ UNCHANGED stage
  /\ named' = IF stage' = "error" THEN named ELSE Append(named, name)
  /\ UNCHANGED <<reserved, wired>>

(* pin_reserve, for the pins the identified board says it keeps. *)
pin_reserve(pin, function) ==
  /\ stage = "config" \/ stage = "identified"
  /\ IF pin \in DOMAIN reserved /\ reserved[pin] # function
     THEN stage' = "error" /\ UNCHANGED reserved
     ELSE stage' = "identified" /\ reserved' = Add(reserved, pin, function)
  /\ UNCHANGED <<active, named, wired>>

-----------------------------------------------------------------------------
(* _command_fixup of the next command.  A name that is an alias gives its    *)
(* parameters to the pin, and is gone.                                       *)
PinOf(name) == IF name \in Aliases THEN alias2id[name] ELSE name

IsReserved(name) == PinOf(name) \in DOMAIN reserved

Rename(name) ==
  IF name \in Aliases
  THEN [z \in (DOMAIN active \ {name}) \cup {PinOf(name)} |-> active[IF z = PinOf(name) THEN name ELSE z]]
  ELSE active

Fixup(i) ==
  /\ stage = "identified" \/ stage = "fixing"
  /\ i = Cardinality(DOMAIN wired) + 1
  /\ i \in DOMAIN named
  /\ LET name == named[i]
     IN  IF name \notin DOMAIN active \/ IsReserved(name)
         THEN stage' = "error" /\ UNCHANGED <<active, named, wired>>
         ELSE /\ active' = Rename(name)
              /\ named' = [named EXCEPT ![i] = PinOf(name)]
              /\ wired' = Add(wired, i, Params(PinOf(name), active[name].invert))
              /\ stage' = IF i = Len(named) THEN "configured" ELSE "fixing"
  /\ UNCHANGED reserved

-----------------------------------------------------------------------------
InitPins == active = Empty /\ reserved = Empty /\ named = <<>> /\ wired = Empty /\ stage = "config"

NextPins ==
  \/ \E name \in Ids \cup Aliases, share \in Shares, invert \in BOOLEAN : pin_register(name, share, invert)
  \/ \E pin \in Ids, function \in Functions_ : pin_reserve(pin, function)
  \/ \E i \in 1 .. MaxCommands : Fixup(i)

SpecPins == InitPins /\ [][NextPins]_pins_vars

-----------------------------------------------------------------------------
(* A board is not configured to use a pin it keeps for itself, by whatever   *)
(* name the pin was claimed before the board was known.                      *)
ReservedUntouched ==
  stage = "configured" => \A i \in DOMAIN named : named[i] \in Ids /\ named[i] \notin DOMAIN reserved

-----------------------------------------------------------------------------
(* The configuration *)
None == <<>>     \* the configuration of a board that has none
Cmd(what, oid) == [what |-> what, oid |-> oid]
Part(kind, oid) == [kind |-> kind, oid |-> oid]

-----------------------------------------------------------------------------
(* The parts.  Those on a queue or a bus take their object id when they are  *)
(* made, an output or an analog input when the configuration is built.       *)
NewMcu(method) ==
  [phase |-> "setup", method |-> method, parts |-> <<>>, oids |-> 0, config |-> <<>>, init |-> <<>>,
   built |-> FALSE, starting |-> FALSE, is_shutdown |-> FALSE, printer |-> "up", writes |-> 0]

create_oid(m) == [m EXCEPT !.oids = @ + 1]
Configure(m, commands) == [m EXCEPT !.config = @ \o commands]

MakeDigital(m) == [m EXCEPT !.parts = Append(@, Part("digital", -1))]
MakeAnalog(m) == [m EXCEPT !.parts = Append(@, Part("analog", -1))]
MakeI2c(m) == [create_oid(m) EXCEPT !.parts = Append(@, Part("i2c", m.oids))]
MakeQueued(m) ==
  Configure([create_oid(m) EXCEPT !.parts = Append(@, Part("queued", m.oids))], <<Cmd("config", m.oids)>>)
MakeSpi(m) ==
  Configure([create_oid(m) EXCEPT !.parts = Append(@, Part("spi", m.oids))], <<Cmd("config", m.oids)>>)

MakePart(kind) ==
  /\ mcu.phase = "setup" /\ Len(mcu.parts) + session.count <= MaxParts
  /\ mcu' = CASE kind = "digital" -> MakeDigital(mcu) [] kind = "analog" -> MakeAnalog(mcu)
              [] kind = "queued" -> MakeQueued(mcu) [] kind = "i2c" -> MakeI2c(mcu) [] kind = "spi" -> MakeSpi(mcu)
  /\ UNCHANGED <<session, outbound, inbound, board>>

(* A write before the configuration is built becomes part of it: the value   *)
(* of an output with the objects, that for a bus among the init commands.    *)
update_digital_out(m, set) == Configure(m, <<set>>)
i2c_write(m, set) == [m EXCEPT !.init = Append(@, set)]
spi_send(m, set) == [m EXCEPT !.init = Append(@, set)]

WriteEarly(i) ==
  /\ mcu.phase \in {"setup", "identified"} /\ mcu.writes < MaxWrites
  /\ mcu.parts[i].kind \in {"queued", "i2c", "spi"}
  /\ LET set == Cmd("set", mcu.parts[i].oid)
         m == [mcu EXCEPT !.writes = @ + 1]
     IN  mcu' = CASE m.parts[i].kind = "queued" -> update_digital_out(m, set)
                  [] m.parts[i].kind = "i2c" -> i2c_write(m, set) [] m.parts[i].kind = "spi" -> spi_send(m, set)
  /\ UNCHANGED <<session, outbound, inbound, board>>

Write(i) ==
  /\ mcu.phase = "ready" /\ mcu.writes < MaxWrites /\ mcu.parts[i].kind # "analog"
  /\ outbound' = Append(outbound, Cmd("set", mcu.parts[i].oid))
  /\ mcu' = [mcu EXCEPT !.writes = @ + 1]
  /\ UNCHANGED <<session, inbound, board>>

(* The callback of a part. *)
BuildDigital(m, i) ==
  Configure([create_oid(m) EXCEPT !.parts[i].oid = m.oids], <<Cmd("config", m.oids)>>)
BuildAnalog(m, i) ==
  [Configure([create_oid(m) EXCEPT !.parts[i].oid = m.oids], <<Cmd("config", m.oids)>>)
     EXCEPT !.init = Append(@, Cmd("set", m.oids))]
BuildI2c(m, i) == Configure(m, <<Cmd("config", m.parts[i].oid)>>)
BuildSpi(m, i) == Configure(m, <<Cmd("set", m.parts[i].oid)>>)

BuildPart(m, i) ==
  CASE m.parts[i].kind = "digital" -> BuildDigital(m, i) [] m.parts[i].kind = "analog" -> BuildAnalog(m, i)
    [] m.parts[i].kind = "queued" -> m
    [] m.parts[i].kind = "i2c" -> BuildI2c(m, i) [] m.parts[i].kind = "spi" -> BuildSpi(m, i)

(* _send_config calls the callbacks in turn.                                  *)
Build(m) ==
  LET built[i \in 0 .. Len(m.parts)] == IF i = 0 THEN m ELSE BuildPart(built[i - 1], i)
      last == built[Len(m.parts)]
  IN  [last EXCEPT !.config = <<Cmd("allocate", last.oids)>> \o @, !.built = TRUE]

-----------------------------------------------------------------------------
(* Connecting.                                                               *)
Identify ==
  /\ mcu.phase = "setup" /\ outbound = <<>>
  /\ mcu' = [mcu EXCEPT !.phase = "identified"]
  /\ inbound' = <<>>
  /\ UNCHANGED <<session, outbound, board>>

Ask(m, phase) ==
  mcu' = [m EXCEPT !.phase = phase] /\ outbound' = Append(outbound, Cmd("get_config", 0))

Connect == mcu.phase = "identified" /\ Ask(mcu, "asked") /\ UNCHANGED <<session, inbound, board>>

Fail(m) == [m EXCEPT !.phase = "failed"]

(* The acknowledgement of the question comes behind its answer: a question   *)
(* that was acknowledged and has no answer is asked again, a few times.      *)
Unanswered ==
  /\ mcu.phase \in {"asked", "asked again"}
  /\ \A i \in DOMAIN outbound : outbound[i].what # "get_config"
  /\ \A i \in DOMAIN inbound : inbound[i].what # "config"

AskAgain == Unanswered /\ Ask(mcu, mcu.phase) /\ UNCHANGED <<session, inbound, board>>

GiveUp == Unanswered /\ mcu' = Fail(mcu) /\ UNCHANGED <<session, outbound, inbound, board>>

(* _check_restart, unless the host was started for one: exits and restarts. *)
CheckRestart(m) == [m EXCEPT !.phase = IF session.reason = "restart_mcu" THEN "failed" ELSE "restart"]

ConfigMessages(m) == Append(m.config, [what |-> "finalize", oid |-> m.config])

SendConfigAnyCrc(config) ==      \* mutant: the checksum is not compared
  LET m == [Build(mcu) EXCEPT !.starting = TRUE]
  IN  IF config = None
      THEN /\ mcu' = [m EXCEPT !.phase = "asked again"]
           /\ outbound' = outbound \o ConfigMessages(m) \o m.init \o <<Cmd("get_config", 0)>>
      ELSE mcu' = [m EXCEPT !.phase = "ready"] /\ outbound' = outbound \o m.init

(* The answer to get_config, the first time. *)
SendConfig(config) ==
  LET m == [Build(mcu) EXCEPT !.starting = TRUE]
  IN  IF config = None
      THEN /\ mcu' = [m EXCEPT !.phase = "asked again"]
           /\ outbound' = outbound \o ConfigMessages(m) \o m.init \o <<Cmd("get_config", 0)>>
      ELSE IF config # m.config THEN mcu' = CheckRestart([m EXCEPT !.starting = FALSE]) /\ UNCHANGED outbound
      ELSE mcu' = [m EXCEPT !.phase = "ready"] /\ outbound' = outbound \o m.init

Answered(r) ==
  CASE mcu.is_shutdown \/ r.is_shutdown -> mcu' = Fail(mcu) /\ UNCHANGED outbound
    [] ~(mcu.is_shutdown \/ r.is_shutdown) /\ mcu.phase = "asked again" ->
         /\ mcu' = IF r.config = None THEN Fail(mcu) ELSE [mcu EXCEPT !.phase = "ready"]
         /\ UNCHANGED outbound
    [] ~(mcu.is_shutdown \/ r.is_shutdown) /\ mcu.phase = "asked" ->
         IF r.config = None
         THEN IF mcu.method = "rpi_usb" /\ session.reason # "restart_mcu"
              THEN mcu' = CheckRestart(mcu) /\ UNCHANGED outbound
              ELSE SendConfig(None)
         ELSE IF session.reason = "restart_mcu" THEN mcu' = Fail(mcu) /\ UNCHANGED outbound
         ELSE SendConfig(r.config)

-----------------------------------------------------------------------------
(* Messages of the board.  What stops the printer is told to all its parts,  *)
(* once.  The message of a board that starts anew is heard, but its handler  *)
(* asks for a _printer the part does not have: the reader logs the exception *)
(* and goes on, and nobody is told.                                          *)
call_shutdown(m) == [m EXCEPT !.printer = IF @ = "up" THEN "told" ELSE @]

Shutdown(m) == IF m.is_shutdown THEN m ELSE call_shutdown([m EXCEPT !.is_shutdown = TRUE])

Starting(m) == m

Receive ==
  /\ inbound # <<>> /\ mcu.phase \notin {"setup", "failed", "restart"}
  /\ inbound' = Tail(inbound)
  /\ LET r == Head(inbound)
     IN  CASE r.what = "config" -> Answered(r)
           [] r.what \in {"shutdown", "is_shutdown"} -> mcu' = Shutdown(mcu) /\ UNCHANGED outbound
           [] r.what = "starting" -> mcu' = Starting(mcu) /\ UNCHANGED outbound
  /\ UNCHANGED <<session, board>>

(* Another part, or another board, shuts the printer down.                   *)
PrinterStops ==
  /\ mcu.printer = "up" /\ session.faults < MaxFaults
  /\ mcu' = call_shutdown(mcu)
  /\ session' = [session EXCEPT !.faults = @ + 1]
  /\ UNCHANGED <<outbound, inbound, board>>

(* The printer was told: it stops the boards that do not know, and that it   *)
(* has identified.                                                           *)
EmergencyStop ==
  /\ mcu.printer = "told"
  /\ mcu' = [mcu EXCEPT !.printer = "down"]
  /\ outbound' = IF mcu.phase = "setup" \/ mcu.is_shutdown THEN outbound ELSE Append(outbound, Cmd("emergency_stop", 0))
  /\ UNCHANGED <<session, inbound, board>>

(* The board after a reset: nothing is allocated. *)
Blank == [config |-> None, crc |-> None, oids |-> -1, objects |-> {}, shutdown |-> FALSE, resets |-> 0, error |-> FALSE]

Partly(b) == b.config = None /\ ~(b.oids = -1 /\ b.objects = {})

(* The host starts again, stopped at whatever it did, or because it failed;  *)
(* what it had queued is gone.  Only a restart of the board resets it, and   *)
(* only where it can be reset.  The user may have changed the configuration. *)
StartHost(reason, cut) ==
  /\ session.count < MaxSessions
  /\ session' = [session EXCEPT !.count = @ + 1, !.reason = reason, !.missed = FALSE, !.cut = cut,
                               !.tries = IF reason = "restart_mcu" THEN @ + 1 ELSE 0]
  /\ mcu' = NewMcu(mcu.method)
  /\ outbound' = <<>> /\ inbound' = <<>>

Restart == StartHost("restart", session.cut \/ Partly(board)) /\ UNCHANGED board

RestartMcu ==
  /\ mcu.phase = "restart"
  /\ IF mcu.method = "none" THEN StartHost("restart_mcu", session.cut \/ Partly(board)) /\ UNCHANGED board
     ELSE StartHost("restart_mcu", FALSE) /\ board' = [Blank EXCEPT !.resets = board.resets]

-----------------------------------------------------------------------------
(* The board: it runs a command or refuses it, which shuts it down; it runs  *)
(* commands while it is shut down as well, and says so after each.           *)
Report(what) == [what |-> what]
Reported(q) == \E i \in DOMAIN q : q[i].what \in {"shutdown", "is_shutdown"}

Refuses(b, c) ==
  \/ c.what = "allocate" /\ b.oids >= 0
  \/ c.what = "config" /\ (c.oid >= b.oids \/ c.oid \in b.objects \/ b.config # None)
  \/ c.what = "finalize" /\ b.config # None
  \/ c.what = "set" /\ c.oid \notin b.objects

(* finalize_config keeps one byte of the checksum: all of it or not.         *)
Byte == <<Cmd("byte", 0)>>

Done(b, c, whole) ==
  CASE c.what = "allocate" -> [b EXCEPT !.oids = c.oid]
    [] c.what = "config" -> [b EXCEPT !.objects = @ \cup {c.oid}]
    [] c.what = "finalize" -> [b EXCEPT !.config = c.oid, !.crc = IF whole THEN c.oid ELSE Byte]
    [] c.what \in {"set", "get_config"} -> b

Says(b, c) ==
  (IF c.what = "get_config" THEN <<[what |-> "config", config |-> b.crc, is_shutdown |-> b.shutdown]>> ELSE <<>>)
    \o IF b.shutdown THEN <<Report("is_shutdown")>> ELSE <<>>

(* sched_shutdown leaves whatever the board is doing: what is left of the    *)
(* block of commands, from the given one on, is not run.                     *)
sched_shutdown(b, from) ==
  /\ board' = [b EXCEPT !.shutdown = TRUE]
  /\ inbound' = Append(inbound, Report("shutdown"))
  /\ \E i \in from .. Len(outbound) + 1 : outbound' = SubSeq(outbound, i, Len(outbound))

BoardTakes ==
  /\ outbound # <<>>
  /\ LET c == Head(outbound)
     IN  IF Refuses(board, c) \/ c.what = "emergency_stop"
         THEN /\ sched_shutdown([board EXCEPT !.error = @ \/ (~board.shutdown /\ Refuses(board, c))], 2)
              /\ session' = [session EXCEPT !.missed = FALSE]
         ELSE /\ outbound' = Tail(outbound)
              /\ \E whole \in BOOLEAN : board' = Done(board, c, whole)
              /\ inbound' = inbound \o Says(board, c)
              /\ session' = [session EXCEPT !.missed = @ /\ ~board.shutdown]
  /\ UNCHANGED mcu

(* A timer that is too late, a sensor out of range.                          *)
BoardStops ==
  /\ ~board.shutdown /\ session.faults < MaxFaults
  /\ sched_shutdown(board, 1)
  /\ session' = [session EXCEPT !.faults = @ + 1, !.missed = FALSE]
  /\ UNCHANGED mcu

BoardResets ==
  /\ session.faults < MaxFaults
  /\ board' = [Blank EXCEPT !.resets = board.resets + 1]
  /\ inbound' = Append(inbound, Report("starting"))
  /\ session' = [session EXCEPT !.faults = @ + 1]
  /\ UNCHANGED <<mcu, outbound>>

(* What the board says is sent once: it arrives, or it does not.             *)
ReportLost ==
  /\ inbound # <<>> /\ session.faults < MaxFaults
  /\ inbound' = Tail(inbound)
  /\ session' = [session EXCEPT !.faults = @ + 1, !.missed = @ \/ (Reported(inbound) /\ ~Reported(inbound'))]
  /\ UNCHANGED <<mcu, outbound, board>>

-----------------------------------------------------------------------------
InitMcu ==
  /\ \E method \in Methods : mcu = NewMcu(method)
  /\ session = [count |-> 1, reason |-> "startup", tries |-> 0, faults |-> 0,
                missed |-> FALSE, cut |-> FALSE]
  /\ outbound = <<>> /\ inbound = <<>> /\ board = Blank

NextMcu ==
  \/ \E kind \in Kinds : MakePart(kind)
  \/ \E i \in DOMAIN mcu.parts : WriteEarly(i) \/ Write(i)
  \/ Identify \/ Connect \/ AskAgain \/ GiveUp \/ Receive \/ PrinterStops \/ EmergencyStop
  \/ Restart \/ RestartMcu \/ BoardTakes \/ BoardStops \/ BoardResets \/ ReportLost

SpecMcu == InitMcu /\ [][NextMcu]_mcu_vars

-----------------------------------------------------------------------------
(* A board the host takes for configured and running has the configuration   *)
(* of this very host, unless it has reset since.                             *)
RunsOwnConfig ==
  mcu.phase = "ready" /\ outbound = <<>> /\ board.resets = 0 /\ ~board.shutdown => board.config = mcu.config

(* The host's own commands never make a running board fault: what they name  *)
(* has been allocated and configured before, once, whatever the order in     *)
(* which the parts were made and written to, and however the host and the    *)
(* board stop, restart and lose reports.  It holds as long as no host is     *)
(* stopped with its configuration partly delivered: to the next one such a   *)
(* board is unconfigured, and its oids are allocated a second time.          *)
CommandsFit == board.resets = 0 /\ ~session.cut => ~board.error

(* An automatic restart of the board is tried once in a row: a host started  *)
(* for one does not start another.                                           *)
RestartsOnce == session.tries <= 1

(* A board that was shut down does not stay so unnoticed: the host knows, or *)
(* a report is on its way; only if the last report was lost it is not        *)
(* noticed before the next command, which the board answers with another.    *)
FaultIsTold ==
  mcu.phase = "ready" /\ board.shutdown /\ mcu.printer = "up" => Reported(inbound) \/ session.missed

=============================================================================
