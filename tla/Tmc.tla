--------------------------------- MODULE Tmc ---------------------------------
(* The drivers of Trinamic (tmc.common.py, uart.tmc.py and one file for each  *)
(* family).  The host keeps a shadow of the registers, `registers`, changes   *)
(* fields in it and writes whole registers; greenlets that write wait for the *)
(* mutex of the bus.  On a UART a write that the driver has not counted is    *)
(* repeated.                                                                  *)
(*                                                                            *)
(* Of the registers there are the fields that change while the host runs.  A  *)
(* write holds the fields of its register as they were when the greenlet      *)
(* began to wait for the mutex.                                               *)
EXTENDS Integers, Sequences, SequencesExt, FiniteSetsExt, TLC

CONSTANTS
  Families,      \* of "tmc2130", "tmc2208", "tmc2209", "tmc2660" and "tmc5160"
  Retries,       \* how often a message is sent on a UART, 5 in the code
  Attempts,      \* how often the registers are sent when the host connects, 6
  IfcntMod,      \* the counter of writes wraps, 256
  Currents,      \* in hundredths of an ampere
  Toff,          \* driver_TOFF
  Callbacks,     \* greenlets of the reactor's callbacks
  MaxCommands, MaxLost   \* bounds: commands and events, and messages lost

VARIABLES
  family, dedicated, stealth,   \* the driver, has_dedicated_enable, en_pwm
  at,           \* "config", "connect", "ready", "homing" or "failed"
  registers,    \* the fields, as the host sets them
  chip,         \* the fields, as the driver has them
  toff,         \* the value that enables, -1 if the driver has a pin for it
  enabled,      \* as the enable line of the stepper says
  idle, current,   \* TMC2660: whether the printer is idle, and run_current
  program,      \* what each greenlet has still to write
  queue,        \* the greenlets waiting for the mutex, each with its write; the first has it
  bus,          \* how far the first of them is
  ifcnt, count, \* the writes counted, as the host last read (-1: never) and by the driver
  callbacks,    \* programs the reactor is to run
  by_user,      \* fields set by SET_TMC_FIELD
  raised,       \* an access was given up
  commands, lost, attempts

tmc_vars == <<family, dedicated, stealth, at, registers, chip, toff, enabled, idle, current, program, queue, bus,
              ifcnt, count, callbacks, by_user, raised, commands, lost, attempts>>
config == <<family, dedicated, stealth>>

-----------------------------------------------------------------------------
(* Fields and the registers they are in *)

Tmc2130 ==
  [toff |-> "CHOPCONF", vsense |-> "CHOPCONF", IRUN |-> "IHOLD_IRUN", IHOLD |-> "IHOLD_IRUN", TPWMTHRS |-> "TPWMTHRS",
   TCOOLTHRS |-> "TCOOLTHRS", en_pwm_mode |-> "GCONF", diag1_stall |-> "GCONF"]

Tmc5160 ==
  [toff |-> "CHOPCONF", IRUN |-> "IHOLD_IRUN", IHOLD |-> "IHOLD_IRUN", TPWMTHRS |-> "TPWMTHRS",
   TCOOLTHRS |-> "TCOOLTHRS", en_pwm_mode |-> "GCONF", diag1_stall |-> "GCONF", GLOBALSCALER |-> "GLOBALSCALER"]

Tmc2208 ==
  [toff |-> "CHOPCONF", vsense |-> "CHOPCONF", IRUN |-> "IHOLD_IRUN", IHOLD |-> "IHOLD_IRUN", TPWMTHRS |-> "TPWMTHRS",
   en_spreadCycle |-> "GCONF"]

Tmc2209 == Tmc2208 @@ [TCOOLTHRS |-> "TCOOLTHRS"]

Tmc2660 == [toff |-> "CHOPCONF", CS |-> "SGCSCONF", VSENSE |-> "DRVCONF", RDSEL |-> "DRVCONF"]

field_to_register ==
  CASE family = "tmc2130" -> Tmc2130
    [] family = "tmc5160" -> Tmc5160
    [] family = "tmc2208" -> Tmc2208
    [] family = "tmc2209" -> Tmc2209
    [] family = "tmc2660" -> Tmc2660

Fields == DOMAIN field_to_register
FieldsOf(reg) == {f \in Fields : field_to_register[f] = reg}
OnUart == family \in {"tmc2208", "tmc2209"}
HasVirtualPin == family \in {"tmc2130", "tmc2209", "tmc5160"}
Written == {field_to_register[f] : f \in {f \in Fields : f # "TCOOLTHRS" \/ f \in by_user}}

-----------------------------------------------------------------------------
(* Currents, for sense resistors of 0.130 and 0.075 Ohm; vref 64 is 0.32 V *)

Clip(bits) == Max({0, Min({31, bits})})
Bits(amps, vref) == Clip((amps * 1177 - 50 * vref) \div (100 * vref))
HighRange == IF family = "tmc2660" THEN 62 ELSE 64
LowRange == IF family = "tmc2660" THEN 33 ELSE 36

\* _calc_current: the sensitive range is taken if both currents fit in it
Vsense(run, hold) == Bits(run, HighRange) < 16 /\ Bits(Min({hold, run}), HighRange) < 16
Vref(run, hold) == IF Vsense(run, hold) THEN LowRange ELSE HighRange

\* _calc_current_from_field, rounded to hundredths
FromBits(bits, vsense) ==
  LET vref == IF vsense THEN LowRange ELSE HighRange IN ((bits + 1) * vref * 100 + 588) \div 1177

\* A TMC5160 is scaled once, for the current it is configured with.
GlobalScaler(amps) == LET scale == Max({32, (amps * 8355 + 5000) \div 10000}) IN IF scale >= 256 THEN 0 ELSE scale
Scale == IF registers.GLOBALSCALER = 0 THEN 256 ELSE registers.GLOBALSCALER
Bits5160(amps, scale) == Clip((amps * 26735 - 500 * scale) \div (1000 * scale))
FromBits5160(bits) == (Scale * (bits + 1) * 1000 + 13367) \div 26735

-----------------------------------------------------------------------------
(* Programs: a step sets fields and writes the register they are in *)

NoField == [f \in {} |-> 0]
Write(set, reg) == [set |-> set, reg |-> reg, raw |-> NoField, always |-> TRUE, reads |-> FALSE]
WriteRaw(reg, value) == [Write(NoField, reg) EXCEPT !.raw = reg :> value]   \* past the shadow
WriteNew(set, reg) == [Write(set, reg) EXCEPT !.always = FALSE]   \* only if it changes the shadow

_init_registers == LET regs == SetToSeq(Written) IN [i \in DOMAIN regs |-> Write(NoField, regs[i])]

\* Mutant: whoever enables finds the value the register has now
EnableWithShadow(on) == <<Write([toff |-> registers.toff], "CHOPCONF")>>

_do_enable(on) == <<Write([toff |-> IF on THEN toff ELSE 0], "CHOPCONF")>>

Amps(run, hold, bits(_)) == Write([IHOLD |-> bits(Min({hold, run})), IRUN |-> bits(run)], "IHOLD_IRUN")

SetCurrent2130(run) ==
  LET hold == FromBits(registers.IHOLD, registers.vsense)
  IN  <<WriteNew([vsense |-> Vsense(run, hold)], "CHOPCONF"), Amps(run, hold, LAMBDA c : Bits(c, Vref(run, hold)))>>

SetCurrent5160(run) == <<Amps(run, FromBits5160(registers.IHOLD), LAMBDA c : Bits5160(c, Scale))>>

\* Mutant: the sensitive range is set only when it is entered
SetCurrentOnce(run) ==
  <<Write([CS |-> Bits(run, Vref(run, run))], "SGCSCONF"),
    WriteNew([VSENSE |-> registers.VSENSE \/ Vsense(run, run)], "DRVCONF")>>

set_current(run) ==
  <<Write([CS |-> Bits(run, Vref(run, run))], "SGCSCONF"), WriteNew([VSENSE |-> Vsense(run, run)], "DRVCONF")>>

\* The current a TMC2660 is to have, which is halved while the printer is idle
IdleCurrent == IF idle THEN current \div 2 ELSE current

\* A query on a TMC2660 selects what to read by writing DRVCONF.
Query(step) == [step EXCEPT !.reads = TRUE]
Read ==
  IF family = "tmc2660" THEN <<Query(Write([RDSEL |-> 1], "DRVCONF")), Query(Write([RDSEL |-> 0], "DRVCONF"))>>
  ELSE <<Query(Write(NoField, "none"))>>

handle_homing_move_begin ==
  IF family = "tmc2209"
  THEN <<WriteRaw("TPWMTHRS", 0), Write([en_spreadCycle |-> FALSE], "GCONF"), WriteRaw("TCOOLTHRS", 9)>>
  ELSE <<Write([en_pwm_mode |-> FALSE, diag1_stall |-> TRUE], "GCONF"), WriteRaw("TCOOLTHRS", 9)>>

\* Mutant: the mode of the driver is left as homing needs it
HomingEndsAsIs == <<WriteRaw("TCOOLTHRS", 0)>>

handle_homing_move_end ==
  IF family = "tmc2209"
  THEN <<WriteRaw("TPWMTHRS", 5), Write([en_spreadCycle |-> ~stealth], "GCONF"), WriteRaw("TCOOLTHRS", 0)>>
  ELSE <<Write([en_pwm_mode |-> stealth, diag1_stall |-> FALSE], "GCONF"), WriteRaw("TCOOLTHRS", 0)>>

-----------------------------------------------------------------------------
(* Greenlets and the mutex *)

Busy(g) == program[g] # <<>>
Waits(g) == \E i \in DOMAIN queue : queue[i].by = g
Continues == \E g \in DOMAIN program : Busy(g) /\ ~Waits(g)
Holding == queue # <<>> /\ at # "failed" /\ ~Continues
IsRead == queue[1].reads

\* A greenlet runs until it has to wait: for the mutex, for an answer on the
\* UART or for the answer to a query on SPI, but not for a write on SPI.
Runs ==
  \/ Continues
  \/ ~OnUart /\ queue # <<>> /\ ~IsRead /\ bus.phase # "woken"

Fresh == [phase |-> IF ifcnt = -1 THEN "ifcnt" ELSE "write", tries |-> 1, reads |-> 0]

\* Mutant: whoever comes last gets the mutex next
LastFirst(write) == IF queue = <<>> THEN <<write>> ELSE <<Head(queue), write>> \o Tail(queue)
Enqueue(write) == Append(queue, write)

\* set_field and set_register up to the mutex: the first step of what g is to do
Take(g, steps) ==
  LET step == Head(steps)
      changed == step.set @@ registers
  IN  IF ~step.always /\ changed = registers
      THEN program' = [program EXCEPT ![g] = Tail(steps)] /\ UNCHANGED <<registers, queue, bus>>
      ELSE /\ program' = [program EXCEPT ![g] = steps]
           /\ registers' = changed
           /\ queue' = Enqueue([by |-> g, reads |-> step.reads,
                                  val |-> step.raw @@ [f \in FieldsOf(step.reg) |-> changed[f]]])
           /\ bus' = IF queue = <<>> THEN Fresh ELSE bus

Continue(g) ==
  /\ Busy(g) /\ ~Waits(g) /\ at # "failed"
  /\ Take(g, program[g])
  /\ UNCHANGED <<config, at, chip, toff, enabled, idle, current, ifcnt, count, callbacks, by_user, raised,
                 commands, lost, attempts>>

\* The first leaves the mutex to the next.  A callback that raises ends the host.
Leave(counted, ok) ==
  LET g == queue[1].by
  IN  /\ queue' = Tail(queue)
      /\ bus' = [phase |-> IF ~OnUart THEN "woken" ELSE IF counted = -1 THEN "ifcnt" ELSE "write", tries |-> 1,
                 reads |-> 0]
      /\ program' = [program EXCEPT ![g] = IF ok THEN Tail(@) ELSE <<>>]
      /\ raised' = (raised \/ ~ok)
      /\ at' = IF ok \/ g = "user" THEN at ELSE "failed"

-----------------------------------------------------------------------------
(* MCU_TMC_SPI and MCU_TMC_uart *)

SpiTransfer ==
  /\ Holding /\ ~OnUart
  /\ chip' = queue[1].val @@ chip
  /\ Leave(ifcnt, TRUE)
  /\ UNCHANGED <<config, registers, toff, enabled, idle, current, ifcnt, count, callbacks, by_user, commands, lost,
                 attempts>>

\* A message is garbled: its bits or its checksum are wrong.
Lost == lost < MaxLost /\ lost' = lost + 1

_do_get_register ==
  /\ Holding /\ OnUart /\ IsRead
  /\ Leave(ifcnt, TRUE)
  /\ UNCHANGED <<config, registers, chip, toff, enabled, idle, current, ifcnt, count, callbacks, by_user, commands,
                 lost, attempts>>

\* An answer that does not come is asked for again, and the access given up at last.
ReadLost ==
  /\ Holding /\ OnUart /\ (IsRead \/ bus.phase # "write") /\ Lost
  /\ IF bus.reads + 1 = Retries THEN Leave(ifcnt, FALSE)
     ELSE bus' = [bus EXCEPT !.reads = @ + 1] /\ UNCHANGED <<at, program, queue, raised>>
  /\ UNCHANGED <<config, registers, chip, toff, enabled, idle, current, ifcnt, count, callbacks, by_user, commands,
                 attempts>>

FirstIfcnt ==
  /\ Holding /\ OnUart /\ ~IsRead /\ bus.phase = "ifcnt"
  /\ ifcnt' = count /\ bus' = [bus EXCEPT !.phase = "write", !.reads = 0]
  /\ UNCHANGED <<config, at, registers, chip, toff, enabled, idle, current, program, queue, count, callbacks, by_user,
                 raised, commands, lost, attempts>>

reg_write ==
  /\ Holding /\ OnUart /\ ~IsRead /\ bus.phase = "write"
  /\ \/ chip' = queue[1].val @@ chip /\ count' = (count + 1) % IfcntMod /\ UNCHANGED lost
     \/ Lost /\ UNCHANGED <<chip, count>>
  /\ bus' = [bus EXCEPT !.phase = "check", !.reads = 0]
  /\ UNCHANGED <<config, at, registers, toff, enabled, idle, current, program, queue, ifcnt, callbacks, by_user,
                 raised, commands, attempts>>

\* Mutant: a write that was not counted is taken for done
CountedAnyway == TRUE
WriteCounted == count = (ifcnt + 1) % IfcntMod

\* The counter is read again: the write is done, repeated or given up.
set_register ==
  /\ Holding /\ OnUart /\ ~IsRead /\ bus.phase = "check"
  /\ ifcnt' = count
  /\ IF WriteCounted \/ bus.tries = Retries THEN Leave(count, WriteCounted)
     ELSE bus' = [phase |-> "write", tries |-> bus.tries + 1, reads |-> 0] /\ UNCHANGED <<at, program, queue, raised>>
  /\ UNCHANGED <<config, registers, chip, toff, enabled, idle, current, count, callbacks, by_user, commands, lost,
                 attempts>>

-----------------------------------------------------------------------------
(* Commands and events *)

Counted == commands < MaxCommands /\ commands' = commands + 1
UserIs(state) == at = state /\ ~Busy("user") /\ ~Runs

\* Without a pin of its own the driver is enabled through toff, off at first.
_handle_connect ==
  /\ at = "config" /\ at' = "connect"
  /\ toff' = IF dedicated THEN -1 ELSE registers.toff
  /\ registers' = IF dedicated THEN registers ELSE [registers EXCEPT !.toff = 0]
  /\ program' = [program EXCEPT !["user"] = _init_registers]
  /\ UNCHANGED <<config, chip, enabled, idle, current, queue, bus, ifcnt, count, callbacks, by_user, raised,
                 commands, lost, attempts>>

\* All are sent again if one could not be, and the host gives up at last.
Connected ==
  /\ UserIs("connect")
  /\ attempts' = attempts + 1
  /\ IF ~raised THEN at' = "ready" /\ UNCHANGED <<program, raised>>
     ELSE IF attempts + 1 = Attempts THEN at' = "failed" /\ UNCHANGED <<program, raised>>
     ELSE program' = [program EXCEPT !["user"] = _init_registers] /\ raised' = FALSE /\ UNCHANGED at
  /\ UNCHANGED <<config, registers, chip, toff, enabled, idle, current, queue, bus, ifcnt, count, callbacks, by_user,
                 commands, lost>>

Quiet(steps) ==
  /\ UserIs("ready") /\ Counted
  /\ Take("user", steps)
  /\ UNCHANGED <<config, chip, toff, enabled, ifcnt, count, raised, lost, attempts>>

cmd_INIT_TMC == Quiet(_init_registers) /\ UNCHANGED <<at, idle, current, callbacks, by_user>>

cmd_DUMP_TMC == Quiet(Read) /\ UNCHANGED <<at, idle, current, callbacks, by_user>>

cmd_SET_TMC_FIELD(field, value) ==
  /\ Quiet(<<Write(field :> value, field_to_register[field])>>)
  /\ by_user' = by_user \cup {field}
  /\ UNCHANGED <<at, idle, current, callbacks>>

\* The hold current is kept.
cmd_SET_TMC_CURRENT(run) ==
  /\ family # "tmc2660"
  /\ Quiet(IF family = "tmc5160" THEN SetCurrent5160(run) ELSE SetCurrent2130(run))
  /\ current' = run
  /\ UNCHANGED <<at, idle, callbacks, by_user>>

\* Whoever asks for the time of the last move ends the idle time of the printer.
SET_TMC_CURRENT_2660(run) ==
  /\ family = "tmc2660"
  /\ Quiet(set_current(run)) /\ current' = run /\ idle' = FALSE
  /\ callbacks' = IF idle THEN Append(callbacks, [kind |-> "printing", run |-> run]) ELSE callbacks
  /\ UNCHANGED <<at, by_user>>

HomingBegins ==
  /\ HasVirtualPin
  /\ Quiet(handle_homing_move_begin) /\ at' = "homing"
  /\ UNCHANGED <<idle, current, callbacks, by_user>>

\* The move has ended; after an error there is none, and nothing is restored.
HomingEnds ==
  /\ UserIs("homing") /\ at' = "ready"
  /\ IF raised THEN UNCHANGED <<program, registers, queue, bus>> ELSE Take("user", handle_homing_move_end)
  /\ UNCHANGED <<config, chip, toff, enabled, idle, current, ifcnt, count, callbacks, by_user,
                 raised, commands, lost, attempts>>

Later(callback) == callbacks' = Append(callbacks, callback)

\* The enable line of the stepper changes.
handle_stepper_enable ==
  /\ at \in {"ready", "homing"} /\ ~Runs /\ Counted /\ enabled' = ~enabled
  /\ IF dedicated THEN UNCHANGED callbacks ELSE Later([kind |-> "enable", on |-> enabled'])
  /\ UNCHANGED <<config, at, registers, chip, toff, idle, current, program, queue, bus, ifcnt, count, by_user, raised,
                 lost, attempts>>

\* idle_timeout:printing and idle_timeout:ready; what the latter is to set is
\* worked out at once, for the former when the callback runs.
IdleEvent ==
  /\ family = "tmc2660" /\ at = "ready" /\ ~Runs /\ Counted /\ idle' = ~idle
  /\ Later(IF idle' THEN [kind |-> "ready", run |-> current \div 2] ELSE [kind |-> "printing", run |-> current])
  /\ UNCHANGED <<config, at, registers, chip, toff, enabled, current, program, queue, bus, ifcnt, count, by_user,
                 raised, lost, attempts>>

RunCallback(g) ==
  /\ callbacks # <<>> /\ ~Busy(g) /\ ~Runs /\ at # "failed"
  /\ LET c == Head(callbacks)
     IN  Take(g, CASE c.kind = "enable" -> _do_enable(c.on)
                   [] c.kind = "ready" -> set_current(c.run)
                   [] c.kind = "printing" -> set_current(current))
  /\ callbacks' = Tail(callbacks)
  /\ UNCHANGED <<config, at, chip, toff, enabled, idle, current, ifcnt, count, by_user, raised, commands, lost,
                 attempts>>

-----------------------------------------------------------------------------
(* What the configuration sets *)

TMCStealthchopHelper ==
  [TPWMTHRS |-> 5] @@ IF family \in {"tmc2130", "tmc5160"} THEN [en_pwm_mode |-> stealth, diag1_stall |-> FALSE]
                      ELSE [en_spreadCycle |-> ~stealth]

TMCCurrentHelper(amps) ==
  LET bits == Bits(amps, Vref(amps, amps)) IN [vsense |-> Vsense(amps, amps), IRUN |-> bits, IHOLD |-> bits]

TMC5160CurrentHelper(amps) ==
  LET scaler == GlobalScaler(amps)
      bits == Bits5160(amps, IF scaler = 0 THEN 256 ELSE scaler)
  IN  [GLOBALSCALER |-> scaler, IRUN |-> bits, IHOLD |-> bits]

TMC2130(amps) == [toff |-> Toff, TCOOLTHRS |-> 0] @@ TMCCurrentHelper(amps) @@ TMCStealthchopHelper
TMC2208(amps) == [toff |-> Toff] @@ TMCCurrentHelper(amps) @@ TMCStealthchopHelper
TMC2209(amps) == TMC2208(amps) @@ [TCOOLTHRS |-> 0]
TMC5160(amps) == [toff |-> Toff, TCOOLTHRS |-> 0] @@ TMC5160CurrentHelper(amps) @@ TMCStealthchopHelper
TMC2660(amps) == [toff |-> Toff, CS |-> Bits(amps, Vref(amps, amps)), VSENSE |-> Vsense(amps, amps), RDSEL |-> 0]

Configured(amps) ==
  CASE family = "tmc2130" -> TMC2130(amps)
    [] family = "tmc2208" -> TMC2208(amps)
    [] family = "tmc2209" -> TMC2209(amps)
    [] family = "tmc5160" -> TMC5160(amps)
    [] family = "tmc2660" -> TMC2660(amps)

InitTmc ==
  /\ family \in Families /\ dedicated \in BOOLEAN /\ stealth \in BOOLEAN
  /\ at = "config" /\ enabled = FALSE /\ toff = -1 /\ idle = FALSE
  /\ current \in Currents
  /\ registers = Configured(current)
  /\ chip = [toff |-> 9] @@ Configured(Min(Currents))    \* what an earlier session left
  /\ program = [g \in {"user"} \cup Callbacks |-> <<>>]
  /\ queue = <<>> /\ bus = [phase |-> "ifcnt", tries |-> 1, reads |-> 0]
  /\ ifcnt = -1 /\ count = IfcntMod - 1 /\ callbacks = <<>> /\ by_user = {} /\ raised = FALSE
  /\ commands = 0 /\ lost = 0 /\ attempts = 0

NextTmc ==
  \/ _handle_connect \/ Connected \/ cmd_INIT_TMC \/ cmd_DUMP_TMC \/ HomingBegins \/ HomingEnds
  \/ \E f \in Fields \cap {"toff", "TPWMTHRS"} : cmd_SET_TMC_FIELD(f, 7)
  \/ \E run \in Currents : cmd_SET_TMC_CURRENT(run) \/ SET_TMC_CURRENT_2660(run)
  \/ handle_stepper_enable \/ IdleEvent
  \/ SpiTransfer \/ _do_get_register \/ ReadLost \/ FirstIfcnt \/ reg_write \/ set_register
  \/ \E g \in {"user"} \cup Callbacks : Continue(g)
  \/ \E g \in Callbacks : RunCallback(g)

SpecTmc == InitTmc /\ [][NextTmc]_tmc_vars

-----------------------------------------------------------------------------
AtRest ==
  at = "ready" /\ ~raised /\ callbacks = <<>> /\ \A g \in DOMAIN program : ~Busy(g)

(* Once nobody writes, and unless an access was given up, the driver has in  *)
(* its registers what the host believes, whoever wrote in whatever order.    *)
(* Homing sets two thresholds past the shadow, which a user may have set.    *)
ChipAgrees ==
  AtRest => \A f \in Fields \ {"TCOOLTHRS"} :
    (f = "TPWMTHRS" /\ f \in by_user) \/ chip[f] = registers[f]

(* A driver that is enabled through its registers is on just if the stepper  *)
(* is enabled, unless the user has set the field.                            *)
OnIfEnabled ==
  AtRest /\ ~dedicated /\ "toff" \notin by_user => chip.toff = IF enabled THEN Toff ELSE 0

(* After homing the driver is in the mode that was configured.               *)
ModeRestored ==
  AtRest => /\ "en_pwm_mode" \in Fields => chip.en_pwm_mode = stealth /\ chip.diag1_stall = FALSE
            /\ "en_spreadCycle" \in Fields => chip.en_spreadCycle = ~stealth

(* The driver gets the current that was asked for last, half of it while a   *)
(* TMC2660 is idle, within one step; a TMC5160 at most what it is configured *)
(* with.                                                                     *)
CurrentIsAsked ==
  AtRest => /\ "CS" \in Fields => /\ chip.VSENSE = Vsense(IdleCurrent, IdleCurrent)
                                  /\ chip.CS = Bits(IdleCurrent, Vref(IdleCurrent, IdleCurrent))
            /\ "vsense" \in Fields => FromBits(chip.IRUN, chip.vsense) - current \in -5 .. 5
            /\ "GLOBALSCALER" \in Fields =>
                 FromBits5160(chip.IRUN) - Min({current, FromBits5160(31)}) \in -5 .. 5

=============================================================================
