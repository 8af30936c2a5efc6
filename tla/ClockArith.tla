----------------------------- MODULE ClockArith -----------------------------
(***************************************************************************)
(* The firmware's clock: an unsigned counter of fixed width that rolls     *)
(* over, and the signed comparison the code uses for every time            *)
(* (timer_is_before in src/hal/common/timer_irq.c and its copies in the    *)
(* Linux port).  2^32 becomes 2 * HalfRange, so that small                 *)
(* instances roll over within a few ticks.                                 *)
(***************************************************************************)
EXTENDS Integers

CONSTANT HalfRange   \* 0x80000000 in the code: half of the counter's range

ASSUME HalfRangeAssumption == HalfRange \in Nat \ {0}

Modulus == 2 * HalfRange
Time == 0 .. (Modulus - 1)

\* A counter moved by d ticks, |d| <= Modulus (uint32_t addition).
Plus(a, d) ==
  LET s == a + d
  IN  IF s >= Modulus THEN s - Modulus ELSE IF s < 0 THEN s + Modulus ELSE s

\* (int32_t)(a - b): the difference in -HalfRange .. HalfRange - 1.
Diff(a, b) ==
  LET s == a - b
  IN  IF s >= HalfRange THEN s - Modulus
      ELSE IF s < -HalfRange THEN s + Modulus ELSE s

timer_is_before(time1, time2) == Diff(time1, time2) < 0
=============================================================================
