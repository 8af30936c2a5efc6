----------------------------- MODULE Interpolate ----------------------------
(* How a thermometer turns what it reads into a temperature, and back: a     *)
(* line between any two samples of a table.  Slopes and offsets are          *)
(* fractions; a key or value asked for is a fraction too.                    *)
EXTENDS Integers, Sequences, SequencesExt

CONSTANTS
  Keys, Values,      \* of the samples
  MaxSamples         \* bound: samples in a table

VARIABLES
  samples,           \* the table, sorted by key
  lines,             \* what the constructor makes of it: keys and slopes
  range              \* the readings between which the thermometer may report

interpolate_vars == <<samples, lines, range>>

Frac(n, d) == IF d < 0 THEN [n |-> -n, d |-> -d] ELSE [n |-> n, d |-> d]
Same(a, b) == a.n * b.d = b.n * a.d
Below(a, b) == a.n * b.d <= b.n * a.d
Whole(i) == Frac(i, 1)

(* The line through two samples, value = (gain * key + offset) / run. *)
Line(from, to) ==
  [gain |-> to.value - from.value, run |-> to.key - from.key,
   offset |-> from.value * (to.key - from.key) - from.key * (to.value - from.value)]

SameLine(a, b) ==
  Same(Frac(a.gain, a.run), Frac(b.gain, b.run)) /\ Same(Frac(a.offset, a.run), Frac(b.offset, b.run))

(* __init__: a sample on the line before it is left out, and the next line   *)
(* starts from the sample before that one.                                   *)
AddSampleToFirst(acc, sample) ==      \* mutant: every line starts from the first sample
  LET line == Line(acc.last, sample)
  IN  IF acc.slopes # <<>> /\ SameLine(Last(acc.slopes), line) THEN acc
      ELSE [acc EXCEPT !.keys = Append(@, sample.key), !.slopes = Append(@, line)]

AddSample(acc, sample) ==
  LET line == Line(acc.last, sample)
  IN  IF acc.slopes # <<>> /\ SameLine(Last(acc.slopes), line) THEN acc
      ELSE [last |-> sample, keys |-> Append(acc.keys, sample.key), slopes |-> Append(acc.slopes, line)]

LinearInterpolate(table) ==
  LET made == FoldLeft(AddSample, [last |-> table[1], keys |-> <<>>, slopes |-> <<>>], Tail(table))
  IN  [keys |-> made.keys, slopes |-> Append(made.slopes, Last(made.slopes))]

(* The value at a key: the line up to the first key beyond it. *)
interpolate(li, key) ==
  LET beyond == {i \in DOMAIN li.keys : key < li.keys[i]}
      line == li.slopes[IF beyond = {} THEN Len(li.slopes) ELSE CHOOSE i \in beyond : \A j \in beyond : i <= j]
  IN  Frac(line.gain * key + line.offset, line.run)

(* The key of a value: the first line whose end is not before the value.     *)
End(li, i) == Frac(li.slopes[i].gain * li.keys[i] + li.slopes[i].offset, li.slopes[i].run)

ReachesRising(li, value) == {i \in DOMAIN li.keys : Below(value, End(li, i))}   \* mutant: tables rise

Reaches(li, value) ==
  LET rising == Len(li.keys) > 1 /\ Below(End(li, 1), Last([i \in DOMAIN li.keys |-> End(li, i)]))
  IN  {i \in DOMAIN li.keys : IF rising THEN Below(value, End(li, i)) ELSE Below(End(li, i), value)}

reverse_interpolate(li, value) ==
  LET valid == Reaches(li, value) \cup {Len(li.slopes)}
      line == li.slopes[CHOOSE i \in valid : \A j \in valid : i <= j]
  IN  Frac(value.n * line.run - line.offset * value.d, line.gain * value.d)

-----------------------------------------------------------------------------
(* setup_minmax: the readings that belong to the two temperatures, in order. *)
setup_minmax(min, max) ==
  /\ range = <<>>
  /\ LET a == reverse_interpolate(lines, Whole(min))
         b == reverse_interpolate(lines, Whole(max))
     IN  range' = IF Below(a, b) THEN <<a, b, min, max>> ELSE <<b, a, min, max>>
  /\ UNCHANGED <<samples, lines>>

Tables ==
  {t \in SeqOf([key : Keys, value : Values], MaxSamples) :
     /\ Len(t) > 1
     /\ \A i \in 1 .. Len(t) - 1 : t[i].key < t[i + 1].key
     /\ \/ \A i \in 1 .. Len(t) - 1 : t[i].value < t[i + 1].value
        \/ \A i \in 1 .. Len(t) - 1 : t[i].value > t[i + 1].value}

InitInterpolate == samples \in Tables /\ lines = LinearInterpolate(samples) /\ range = <<>>

NextInterpolate == \E min, max \in Values : min < max /\ setup_minmax(min, max)

-----------------------------------------------------------------------------
OnOneLine(a, b, c) == SameLine(Line(a, b), Line(b, c))

(* The value at a sample is that of the sample: "Code to perform linear      *)
(* interpolation" (thermometer.py).                                          *)
MeetsSamples ==
  \A i \in DOMAIN samples : Same(interpolate(lines, samples[i].key), Whole(samples[i].value))

(* The same, for the tables of which no three samples lie on one line.       *)
MeetsSamplesOff ==
  (\A i \in 1 .. Len(samples) - 2 : ~OnOneLine(samples[i], samples[i + 1], samples[i + 2])) => MeetsSamples

(* The readings between which the thermometer may report are those whose     *)
(* temperatures are allowed, whether the table rises or falls.               *)
RangeIsRight ==
  range # <<>> =>
    \A key \in Keys :
      LET value == interpolate(lines, key)
      IN  (Below(range[1], Whole(key)) /\ Below(Whole(key), range[2]))
            <=> (Below(Whole(range[3]), value) /\ Below(value, Whole(range[4])))

=============================================================================
