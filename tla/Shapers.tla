------------------------------- MODULE Shapers -------------------------------
(***************************************************************************)
(* The traffic shapes of an application (load/shaper, driver/parser/rate): *)
(* how many messages a shape asks for in an interval, as an exact multiple *)
(* of 1 / Scale(r). Time is counted in ticks.                              *)
(*                                                                         *)
(* A rate is a function on the shapes the scenario gives it, as the        *)
(* structure with one optional field per shape that is decoded from YAML.  *)
(***************************************************************************)
EXTENDS Integers, FiniteSets, FiniteSetsExt

CONSTANTS
  TicksPerSecond,  \* resolution of the clock
  RateUnit         \* resolution of the rate of the auto shaper

ASSUME ShaperAssumption == TicksPerSecond \in Nat \ {0} /\ RateUnit \in Nat \ {0}

-----------------------------------------------------------------------------
(* The structure Rate *)
IsRate(r) ==
  /\ DOMAIN r \subseteq {"constant", "slope", "wave", "auto"}
  /\ "constant" \in DOMAIN r => r.constant \in Int
  /\ "slope" \in DOMAIN r => r.slope.start \in Int /\ r.slope.increment \in Int
  /\ "wave" \in DOMAIN r =>
       r.wave.min \in Int /\ r.wave.max \in Int /\ r.wave.period \in Int
  /\ "auto" \in DOMAIN r => r.auto.increase \in Int /\ r.auto.decrease \in Int

(* Check of the scenario parser *)

SlopeCheck(s) == s.start >= 0

WaveCheck(w) == w.min >= 0 /\ w.max >= 0 /\ w.min <= w.max /\ w.period > 0

(* decrease is given in halves of the rate *)
AutoCheck(a) == a.increase > 0 /\ a.decrease \in 0 .. 2

RateCheck(r) ==
  /\ Cardinality(DOMAIN r) = 1
  /\ "constant" \in DOMAIN r => r.constant >= 0
  /\ "slope" \in DOMAIN r => SlopeCheck(r.slope)
  /\ "wave" \in DOMAIN r => WaveCheck(r.wave)
  /\ "auto" \in DOMAIN r => AutoCheck(r.auto)

(* The first shape that is set is taken; no rate at all is the constant 0. *)
ParseRate(r) ==
  CASE DOMAIN r = {} -> [shape |-> "constant", frequency |-> 0]
    [] "constant" \in DOMAIN r -> [shape |-> "constant", frequency |-> r.constant]
    [] "slope" \in DOMAIN r ->
         [shape |-> "slope", start |-> r.slope.start, increment |-> r.slope.increment]
    [] "auto" \in DOMAIN r ->
         [shape |-> "auto", increase |-> r.auto.increase, decrease |-> r.auto.decrease]
    [] "wave" \in DOMAIN r ->
         [shape |-> "wave", min |-> r.wave.min, max |-> r.wave.max, period |-> r.wave.period]

-----------------------------------------------------------------------------
(* GetNumMessagesInInterval of the interval from tick a to tick b *)

Abs(n) == IF n < 0 THEN -n ELSE n

ConstantMessages(s, a, b) == Max({(b - a) * s.frequency, 0})

(* Fault: the interval is not restricted to where the slope is positive.   *)
SlopeUnrestricted(s, a, b) ==
  Max({1, Abs(s.increment)})
    * (s.increment * (b * b - a * a) + 2 * s.start * TicksPerSecond * (b - a))

(* Times are scaled by |increment|, which makes the zero point an integer. *)
SlopeMessages(s, a, b) ==
  LET k == s.increment
      d == s.start * TicksPerSecond
      clip(x) == IF k > 0 THEN Max({-d, k * x}) ELSE Min({d, -k * x})
      from == clip(a)
      to == clip(b)
  IN IF k = 0 THEN 2 * d * (b - a)
     ELSE (IF k > 0 THEN 1 ELSE -1) * (to * to - from * from) + 2 * d * (to - from)

(* The sine at the quarters of a period; ticks are quarters of the period, *)
(* and 355/113 stands for pi.                                              *)
Sine(q) == CASE q % 4 = 1 -> 1 [] q % 4 = 3 -> -1 [] OTHER -> 0

WaveIntegral(s, q) ==
  s.period * (355 * q * (s.min + s.max) + 226 * (s.min - s.max) * Sine(q))

WaveMessages(s, a, b) == WaveIntegral(s, b) - WaveIntegral(s, a)

AutoMessages(rate, a, b) == rate * (b - a)

(* Messages(s, rate, a, b) / Scale(s) messages are due. *)
Scale(s) ==
  CASE s.shape = "constant" -> TicksPerSecond
    [] s.shape = "slope" ->
         2 * TicksPerSecond * TicksPerSecond * Max({1, Abs(s.increment)})
    [] s.shape = "wave" -> 8 * 355
    [] s.shape = "auto" -> TicksPerSecond * RateUnit

Messages(s, rate, a, b) ==
  CASE s.shape = "constant" -> ConstantMessages(s, a, b)
    [] s.shape = "slope" -> SlopeMessages(s, a, b)
    [] s.shape = "wave" -> WaveMessages(s, a, b)
    [] s.shape = "auto" -> AutoMessages(rate, a, b)

-----------------------------------------------------------------------------
(* The area below the frequency curve from the start to tick t, where the  *)
(* frequency is positive: a trapezoid, or the triangle before the zero     *)
(* point; of a wave, the mean frequency over full and half periods.        *)
AreaIsKnown(s, t) == s.shape = "wave" => t % 2 = 0

Area(s, t) ==
  CASE s.shape = "constant" -> s.frequency * t
    [] s.shape = "slope" ->
         LET d == s.start * TicksPerSecond
             f(x) == d + s.increment * x
         IN IF f(t) >= 0 THEN Max({1, Abs(s.increment)}) * t * (d + f(t)) ELSE d * d
    [] s.shape = "wave" -> s.period * 355 * t * (s.min + s.max)
==============================================================================
