------------------------------- MODULE Instant -------------------------------
(***************************************************************************)
(* Arithmetic on the 16-bit connection event counter and on the "instant"  *)
(* at which a link-layer control procedure takes effect.  CounterMod is    *)
(* 2^16 in the controller; the model checker uses a smaller even modulus.  *)
(***************************************************************************)
EXTENDS Integers

CONSTANT CounterMod    \* size of the event counter's range, 65536 in the code

ASSUME CounterModAssumption == CounterMod \in Nat /\ CounterMod >= 4 /\ CounterMod % 2 = 0

Counter == 0 .. CounterMod - 1

\* 0x7FFF, the largest distance that counts as "ahead".
HalfRange == (CounterMod \div 2) - 1

\* Faulty variant: a counter that is too wide.
PlusNoWrap(e, n) == e + n

\* The uint16_t result of adding n to a counter.
Plus(e, n) == (e + n) % CounterMod

\* is_instant_passed: the instant lies behind the event counter.
InstantPassed(instant, e) == (instant - e) % CounterMod > HalfRange

\* is_instant_not_passed: the instant is now or ahead of the event counter.
InstantNotPassed(instant, e) == (instant - e) % CounterMod < HalfRange

\* is_instant_reached_or_passed.
InstantReachedOrPassed(instant, e) == (e - instant) % CounterMod <= HalfRange
=============================================================================
