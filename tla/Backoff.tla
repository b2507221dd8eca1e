------------------------------- MODULE Backoff -------------------------------
(***************************************************************************)
(* The delays between attempts to reconnect (shared/queue/backoff.go),     *)
(* which the publisher, the consumers and the event bus share:             *)
(* decorrelated jitter on int64 durations.                                 *)
(***************************************************************************)
EXTENDS Integers

CONSTANTS Base, Cap,    \* the fields, in nanoseconds
          DefaultBackoffBase, DefaultBackoffCap,
          Half          \* 2^63

VARIABLE prev           \* the last delay, 0 before the first

(* int64 arithmetic *)
Wrap(x) == ((x + Half) % (2 * Half)) - Half

base == IF Base <= 0 THEN DefaultBackoffBase ELSE Base
maxCap == IF Cap <= 0 THEN DefaultBackoffCap ELSE Cap

Init == prev = 0

Reset == prev' = 0

From == IF prev < base THEN base ELSE prev

(* base + rand.Int63n(span) *)
Drawn ==
  LET span == Wrap(Wrap(3 * From) - base) IN
  IF span <= 0 THEN {base} ELSE {Wrap(base + n) : n \in 0..(span - 1)}

Capped(sleep) == IF sleep > maxCap THEN maxCap ELSE sleep
Clamped(sleep) == IF Capped(sleep) < base THEN base ELSE Capped(sleep)

NextSleep == \E sleep \in Drawn : prev' = Clamped(sleep)

Next == NextSleep \/ Reset

Spec == Init /\ [][Next]_prev

(* Every delay lies between base and the cap (or is base, when the cap is    *)
(* smaller), also when tripling the last one has overflowed.                 *)
SleepBounded == prev # 0 => base <= prev /\ (prev <= maxCap \/ prev = base)

(* backoff.go:25: "sleep = min(cap, random_between(base, prevSleep*3))".     *)
Triples == prev' <= 3 * From

Durations ==
  /\ Base \in Int /\ Cap \in Int /\ Half \in Int /\ Half > 0
  /\ DefaultBackoffBase \in Int /\ DefaultBackoffBase > 0
  /\ DefaultBackoffCap \in Int /\ DefaultBackoffCap > 0

(* Tripling the longest delay does not overflow. *)
Moderate == 3 * base < Half /\ 3 * maxCap < Half
=============================================================================
