------------------------------ MODULE Schedule ------------------------------
(***************************************************************************)
(* When the next pass runs (internal/schedule/schedule.go).                *)
(*                                                                         *)
(* Ticks are absolute: a host's passes are due offset past each boundary   *)
(* of its interval, boundaries being counted from the epoch, and while the *)
(* remote fails the boundaries are those of a multiple of the interval.    *)
(* A time is its distance from the epoch and may lie before it.            *)
(***************************************************************************)
EXTENDS Integers

CONSTANT Longest    \* math.MaxInt64, the longest Duration there is

MaxBackoff == 8

\* New, for an interval and a splay that config.Validate accepts.
New(hash, interval, splay) ==
  [interval |-> interval, offset |-> IF splay > 0 THEN hash % splay ELSE 0, upstream |-> 0]

Backoff(s) ==
  CASE s.upstream = 0 -> 1
    [] s.upstream \in {1, 2} -> 2 * s.upstream
    [] OTHER -> MaxBackoff

\* Only an upstream failure backs off, and only up to the ceiling.
RecordUpstreamOnly(s, failure) ==                 \* defect: a local failure does not reset
  CASE failure = "upstream" -> IF Backoff(s) < MaxBackoff THEN [s EXCEPT !.upstream = @ + 1] ELSE s
    [] failure = "none"     -> [s EXCEPT !.upstream = 0]
    [] OTHER                -> s
Record(s, failure) ==
  CASE failure # "upstream" -> [s EXCEPT !.upstream = 0]
    [] failure = "upstream" /\ Backoff(s) < MaxBackoff -> [s EXCEPT !.upstream = @ + 1]
    [] OTHER -> s

-----------------------------------------------------------------------------
(* The arithmetic of Next.                                                 *)

\* The interval times the multiplier, which stops at the longest duration.
Every(s) == IF s.interval > Longest \div Backoff(s) THEN Longest ELSE s.interval * Backoff(s)

\* time.Sub stops at the ends of a Duration.
Elapsed(now) ==
  CASE now > Longest      -> Longest
    [] now < -Longest - 1 -> -Longest - 1
    [] OTHER              -> now

\* The remainder of Go takes the sign of the dividend.
Remainder(a, b) == IF a < 0 THEN -((-a) % b) ELSE a % b

Phase(now, every) ==
  LET phase == Remainder(Elapsed(now), every) IN IF phase < 0 THEN phase + every ELSE phase

\* From now to the first tick after it: one that is due now has been missed.
WaitFromNow(s, now) == Every(s)                   \* defect: counted from now, so overruns add up
WaitUntilDue(s, now) ==                           \* defect: a tick that is due now is not past
  LET delay == (s.offset % Every(s)) - Phase(now, Every(s))
  IN  IF delay < 0 THEN delay + Every(s) ELSE delay
Wait(s, now) ==
  LET delay == (s.offset % Every(s)) - Phase(now, Every(s))
  IN  IF delay <= 0 THEN delay + Every(s) ELSE delay

Next(s, now) == now + Wait(s, now)
=============================================================================
