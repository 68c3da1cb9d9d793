------------------------------ MODULE EventClock ------------------------------
(***************************************************************************)
(* The arithmetic of the server-authoritative competition timer            *)
(* (backend/services/eventService.ts, getEventStatus).                     *)
(*                                                                         *)
(* The program keeps instants in milliseconds and durations in whole       *)
(* seconds; every conversion is a Math.floor.  Here an instant is a number *)
(* of ticks, TicksPerSecond of them to the second, so that the rounding of *)
(* the program is kept.                                                    *)
(***************************************************************************)
EXTENDS Integers

CONSTANT TicksPerSecond

ASSUME TicksAssumption == TicksPerSecond \in Nat \ {0}

\* SQL NULL in a timestamp column.
None == -1

NonNeg(n) == IF n < 0 THEN 0 ELSE n

\* Mutant: Math.ceil.
SecondsRoundedUp(ticks) == (ticks + TicksPerSecond - 1) \div TicksPerSecond

\* Math.floor of a span of ticks, in seconds.
Seconds(ticks) == ticks \div TicksPerSecond

\* Active seconds since startedAt, less the whole seconds spent in pauses.
ElapsedSeconds(startedAt, pausedSecs, t) ==
  NonNeg(Seconds(t - startedAt) - pausedSecs)

RemainingSeconds(startedAt, pausedSecs, dur, t) ==
  NonNeg(dur - ElapsedSeconds(startedAt, pausedSecs, t))

\* scheduledEndTime of a running event.
ScheduledEnd(startedAt, pausedSecs, dur) ==
  startedAt + (dur + pausedSecs) * TicksPerSecond

\* The total after a pause from pausedAt to t.
PausedSeconds(pausedSecs, pausedAt, t) ==
  pausedSecs + NonNeg(Seconds(t - pausedAt))
=============================================================================
