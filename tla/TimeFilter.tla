----------------------------- MODULE TimeFilter -----------------------------
(***************************************************************************)
(* pkg/timefilter: which modification times --since, --until, --max-age and  *)
(* --min-age let through.  Time is counted in ticks of local time, Day of    *)
(* them to a day; a duration is a signed machine integer of Width bits, as   *)
(* time.Duration is one of 64 bits and nanoseconds.  Days without midnight   *)
(* and changes of the clock are left out.                                    *)
(***************************************************************************)
EXTENDS Integers, Sequences, FiniteSets

CONSTANTS
  Day,    \* ticks of a day
  Width,  \* bits of a duration
  Unit    \* ticks of each unit of a duration

\* Two's complement arithmetic.
Wrapped(n) == ((n + 2^(Width - 1)) % 2^Width) - 2^(Width - 1)

\* parseDuration: the sum of value times unit, in the given order; no pair at
\* all is an error.
ParseDuration(pairs) ==
  LET sum[n \in 0..Len(pairs)] ==
        IF n = 0 THEN 0
        ELSE Wrapped(sum[n - 1] + Wrapped(pairs[n].value * Unit[pairs[n].unit]))
  IN sum[Len(pairs)]

\* parseTimeValue: an RFC 3339 instant, or a date, which is its midnight.
Instant(t) == [kind |-> "instant", at |-> t]
Date(day) == [kind |-> "date", at |-> day * Day]

\* NewTimeFilter: the lower and the upper bounds; <<>> where a flag is absent,
\* an error where a duration has no unit.
NewTimeFilter(since, until, maxAge, minAge, now) ==
  [since |-> since \o [i \in DOMAIN maxAge |-> Instant(now - ParseDuration(maxAge[i]))],
   until |-> until \o [i \in DOMAIN minAge |-> Instant(now - ParseDuration(minAge[i]))]]

\* includeByTimeBound: a date is the whole day.
IncludeByTimeBound(mtime, bound, isUntil) ==
  CASE isUntil /\ bound.kind = "date" -> mtime < (bound.at \div Day) * Day + Day
    [] isUntil /\ bound.kind = "instant" -> mtime <= bound.at
    [] ~isUntil -> mtime >= bound.at

\* IncludeByTimeFilter: all bounds hold.
IncludeByTimeFilter(filter, mtime) ==
  /\ \A i \in DOMAIN filter.since : IncludeByTimeBound(mtime, filter.since[i], FALSE)
  /\ \A i \in DOMAIN filter.until : IncludeByTimeBound(mtime, filter.until[i], TRUE)

-----------------------------------------------------------------------------
(* What the flags mean: a file is let through if it was modified no earlier  *)
(* than since, no later than until, and its age is between the two ages.     *)

Meant(pairs) == LET sum[n \in 0..Len(pairs)] ==
                      IF n = 0 THEN 0 ELSE sum[n - 1] + pairs[n].value * Unit[pairs[n].unit]
                IN sum[Len(pairs)]

\* The duration has a value the program can hold.
Holdable(pairs) == \A n \in DOMAIN pairs : Meant(SubSeq(pairs, 1, n)) < 2^(Width - 1)

\* Every moment of a date belongs to it.
From(bound) == bound.at
To(bound) == IF bound.kind = "date" THEN bound.at + Day - 1 ELSE bound.at

Wanted(since, until, maxAge, minAge, now, mtime) ==
  /\ \A i \in DOMAIN since : From(since[i]) <= mtime
  /\ \A i \in DOMAIN until : mtime <= To(until[i])
  /\ \A i \in DOMAIN maxAge : now - mtime <= Meant(maxAge[i])
  /\ \A i \in DOMAIN minAge : now - mtime >= Meant(minAge[i])
=============================================================================
