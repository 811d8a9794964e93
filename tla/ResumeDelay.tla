---------------------------- MODULE ResumeDelay -----------------------------
(***************************************************************************)
(* When a build that is resumed is resumed: the delays of planResume       *)
(* (usecase/buildengine.go 344-415) and the time at which a usage limit    *)
(* resets (usecase/buildclass.go 263-333), in milliseconds.                *)
(*                                                                         *)
(* BuildEngine lets a timer fire at any time after it was armed; this      *)
(* module says what time it is armed for.  The settings of the backend are *)
(* small against 2^62, so that doubling a delay does not overflow.         *)
(***************************************************************************)
EXTENDS Integers

Minute == 60000
Day == 24 * 60 * Minute

(* What a message "resets 3:30 pm" names.                                  *)
ClockTime == [hour : 0 .. 99, minute : 0 .. 99, meridiem : {"am", "pm", "none"}]

Hour24(c) ==
  CASE c.meridiem = "pm" /\ c.hour < 12 -> c.hour + 12
    [] c.meridiem = "am" /\ c.hour = 12 -> 0
    [] OTHER -> c.hour

TimeOfDay(c) == (Hour24(c) * 60 + c.minute) * Minute

(* The last local midnight before now; every day has 24 hours.             *)
IsMidnight(m, now) == m <= now /\ now < m + Day

(* The next such time, today or tomorrow, if there is one; {} is nil.      *)
ParseResetAt(c, midnight, now) ==
  IF Hour24(c) > 23 \/ c.minute > 59 THEN {}
  ELSE LET target == midnight + TimeOfDay(c)
       IN  {IF target <= now THEN target + Day ELSE target}

ClampDelay(resetAt, now, base, limitWait) ==
  LET waited == IF resetAt - now < base THEN base ELSE resetAt - now
  IN  IF waited > limitWait THEN limitWait ELSE waited

Backoff(base, cap, streak) ==
  LET doubled[i \in 0 .. streak] ==
        IF i = 0 THEN base
        ELSE IF 2 * doubled[i - 1] >= cap THEN cap ELSE 2 * doubled[i - 1]
  IN  IF doubled[streak] > cap THEN cap ELSE doubled[streak]

(* Without a reset time a limit is waited out for the configured time.     *)
LimitDelay(resets, now, base, limitWait) ==
  IF resets = {} THEN limitWait
  ELSE ClampDelay(CHOOSE r \in resets : TRUE, now, base, limitWait)

(* The sweep fires what the timer has not (sweepPendingResumes).           *)
Due(resumeAt, now) == resumeAt <= now
=============================================================================
