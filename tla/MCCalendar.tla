----------------------------- MODULE MCCalendar -----------------------------
(* Four weeks of four-hour days; the clock goes forward on day 7, in the
   third hour of the week's first weekday, and back on day 15. *)
EXTENDS Calendar

Weekly == [weekdays : {{0}, {1}, {2, 6}, {0, 1, 3}}, hour : 0 .. DayLen - 1]
Daily == [weekdays : {0 .. 6}, hour : 0 .. DayLen - 1]
MCSchedules == Daily \cup Weekly
SundayNight == [weekdays : {{0}}, hour : {2}]
=============================================================================
