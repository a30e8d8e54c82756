------------------------------- MODULE Logger -------------------------------
(***************************************************************************)
(* base/Logging.cpp and base/LogStream.h: how a Logger makes one line.  A   *)
(* FixedBuffer takes a piece whole or not at all, so of a line only its     *)
(* length and its time stamp are kept.                                      *)
(***************************************************************************)
EXTENDS TimeZone, Quantities

CONSTANTS NoZone,       \* g_logTimeZone that is not valid(): UTC
          BaseNameSize, LineNumber

kSmallBuffer == 4000
kMaxNumericSize == 32

\* FixedBuffer::append(), for a buffer in which length bytes are used.
appendTo(length, len) == IF kSmallBuffer - length > len THEN length + len ELSE length

\* convert(): how many digits a number that is not negative takes.
convert(value) == CHOOSE n \in 1..10 : value < 10^n /\ (n > 1 => value >= 10^(n - 1))

formatInteger(length, v) ==
  IF kSmallBuffer - length >= kMaxNumericSize THEN length + convert(v) ELSE length

\* finish(): " - ", the file, ':', the line and the newline.
finish(length) ==
  LET named == appendTo(appendTo(appendTo(length, 3), BaseNameSize), 1)
  IN  appendTo(formatInteger(named, LineNumber), 1)

\* The time, the thread and the level, and then the message.
Text(zone, message) ==
  LET header == 17 + (IF zone = NoZone THEN 9 ELSE 8) + 6 + 6
  IN  finish(appendTo(header, message))
-----------------------------------------------------------------------------
\* What a thread knows before its first line.
NoTime == [t_lastSecond |-> 0, t_time |-> << >>]

\* The numbers that are printed.
Clock(zone, seconds) ==
  LET tm == IF zone = NoZone THEN gmtime_r(seconds) ELSE toLocalTime(zone, seconds).tm
  IN  <<tm.year, tm.month, tm.day, tm.hour, tm.min, tm.sec>>

formatTimeOnce(cache, zone, seconds) ==
  IF cache.t_time = << >> THEN [t_lastSecond |-> seconds, t_time |-> Clock(zone, seconds)] ELSE cache

\* The thread's t_lastSecond and t_time after formatTime().
formatTime(cache, zone, seconds) ==
  IF seconds # cache.t_lastSecond
  THEN [t_lastSecond |-> seconds, t_time |-> Clock(zone, seconds)]
  ELSE cache
=============================================================================
