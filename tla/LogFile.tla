------------------------------ MODULE LogFile -------------------------------
(***************************************************************************)
(* base/LogFile.cpp over FileUtil::AppendFile, as operators from a LogFile  *)
(* to a LogFile.  Of the files that were closed only their lines are kept,  *)
(* in one sequence; of the lines of the open one, flushed have left the     *)
(* buffer of its FILE.                                                      *)
(***************************************************************************)
EXTENDS TimeZone

CONSTANTS rollSize_, flushInterval_, checkEveryN_

kRollPerSeconds_ == 60 * 60 * 24

Midnight(t) == (t \div kRollPerSeconds_) * kRollPerSeconds_

AppendFile == [lines |-> << >>, flushed |-> 0, writtenBytes_ |-> 0]

neverFlush(lf) == lf

\* fflush().
flush(lf) == [lf EXCEPT !.file_.flushed = Len(lf.file_.lines)]
-----------------------------------------------------------------------------
\* The part of its name that tells the files of one process apart: the time at
\* which the file was opened, which is also lastRoll_.
getLogFileName(now) ==
  LET tm == gmtime_r(now) IN <<tm.year, tm.month, tm.day, tm.hour, tm.min, tm.sec>>

rollFileAlways(lf, now) ==
  [lf EXCEPT !.closed = @ \o lf.file_.lines, !.file_ = AppendFile,
             !.lastRoll_ = now, !.lastFlush_ = now, !.startOfPeriod_ = Midnight(now)]

\* The new AppendFile replaces the old one, which fclose() flushes.
rollFile(lf, now) ==
  IF now > lf.lastRoll_
  THEN [lf EXCEPT !.closed = @ \o lf.file_.lines, !.file_ = AppendFile,
                  !.lastRoll_ = now, !.lastFlush_ = now, !.startOfPeriod_ = Midnight(now)]
  ELSE lf

\* The constructor; its clock is past lastRoll_ = 0.
NewLogFile(now) ==
  [closed |-> << >>, file_ |-> AppendFile, count_ |-> 0,
   startOfPeriod_ |-> Midnight(now), lastRoll_ |-> now, lastFlush_ |-> now]

\* AppendFile::append() of lines with len bytes in all, of which fwrite() took the
\* first n lines before it failed.
write(lf, lines, len, n) ==
  [lf EXCEPT !.file_.lines = @ \o SubSeq(lines, 1, n), !.file_.writtenBytes_ = @ + len]

\* Every checkEveryN_ appends the clock is read.
checkTimeNever(lf, now) == lf

checkTime(lf, now) ==
  CASE lf.count_ < checkEveryN_ -> lf
    [] lf.count_ >= checkEveryN_ /\ Midnight(now) # lf.startOfPeriod_ ->
         rollFile([lf EXCEPT !.count_ = 0], now)
    [] lf.count_ >= checkEveryN_ /\ Midnight(now) = lf.startOfPeriod_
         /\ now - lf.lastFlush_ > flushInterval_ ->
         flush([lf EXCEPT !.count_ = 0, !.lastFlush_ = now])
    [] OTHER -> [lf EXCEPT !.count_ = 0]

append_unlocked(lf, lines, len, n, now) ==
  LET written == write(lf, lines, len, n)
  IN  IF written.file_.writtenBytes_ > rollSize_
      THEN rollFile(written, now)
      ELSE checkTime([written EXCEPT !.count_ = @ + 1], now)
=============================================================================
