---------------------------- MODULE AsyncLogging ----------------------------
(***************************************************************************)
(* base/AsyncLogging.cpp: threads make lines (Logger) and append them to    *)
(* currentBuffer_; one thread takes the buffers and writes them to a        *)
(* LogFile; the owner stops it.  Each use of mutex_ is one step.  A wait    *)
(* on cond_ has a timeout, so it may end at any time, and whether append()  *)
(* notified makes no difference to what can happen.                         *)
(*                                                                         *)
(* A line is known by its place in lines.  A buffer is the sequence of its  *)
(* lines, and Null is the pointer to no buffer.                             *)
(***************************************************************************)
EXTENDS LogFile, Logger, SequencesExt, TLC

CONSTANTS Fronts,         \* threads that log
          Messages,       \* lengths of messages
          LogZone,        \* the zone that setTimeZone() may install
          Zones,          \* zones for which the conversions are compared
          Starts, Steps,  \* the clock's first values, and how far it moves at once
          Instants,       \* times at which the conversions are compared
          Amounts,        \* quantities to print, as in Quantities.tla
          kLargeBuffer, MaxBuffers, \* the size of a buffer, and the limit of 25
          MaxLines, MaxTicks,       \* bounds: lines made, and moves of the clock
          Null

ASSUME LoggingAssumption ==
  /\ rollSize_ \in Nat /\ flushInterval_ \in Nat /\ checkEveryN_ \in Nat \ {0}
  /\ kLargeBuffer > kSmallBuffer /\ MaxBuffers >= 2
  /\ \A t \in Starts : t > 0
  /\ \A d \in Steps : d > 0

VARIABLES now, ticks,
          zone, zoneSet,  \* g_logTimeZone, and whether it was changed in this second
          cache,          \* t_lastSecond and t_time of each thread
          lines,          \* lengths of the lines made, in the order of the append() calls
          lost, failed,   \* lines dropped or refused; whether fwrite() failed
          currentBuffer_, nextBuffer_, buffers_, newBuffer1, newBuffer2, buffersToWrite,
          place, wrote,   \* where the logging thread is
          running_, owner, aborted,
          output, late    \* the LogFile; appends to a file whose day is over

clock == <<now, ticks>>
loggers == <<zone, zoneSet, cache, lines>>
shared == <<currentBuffer_, nextBuffer_, buffers_>>
own == <<newBuffer1, newBuffer2, buffersToWrite, wrote>>
file == <<output, late>>
control == <<running_, owner, aborted>>
fate == <<lost, failed>>
vars == <<clock, loggers, fate, shared, own, place, control, file>>

Alive == ~aborted
lengthOf(buffer) == FoldSeq(LAMBDA i, n : lines[i] + n, 0, buffer)
-----------------------------------------------------------------------------
(* The threads that log.                                                   *)

SetTimeZone ==
  /\ Alive /\ zone = NoZone
  /\ zone' = LogZone /\ zoneSet' = TRUE
  /\ UNCHANGED <<clock, cache, lines, fate, shared, own, place, control, file>>

appendOver(len) ==
  /\ currentBuffer_' = IF kLargeBuffer - lengthOf(currentBuffer_) > len
                       THEN Append(currentBuffer_, Len(lines) + 1) ELSE <<Len(lines) + 1>>
  /\ UNCHANGED <<nextBuffer_, buffers_>>

\* append() of a line of len bytes.
append(len) ==
  IF kLargeBuffer - lengthOf(currentBuffer_) > len
  THEN /\ currentBuffer_' = Append(currentBuffer_, Len(lines) + 1)
       /\ UNCHANGED <<nextBuffer_, buffers_>>
  ELSE /\ buffers_' = Append(buffers_, currentBuffer_)
       /\ currentBuffer_' = <<Len(lines) + 1>>     \* nextBuffer_, or a new one
       /\ nextBuffer_' = Null

\* A Logger is made with a message of m bytes and destroyed, which hands its line
\* to append(); nothing else depends on when it was made.  After a FATAL line the
\* program flushes stdout and aborts.
Log(t, m, fatal) ==
  /\ Alive /\ Len(lines) < MaxLines
  /\ cache' = [cache EXCEPT ![t] = formatTime(@, zone, now)]
  /\ append(Text(zone, m))
  /\ lines' = Append(lines, Text(zone, m))
  /\ aborted' = fatal
  /\ UNCHANGED <<clock, zone, zoneSet, fate, own, place, running_, owner, file>>
-----------------------------------------------------------------------------
(* threadFunc().                                                           *)

\* The appends to the current file after its day, once output is lf.
LateAfter(lf) ==
  IF Midnight(now) = lf.startOfPeriod_ THEN 0 ELSE late + 1

Begin ==
  /\ Alive /\ place = "born"
  /\ output' = NewLogFile(now)
  /\ place' = "loop"
  /\ UNCHANGED <<clock, loggers, fate, shared, own, control, late>>

Loop ==
  /\ Alive /\ place = "loop"
  /\ IF running_
     THEN place' = "lock" /\ UNCHANGED output
     ELSE place' = "done" /\ output' = flush(output)
  /\ UNCHANGED <<clock, loggers, fate, shared, own, control, late>>

Wait ==
  /\ Alive /\ place = "lock" /\ buffers_ = << >>
  /\ place' = "waiting"
  /\ UNCHANGED <<clock, loggers, fate, shared, own, control, file>>

\* The rest of the critical section.
Swap ==
  /\ Alive
  /\ (place = "lock" /\ buffers_ # << >>) \/ place = "waiting"
  /\ buffersToWrite' = Append(buffers_, currentBuffer_)
  /\ buffers_' = << >>
  /\ currentBuffer_' = newBuffer1 /\ newBuffer1' = Null
  /\ IF nextBuffer_ = Null
     THEN nextBuffer_' = newBuffer2 /\ newBuffer2' = Null
     ELSE UNCHANGED <<nextBuffer_, newBuffer2>>
  /\ wrote' = 0 /\ place' = "taken"
  /\ UNCHANGED <<clock, loggers, fate, control, file>>

\* Too many buffers: a notice (line 0, with its length) and only the first two.
NoticeLen == 80

Drop ==
  /\ Alive /\ place = "taken"
  /\ place' = "write"
  /\ IF Len(buffersToWrite) > MaxBuffers
     THEN LET lf == append_unlocked(output, <<0>>, NoticeLen, 1, now)
          IN  /\ buffersToWrite' = SubSeq(buffersToWrite, 1, 2)
              /\ lost' = lost \cup ToSet(FlattenSeq(SubSeq(buffersToWrite, 3, Len(buffersToWrite))))
              /\ output' = lf /\ late' = LateAfter(lf)
     ELSE UNCHANGED <<buffersToWrite, lost, file>>
  /\ UNCHANGED <<clock, loggers, failed, shared, newBuffer1, newBuffer2, wrote, control>>

\* One buffer is written; fwrite() may fail after n lines.
Write(n) ==
  /\ Alive /\ place = "write" /\ wrote < Len(buffersToWrite)
  /\ LET buffer == buffersToWrite[wrote + 1]
         lf == append_unlocked(output, buffer, lengthOf(buffer), n, now)
     IN  /\ n = Len(buffer) \/ (n < Len(buffer) /\ ~failed)
         /\ failed' = (failed \/ n < Len(buffer))
         /\ lost' = lost \cup ToSet(SubSeq(buffer, n + 1, Len(buffer)))
         /\ output' = lf /\ late' = LateAfter(lf)
  /\ wrote' = wrote + 1
  /\ UNCHANGED <<clock, loggers, shared, newBuffer1, newBuffer2, buffersToWrite, place, control>>

keepContent(buffer) == buffer

reset(buffer) == << >>

\* newBuffer1 and newBuffer2 are made of the buffers just written.
Refill ==
  /\ Alive /\ place = "write" /\ wrote = Len(buffersToWrite)
  /\ LET kept == SubSeq(buffersToWrite, 1, IF Len(buffersToWrite) > 2 THEN 2 ELSE Len(buffersToWrite))
     IN  /\ newBuffer1' = reset(Last(kept))
         /\ newBuffer2' = IF newBuffer2 = Null THEN reset(Last(Front(kept))) ELSE newBuffer2
  /\ buffersToWrite' = << >> /\ wrote' = 0
  /\ output' = flush(output)
  /\ place' = "loop"
  /\ UNCHANGED <<clock, loggers, fate, shared, control, late>>
-----------------------------------------------------------------------------
(* stop(), and the clock.                                                  *)

Stop ==
  /\ Alive /\ owner = "up"
  /\ running_' = FALSE /\ owner' = "join"
  /\ UNCHANGED <<clock, loggers, fate, shared, own, place, aborted, file>>

Join ==
  /\ Alive /\ owner = "join" /\ place = "done"
  /\ owner' = "stopped"
  /\ UNCHANGED <<clock, loggers, fate, shared, own, place, running_, aborted, file>>

Tick(d) ==
  /\ Alive /\ ticks < MaxTicks
  /\ now' = now + d /\ ticks' = ticks + 1
  /\ zoneSet' = FALSE
  /\ UNCHANGED <<zone, cache, lines, fate, shared, own, place, control, file>>

Init ==
  /\ now \in Starts /\ ticks = 0
  /\ zone = NoZone /\ zoneSet = FALSE /\ cache = [t \in Fronts |-> NoTime]
  /\ lines = << >> /\ lost = {} /\ failed = FALSE
  /\ currentBuffer_ = << >> /\ nextBuffer_ = << >> /\ buffers_ = << >>
  /\ newBuffer1 = << >> /\ newBuffer2 = << >> /\ buffersToWrite = << >>
  /\ place = "born" /\ wrote = 0
  /\ running_ = TRUE /\ owner = "up" /\ aborted = FALSE
  /\ output = Null /\ late = 0

Backend == Begin \/ Loop \/ Wait \/ Swap \/ Drop \/ (\E n \in 0..MaxLines : Write(n)) \/ Refill

Next ==
  \/ \E t \in Fronts, m \in Messages, fatal \in BOOLEAN : Log(t, m, fatal)
  \/ SetTimeZone
  \/ Backend
  \/ Stop \/ Join
  \/ \E d \in Steps : Tick(d)

\* The logging thread goes on, and its waits end.
Spec == Init /\ [][Next]_vars /\ WF_vars(Backend)
-----------------------------------------------------------------------------
Written == output.closed \o output.file_.lines

FlushedLines == ToSet(output.closed) \cup ToSet(SubSeq(output.file_.lines, 1, output.file_.flushed))

InBuffers ==
  FlattenSeq(SubSeq(buffersToWrite, wrote + 1, Len(buffersToWrite)))
    \o FlattenSeq(buffers_) \o currentBuffer_

\* Between the threads that log and the files nothing is lost, repeated or
\* reordered: the files and then the buffers hold the lines in the order of the
\* append() calls, without those that were dropped over the limit or refused by
\* the disk.
LinesInOrder ==
  SelectSeq((IF output = Null THEN << >> ELSE Written) \o InBuffers, LAMBDA i : i # 0)
    = SelectSeq([i \in DOMAIN lines |-> i], LAMBDA i : i \notin lost)

\* threadFunc() never runs out of buffers: both spare ones are there and empty at
\* the top of the loop, and what was taken is enough to make them again, which its
\* assertions say.
SparesReturn ==
  /\ place \in {"loop", "lock", "waiting"} => newBuffer1 = << >> /\ newBuffer2 = << >>
  /\ place \in {"taken", "write"} =>
       /\ newBuffer1 = Null
       /\ Len(buffersToWrite) >= (IF newBuffer2 = Null THEN 2 ELSE 1)
  /\ nextBuffer_ \in {Null, << >>}

\* A file is left soon after its day: fewer than checkEveryN_ appends reach it
\* later.  An append in a later second than the last roll never leaves a file
\* longer than rollSize_.  And a roll never opens the file again that it closes.
RollsInTime ==
  /\ [](late < checkEveryN_)
  /\ [][\/ output = Null \/ output' = Null
        \/ output'.file_.writtenBytes_ = output.file_.writtenBytes_
        \/ now <= output.lastRoll_
        \/ output'.file_.writtenBytes_ <= rollSize_]_vars
  /\ [][output # Null /\ Len(output'.closed) > Len(output.closed) =>
          getLogFileName(output'.lastRoll_) # getLogFileName(output.lastRoll_)]_vars

\* Although each thread formats the time once a second, the line it would make now
\* bears the time that it is now in the zone now installed, unless the zone was
\* changed in this very second.
StampsTrue ==
  Alive /\ ~zoneSet =>
    \A t \in Fronts : formatTime(cache[t], zone, now).t_time = Clock(zone, now)

\* The zone offset in force at t, by its definition.
OffsetAt(data, t) ==
  LET past == {i \in DOMAIN data.transitions : data.transitions[i].gmttime <= t}
  IN  IF past = {} THEN data.localtimes[1]
      ELSE data.localtimes[data.transitions[CHOOSE i \in past : \A j \in past : j <= i].localtimeIdx]

\* At every one of Instants, before and after the epoch, toUtcTime() agrees with the
\* C library that the rest of the code uses and fromUtcTime() inverts it; in every
\* zone toLocalTime() takes the offset in force, also at a transition, and
\* fromLocalTime() inverts it, also in the hour that is repeated.
CalendarsAgree ==
  \A t \in Instants :
    /\ toUtcTime(t) = gmtime_r(t)
    /\ fromUtcTime(toUtcTime(t)) = t
    /\ \A z \in Zones :
         /\ toLocalTime(z, t).tm = gmtime_r(t + OffsetAt(z, t).gmtOffset)
         /\ fromLocalTime(z, toLocalTime(z, t)) = t

\* Every line that was appended reaches a file and is flushed, unless it was
\* dropped or refused, or the program stopped or aborted first: since lines are
\* finitely many here, again and again that is true of all of them at once.
LinesFlushed ==
  []<>(\/ ~running_ \/ aborted
       \/ \A i \in DOMAIN lines : i \in lost \/ (output # Null /\ i \in FlushedLines))

\* No line and no buffer is lost between the threads that log and the one that
\* writes.
LinesKept == LinesInOrder /\ SparesReturn

\* What is printed is right: the cached time of a line is that of this second, the
\* calendars it is made with agree, and quantities are as short as LogStream.h
\* says.  (The last two depend on no variable and are looked at in the initial
\* states.)
TextsTrue ==
  /\ StampsTrue
  /\ place = "born" /\ owner = "up" /\ lines = << >> /\ ticks = 0 /\ zone = NoZone =>
       CalendarsAgree /\ QuantitiesShort(Amounts)

=============================================================================
