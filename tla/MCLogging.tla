----------------------------- MODULE MCLogging ------------------------------
(***************************************************************************)
(* An instance of AsyncLogging: the zone of New York in 2007, a clock that  *)
(* starts in the afternoon of a leap day, and as times to convert the first *)
(* or the last second of every eleventh day from 1903 to 2036 and of every  *)
(* day around 1970 and 2000, and those around New York's changes.           *)
(***************************************************************************)
EXTENDS AsyncLogging

Spring == 1173596400
Autumn == 1194156000

NewYorkFile(n) ==
  readTimeZoneFile(<< <<Spring, 2>>, <<Autumn, 1>> >>,
                   <<[gmtOffset |-> -18000, isDst |-> FALSE], [gmtOffset |-> -14400, isDst |-> TRUE]>>, n)

NewYork == NewYorkFile(2)

\* The last zone is that of a file cut short.
MCZones == {NewYork, fixedZone(8 * 3600), NewYorkFile(1)}

MCStarts == {951825600 + 3600}

MCInstants ==
  {d * kSecondsPerDay - (IF d % 3 = 0 THEN 1 ELSE 0) :
     d \in {11 * n : n \in -2200..2200} \cup -800..800 \cup 10900..11400}
    \cup {t + 900 * k + e : t \in {Spring, Autumn}, k \in -8..8, e \in {-1, 0}}

\* Around every threshold, and at steps in between; below 2^63.
MCAmounts ==
  LET near == {t + e : t \in {1000, 1024, 9995, 10000, 10234, 99950, 100000, 102348, 999500,
                              999990, 1048060, 1048570}, e \in -5..5}
      steps == {n * 947 : n \in 1..1100}
  IN  {<<n, 0>> : n \in 0..2000}
        \cup (near \cup steps) \X (0..4) \cup {<<n, 5>> : n \in 1..8191}
=============================================================================
