------------------------------ MODULE MCLKLFile ------------------------------
(* Small instances of LKLFile for TLC.                                     *)
EXTENDS LKLFile

FileSymmetry == Permutations(Inodes) \cup Permutations(Handles)

Time(y, m, d, hour) ==
    [Year |-> y, Month |-> m, Day |-> d, Hour |-> hour, Minute |-> 59, Second |-> 59,
     TimeZone |-> 60]

\* A time 32 bits of seconds do not reach, the leap day of a century, and a day
\* there never was, in a zone an hour off UTC.
BeforeEpoch == Time(1969, 12, 31, 0)
LeapDay == Time(2000, 2, 29, 23)
NoDay == Time(1900, 2, 29, 12)

\* Any times, and any attributes with any size; size 0 shortens a file that has
\* been written.
SampleRequests ==
    [created : {ZeroTime, BeforeEpoch}, modified : {ZeroTime, LeapDay, NoDay},
     readonly : {FALSE}, directory : {FALSE}, size : {0}]
    \cup
    [created : {ZeroTime}, modified : {ZeroTime},
     readonly : BOOLEAN, directory : BOOLEAN, size : Sizes]

\* The clock of the machine shows the leap day.
Today == <<11016, 86399>>
=============================================================================
