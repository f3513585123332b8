---------------------------- MODULE RetryTopics ----------------------------
(***************************************************************************)
(* The Kafka topics of a retry grid.  A band's topic is named after its    *)
(* lower boundary, written as a count of the largest unit that divides it  *)
(* ("0s", "30s", "5m", "2h", "1d").  The name is the pair of the count and *)
(* the unit; the units differ in length, so equal pairs are equal texts.   *)
(***************************************************************************)
EXTENDS RetryGrid

CONSTANTS Minute, Hour, Day             \* in nanoseconds

ASSUME UnitsAssumption ==
    /\ Minute \in Nat /\ Hour \in Nat /\ Day \in Nat
    /\ Second < Minute /\ Minute < Hour /\ Hour < Day
    /\ Minute % Second = 0 /\ Hour % Minute = 0 /\ Day % Hour = 0

\* A faulty variant takes every unit that fits, whether or not it divides.
FaultyUnitsOf(delay) ==
    {Second} \cup {unit \in {Minute, Hour, Day} : unit <= delay}

\* The units a delay is written in: the seconds are the default case, which
\* divides without asking whether the division is exact.
UnitsOf(delay) ==
    {Second} \cup {unit \in {Minute, Hour, Day} : delay % unit = 0}

LargestUnit(delay) ==
    CHOOSE unit \in UnitsOf(delay) :
        \A other \in UnitsOf(delay) : other <= unit

FormatRetryDelay(delay) ==
    IF delay = 0
    THEN <<0, Second>>
    ELSE <<delay \div LargestUnit(delay), LargestUnit(delay)>>

RetryTopic(boundaries, band) == FormatRetryDelay(boundaries[band])

\* The last boundary closes the last band and names no topic.
RetryTopicsOf(boundaries) ==
    {RetryTopic(boundaries, band) : band \in Bands(boundaries)}

-----------------------------------------------------------------------------
(* The benchmark's harness creates the topics before any process starts,   *)
(* and writes their names by a second implementation, in whole seconds.    *)

\* A faulty variant has no days.
FaultyFormatDelayMs(delay) ==
    LET seconds == delay \div Second
        Whole(unit) == seconds % (unit \div Second) = 0
        In(unit) == <<seconds \div (unit \div Second), unit>>
    IN  IF delay = 0 THEN <<0, Second>>
        ELSE IF Whole(Hour) THEN In(Hour)
        ELSE IF Whole(Minute) THEN In(Minute) ELSE In(Second)

FormatDelayMs(delay) ==
    LET seconds == delay \div Second
        Whole(unit) == seconds % (unit \div Second) = 0
        In(unit) == <<seconds \div (unit \div Second), unit>>
    IN  IF delay = 0 THEN <<0, Second>>
        ELSE IF Whole(Day) THEN In(Day)
        ELSE IF Whole(Hour) THEN In(Hour)
        ELSE IF Whole(Minute) THEN In(Minute) ELSE In(Second)

Provisioned(boundaries) ==
    {FormatDelayMs(boundaries[band]) : band \in Bands(boundaries)}

=============================================================================
