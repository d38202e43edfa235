-------------------------- MODULE MCPostgresStorage -------------------------
(* Instances of PostgresStorage, PostgresLookups and Interval for TLC. *)
EXTENDS PostgresLookups, Interval, TLC

\* Callers, e-mails and keys are interchangeable.
MCSymmetry == Permutations(Callers) \cup Permutations(Emails) \cup Permutations(Keys)

\* The ends of seconds, minutes and hours, and what is between them.
MCDurations ==
    [hours : {0, 1, 23, 24, 25, 9999}, rest : {0, 1},
     ms : {0, 1, 10, 999, 1000, 59999, 60000, 61020, 3599999}]

\* Both signs; less than a year, years, and both.
MCIntervals ==
    {i \in [months : {-13, -12, -1, 0, 1, 11, 12, 25}, days : {-1, 0, 1, 40},
            hours : {-25, 0, 1, 9999}, ms : {-1800000, 0, 1, 61020}] :
        i.hours # 0 => Sign(i.hours) * i.ms >= 0}

\* The conversion of intervals shares no state with the transactions: one at a time.
MCInit == LookupsInit /\ IntervalInit
MCNext ==
    \/ IntervalInit /\ LookupsNext /\ UNCHANGED intervalVars
    \/ LookupsInit /\ IntervalNext /\ UNCHANGED <<vars, lookup, history>>
MCSpec == MCInit /\ [][MCNext]_<<vars, lookup, history, intervalVars>>
=============================================================================
