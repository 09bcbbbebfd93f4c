------------------------------ MODULE MCPlayer ------------------------------
(* An instance of Player for TLC.                                          *)
EXTENDS Player

\* What a player's parts may report: nothing, as today, or one or two updates,
\* among them one that is due at once and one that is not due at all
\* (leave_cal_test.go).
Farm == [source |-> "farm", dt |-> 0]
Building == [source |-> "building", dt |-> 2]
Idle == [source |-> "", dt |-> NoUpdateDt]
ReportsTried == { <<>>, <<Farm>>, <<Idle, Building>> }
SomeReports == ReportsTried

=============================================================================
