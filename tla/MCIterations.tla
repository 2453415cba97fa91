----------------------------- MODULE MCIterations -----------------------------
(***************************************************************************)
(* A week of two days, sprints of one and two weeks, and PATCHes of one    *)
(* field each.                                                             *)
(***************************************************************************)
EXTENDS Iterations

MCDurations == {2, 4}

MCStartDays == {0, 1}

MCChanges ==
  [duration : MCDurations, startDay : {Null}] \cup [duration : {Null}, startDay : MCStartDays]

MCSunday == {0}

MCDurationChanges == [duration : MCDurations, startDay : {Null}]
===============================================================================
