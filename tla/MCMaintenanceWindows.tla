------------------------ MODULE MCMaintenanceWindows ------------------------
(* Instances of MaintenanceWindows for TLC: weeks of three days, a year of   *)
(* two months of two days and one day.                                       *)
EXTENDS MaintenanceWindows

CONSTANTS m1

ShortYear == <<2, 1>>

Series(f, n, days, until) ==
    [frequency |-> f, interval |-> n, weekdays |-> days, until |-> until]

AllKinds ==
    {Series("none", 1, {}, None),
     Series("daily", 0, {}, None),
     Series("daily", 1, {}, 3),
     Series("weekly", 1, {0, 2}, None),
     Series("weekly", 1, {4}, None),
     Series("monthly", 1, {}, None)}

=============================================================================
