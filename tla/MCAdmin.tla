------------------------------- MODULE MCAdmin -------------------------------
EXTENDS AdminDriver, TLC

CONSTANTS b1, b2, t1, t2

\* A key of its own broker each.
MCHome == (t1 :> b1) @@ (t2 :> b2)

\* One use of each kind; a refresh for another topic than the moving one.
MCUses == {[op |-> "leader", arg |-> t1], [op |-> "count", arg |-> t1],
           [op |-> "topics", arg |-> t2], [op |-> "broker", arg |-> b2],
           [op |-> "refresh", arg |-> None]}

\* One change of the cluster, of one kind.
Workload(kinds, faults, hints, resets, calls, drops, admin) ==
    [changes |-> 1, kinds |-> kinds, faults |-> faults, hints |-> hints, resets |-> resets,
     calls |-> calls, drops |-> drops, admin |-> admin]

Admin(kinds, faults) == Workload(kinds, faults, 0, 0, 0, 0, TRUE)
Metadata(kinds, faults, hints, resets, calls, drops) ==
    Workload(kinds, faults, hints, resets, calls, drops, FALSE)

\* Nothing changes while the brokers are listed beside an application call.
Beside == [Workload({"listing"}, 0, 0, 0, 1, 0, TRUE) EXCEPT !.changes = 0]

\* One admin operation that the change concerns; a listing of the brokers beside
\* an application call, which may fill the cache first; or application calls with a
\* fault, a hint and a rebootstrap, two calls with a hint, two with a rebootstrap.
MCWorkloads ==
    {Admin({"controller"}, 1), Admin({"coordinator"}, 1), Admin({"brokers"}, 1),
     Admin({"leader"}, 0), Admin({"topic"}, 1), Beside,
     Metadata({"leader", "topic"}, 1, 1, 1, 1, 0),
     Metadata({"leader"}, 0, 1, 0, 2, 1),
     Metadata({"leader"}, 0, 0, 1, 2, 1)}
==============================================================================
