------------------------------ MODULE MCSources -----------------------------
(* Bounds for Sources: behaviours in which the pages are busy, alone or with *)
(* pushes under way, others in which the sources are, and others that are    *)
(* long enough for a prune.                                                  *)
EXTENDS Sources

Budget(pages, sources) ==
    [visits |-> pages[1], endpoints |-> pages[2], clicks |-> pages[3],
     failures |-> pages[4], keys |-> pages[5],
     events |-> sources[1], faults |-> sources[2], halfDays |-> sources[3],
     prunes |-> sources[4]]

BusyPages   == Budget(<<1, 4, 1, 1, 1>>, <<0, 0, 0, 0>>)
PushesFail  == Budget(<<1, 4, 0, 1, 1>>, <<1, 0, 0, 0>>)
PushesCross == Budget(<<1, 4, 1, 0, 1>>, <<1, 0, 0, 0>>)
BusySources == Budget(<<0, 0, 0, 0, 0>>, <<2, 2, 2, 0>>)
ALongTime   == Budget(<<0, 0, 0, 0, 0>>, <<1, 1, 0, 1>>)

EitherBusy == {BusyPages, PushesFail, PushesCross, BusySources, ALongTime}
=============================================================================
