---------------------------- MODULE MCMarketCapture ----------------------------
(***************************************************************************)
(* A few connections, a few frames and one mishap: trades that repeat, a   *)
(* book that is crossed.                                                   *)
(***************************************************************************)
EXTENDS MarketCapture

Trade(id, time) == [fault |-> "none", time |-> time, id |-> id]
Plain(channel, items) == [fault |-> "none", channel |-> channel, items |-> items]

MCWire == {Plain("trades", <<Trade("x", 1), Trade("y", 0), Trade("x", 1), Trade("z", 1)>>),
           Plain("bbo", <<[Trade("q", 0) EXCEPT !.fault = "crossed"]>>)}

MCQualityPolicy ==
    [limits |-> [schema_error |-> 0, crossed_book |-> 0, timestamp_regression |-> 9,
                 duplicate |-> 9],
     maxGap |-> 1, rejectUnexplained |-> TRUE]

MCSoakPolicy ==
    [minObservation |-> 1, minSegments |-> 1, maxStartLag |-> 1, maxReconnects |-> 0,
     maxRestarts |-> 0, maxExcluded |-> 0, minFree |-> 1, recorderStale |-> 1,
     normalizerStale |-> 2, reasons |-> {"rotation"}]

MCRequests == {[start |-> s, startFree |-> 1, endFree |-> 1, sameConfiguration |-> TRUE,
                publicMainnetOnly |-> TRUE] : s \in 0 .. 0}
=============================================================================
