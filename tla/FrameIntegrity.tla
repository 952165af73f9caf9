---------------------------- MODULE FrameIntegrity ----------------------------
(***************************************************************************)
(* From the frames of one connection to its events: the parser             *)
(* (market_data/protocol.py) and the integrity tracker                     *)
(* (market_data/integrity.py).  A frame is what was received: its channel, *)
(* the items it carries and, in place of malformed text, the kind of error *)
(* the parser finds.  One bad item excludes the whole frame.               *)
(***************************************************************************)
EXTENDS Integers, Sequences, SequencesExt, FiniteSets, TLC

CONSTANTS
    CadenceThreshold,   \* silence of a channel that is worth an issue
    DuplicateWindow,    \* trade identities remembered
    MaxAhead            \* how far an exchange may be ahead of the local clock

ASSUME IntegrityAssumption == /\ CadenceThreshold \in Nat
                              /\ DuplicateWindow \in Nat \ {0}
                              /\ MaxAhead \in Nat

IssueKinds == {"schema_error", "duplicate", "timestamp_regression", "crossed_book",
               "silence", "reconnect", "cadence_anomaly", "disk_pressure", "unexplained_gap"}

\* What a subscription to "user" may carry is told by its shape.
Channels == {"l2Book", "bbo", "trades", "activeAssetCtx", "user", "userFills", "orderUpdates"}
Control == {"pong", "subscriptionResponse"}

-----------------------------------------------------------------------------
(* protocol.py.  An item's fault is "protocol" (a field is missing or of    *)
(* the wrong type), "domain" (the event model refuses its value) or          *)
(* "crossed".                                                              *)

Faults == {"none", "protocol", "domain", "crossed"}

\* _parse_fill: a liquidation is told twice.
FillTypes(item) == IF item.liquidation THEN <<"account_fill", "liquidation_fill">>
                                       ELSE <<"account_fill">>

\* _parse_user_event: the first of these that the message holds.
UserTypes(shape, item) ==
    CASE shape = "liquidation" -> <<"account_liquidation">>
      [] shape = "funding" -> <<"funding_payment">>
      [] shape = "fills" -> FillTypes(item)
      [] OTHER -> <<>>

\* The events one item becomes.
EventTypes(frame, item) ==
    CASE frame.channel = "l2Book" -> <<"l2_book">>
      [] frame.channel = "bbo" -> <<"bbo">>
      [] frame.channel = "trades" -> <<"trade">>
      [] frame.channel = "activeAssetCtx" ->
             <<"mark_price", "index_price", "funding", "open_interest">>
      [] frame.channel = "orderUpdates" -> <<"account_order_update">>
      [] frame.channel = "userFills" -> FillTypes(item)
      [] frame.channel = "user" -> UserTypes(frame.shape, item)

\* Of a context only the time it was received is known.
LocallyTimed(frame) == \/ frame.channel = "activeAssetCtx"
                       \/ frame.channel = "user" /\ frame.shape = "liquidation"

EventTime(frame, item) == IF LocallyTimed(frame) THEN frame.at ELSE item.time

\* EventHeader is validated before the model of the event is.
Ahead(frame, item) == EventTime(frame, item) > frame.at + MaxAhead
Fault(frame, item) == IF item.fault \in {"none", "crossed"} /\ Ahead(frame, item)
                      THEN "domain" ELSE item.fault

ItemEvents(frame, item) ==
    [i \in 1 .. Len(EventTypes(frame, item)) |->
        [type |-> EventTypes(frame, item)[i], time |-> EventTime(frame, item),
         receive |-> frame.at, id |-> item.id]]

Failure(kind, channel) == [ok |-> FALSE, kind |-> kind, channel |-> channel, events |-> <<>>]

\* The items of a frame become events in the order it carries them.
FrameEvents(frame) ==
    FoldLeft(LAMBDA events, item : events \o ItemEvents(frame, item), <<>>, frame.items)

\* parse_frame, and the issue record_parse_failure makes of what it raises: a
\* model that refuses a value does not know the channel.
Parse(frame) ==
    LET bad == SelectInSeq(frame.items, LAMBDA item : Fault(frame, item) # "none")
    IN  IF frame.fault # "none" THEN Failure("schema_error", "unknown")
        ELSE IF frame.channel \in Control
        THEN [ok |-> TRUE, kind |-> "none", channel |-> frame.channel, events |-> <<>>]
        ELSE IF frame.channel \notin Channels
        THEN Failure("schema_error", frame.channel)
        ELSE IF bad # 0
        THEN CASE Fault(frame, frame.items[bad]) = "protocol" ->
                      Failure("schema_error", frame.channel)
               [] Fault(frame, frame.items[bad]) = "crossed" ->
                      Failure("crossed_book", "unknown")
               [] OTHER -> Failure("schema_error", "unknown")
        ELSE [ok |-> TRUE, kind |-> "none", channel |-> frame.channel,
              events |-> FrameEvents(frame)]

-----------------------------------------------------------------------------
(* integrity.py.  A tracker is a value; it starts empty with every segment. *)

EmptyTracker == [issues |-> <<>>, lastReceive |-> <<>>, lastEvent |-> <<>>, keys |-> <<>>]

Issue(kind, channel, at) == [kind |-> kind, channel |-> channel, at |-> at]

At(f, x, default) == IF x \in DOMAIN f THEN f[x] ELSE default

\* Slip: a repeated identity keeps its place among the remembered ones.
RememberInPlace(keys, key) ==
    LET all == IF Contains(keys, key) THEN keys ELSE Append(keys, key)
    IN  IF Len(all) > DuplicateWindow THEN Tail(all) ELSE all

\* _is_duplicate_trade: identities in the order they were last seen.
Remember(keys, key) ==
    LET all == Append(RemoveFirst(keys, key), key)
    IN  IF Len(all) > DuplicateWindow THEN Tail(all) ELSE all

\* observe_frame for one event: its time is compared with the latest of its
\* type, and only a repeated trade is dropped.
ObserveEvent(tracker, channel, event) ==
    LET previous == At(tracker.lastEvent, event.type, 0)
        repeated == event.type = "trade" /\ Contains(tracker.keys, event.id)
        regressed == IF event.time < previous
                     THEN <<Issue("timestamp_regression", channel, event.receive)>> ELSE <<>>
        duplicate == IF repeated THEN <<Issue("duplicate", channel, event.receive)>> ELSE <<>>
        latest == IF event.time > previous THEN event.time ELSE previous
    IN  [tracker |->
            [tracker EXCEPT !.issues = @ \o regressed \o duplicate,
                            !.lastEvent = (event.type :> latest) @@ @,
                            !.keys = IF event.type = "trade" THEN Remember(@, event.id) ELSE @],
         accepted |-> IF repeated THEN <<>> ELSE <<event>>]

\* observe_frame
Observe(tracker, parsed, at) ==
    LET last == At(tracker.lastReceive, parsed.channel, at)
        heard == [tracker EXCEPT
                    !.issues = IF at - last > CadenceThreshold
                               THEN Append(@, Issue("cadence_anomaly", parsed.channel, at)) ELSE @,
                    !.lastReceive = (parsed.channel :> at) @@ @]
        step(acc, event) ==
            LET seen == ObserveEvent(acc.tracker, parsed.channel, event)
            IN  [tracker |-> seen.tracker, accepted |-> acc.accepted \o seen.accepted]
    IN  FoldLeft(step, [tracker |-> heard, accepted |-> <<>>], parsed.events)

\* The loop of normalize_segment, and the same one of the recorder while it
\* archives: a frame that does not parse is an issue and is excluded.
Track(acc, frame) ==
    LET parsed == Parse(frame)
        seen == Observe(acc.tracker, parsed, frame.at)
    IN  IF parsed.ok
        THEN [acc EXCEPT !.tracker = seen.tracker, !.events = @ \o seen.accepted]
        ELSE [acc EXCEPT !.tracker.issues = Append(@, Issue(parsed.kind, parsed.channel, frame.at)),
                         !.excluded = @ + 1]

\* One record with the fields of two; where both have a field, the first's.
Joined(f, g) == [x \in DOMAIN f \union DOMAIN g |-> IF x \in DOMAIN f THEN f[x] ELSE g[x]]

NothingTracked == [tracker |-> EmptyTracker, events |-> <<>>, excluded |-> 0]

\* The numbers of issues by kind.
CountKinds(issues) ==
    [kind \in IssueKinds |-> Len(SelectSeq(issues, LAMBDA issue : issue.kind = kind))]
=============================================================================
