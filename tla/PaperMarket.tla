----------------------------- MODULE PaperMarket -----------------------------
(***************************************************************************)
(* Public events into market states (paper/market.py): trades wait for the *)
(* next book, a book makes at most one state per interval, and what is     *)
(* older than the input age is left out. The assembler is a value; an      *)
(* event has the exchange's time (event) and the local one (receive).      *)
(***************************************************************************)
EXTENDS Integers, Sequences, SequencesExt

CONSTANTS
    DepthLevels,    \* levels of a state
    MaxInputAge,    \* maximum_input_age_ns
    StateInterval   \* minimum_state_interval_ns

ASSUME MarketAssumption == /\ DepthLevels \in 1 .. 10
                           /\ MaxInputAge \in Nat \ {0}
                           /\ StateInterval \in Nat \ {0}

\* What the exchange's messages are once domain/market.py has validated them:
\* a quote is a book of one level, a book is sorted and not crossed.
Levels == [price : Nat, size : Nat]
TradeFrames == [kind : {"trade"}, id : Nat, receive : Nat, event : Nat, price : Nat,
                size : Nat, aggressor : {"buy", "sell", "unknown"}]
BookFrames == [kind : {"bbo", "l2"}, receive : Nat, event : Nat,
               bids : Seq(Levels), asks : Seq(Levels)]
OtherFrames == [kind : {"context"}, receive : Nat, event : Nat, mark : Nat, rate : Int,
                next : Nat] \cup [kind : {"control"}, receive : Nat, event : Nat]
Frames == TradeFrames \cup BookFrames \cup OtherFrames

Falling(levels) == \A j, k \in DOMAIN levels : j < k => levels[j].price > levels[k].price
Rising(levels) == \A j, k \in DOMAIN levels : j < k => levels[j].price < levels[k].price

\* A book whose best levels do not cross.
Uncrossed(bids, asks) == /\ bids # <<>> /\ asks # <<>>
                         /\ Falling(bids) /\ Rising(asks)
                         /\ bids[1].price < asks[1].price

Validated(e) == e.kind \in {"bbo", "l2"} => /\ Uncrossed(e.bids, e.asks)
                                            /\ e.kind = "bbo" => Len(e.bids) = 1 /\ Len(e.asks) = 1

Unseen == -1
NoDepth == [event |-> Unseen, bids |-> <<>>, asks |-> <<>>]

EmptyAssembler == [trades |-> <<>>, sequence |-> 0, lastState |-> Unseen,
                   lastBook |-> Unseen, depth |-> NoDepth]

Stale(e) == e.receive - e.event > MaxInputAge

\* What observe refuses: an exchange ahead of the local clock, or books that
\* were not received one after another.
Raises(a, e) ==
    /\ e.kind \in {"trade", "bbo", "l2"}
    /\ \/ e.event > e.receive
       \/ e.kind # "trade" /\ a.lastBook # Unseen /\ e.receive <= a.lastBook

\* What s has at the positions K, in their order.
Kept(s, K) == MapThenFoldSet(LAMBDA k, r : Append(r, s[k]), <<>>, LAMBDA k : k,
                             LAMBDA T : Max(T), K)

\* _expire_stale_trades
Expire(trades, t) == Kept(trades, {k \in DOMAIN trades : trades[k].event >= t - MaxInputAge})

Due(a, t) == a.lastState = Unseen \/ t - a.lastState >= StateInterval

FirstLevels(levels, n) == SubSeq(levels, 1, IF Len(levels) < n THEN Len(levels) ELSE n)

\* The levels of a side behind a price.
Below(levels, price) == Kept(levels, {k \in DOMAIN levels : levels[k].price < price})
Above(levels, price) == Kept(levels, {k \in DOMAIN levels : levels[k].price > price})

\* Slip: depth that is newer than the quote is used as well.
DepthUsableWhenNewer(a, e) == /\ a.depth # NoDepth
                              /\ e.receive - a.depth.event <= MaxInputAge

\* The depth a quote may be completed with.
DepthUsable(a, e) == /\ a.depth # NoDepth
                     /\ a.depth.event <= e.event
                     /\ e.receive - a.depth.event <= MaxInputAge

\* _state_from_l2 and _state_from_bbo: the quote is the top of the book, and
\* only what lies behind it is taken from the depth.
Book(a, e) ==
    IF e.kind = "l2"
    THEN [event |-> e.event, bids |-> FirstLevels(e.bids, DepthLevels),
          asks |-> FirstLevels(e.asks, DepthLevels)]
    ELSE IF DepthUsable(a, e)
    THEN [event |-> a.depth.event,
          bids |-> e.bids \o FirstLevels(Below(a.depth.bids, e.bids[1].price), DepthLevels - 1),
          asks |-> e.asks \o FirstLevels(Above(a.depth.asks, e.asks[1].price), DepthLevels - 1)]
    ELSE [event |-> e.event, bids |-> e.bids, asks |-> e.asks]

\* A state is as late as the latest event in it.
LatestEvent(trades, event) ==
    FoldLeft(LAMBDA n, trade : IF trade.event > n THEN trade.event ELSE n, event, trades)

\* _state
State(a, e, book) ==
    [exchange |-> LatestEvent(a.trades, e.event),
     book |-> book.event, observed |-> e.receive, sequence |-> a.sequence,
     bids |-> book.bids, asks |-> book.asks,
     trades |-> [k \in DOMAIN a.trades |->
                    [id |-> a.trades[k].id, event |-> a.trades[k].event,
                     observed |-> a.trades[k].receive, price |-> a.trades[k].price,
                     size |-> a.trades[k].size, aggressor |-> a.trades[k].aggressor]]]

\* observe: the assembler after the event and the states it made, one or none.
Observe(a, e) ==
    CASE e.kind = "trade" ->
            LET kept == Expire(a.trades, e.receive)
            IN  [a |-> [a EXCEPT !.trades = IF Stale(e) THEN kept ELSE Append(kept, e)],
                 states |-> <<>>]
      [] e.kind \in {"bbo", "l2"} ->
            LET seen == [a EXCEPT !.lastBook = e.receive,
                                  !.trades = Expire(@, e.receive)]
                deep == IF e.kind = "l2" /\ ~ Stale(e)
                        THEN [seen EXCEPT !.depth = [event |-> e.event, bids |-> e.bids,
                                                     asks |-> e.asks]]
                        ELSE seen
            IN  IF Stale(e) \/ ~ Due(seen, e.receive) THEN [a |-> deep, states |-> <<>>]
                ELSE [a |-> [deep EXCEPT !.trades = <<>>, !.sequence = @ + 1,
                                         !.lastState = e.receive],
                      states |-> <<State(deep, e, Book(deep, e))>>]
      [] OTHER -> [a |-> a, states |-> <<>>]

\* validate_causal_book of the states the kernels accept.
Causal(m) ==
    /\ m.exchange <= m.observed /\ m.book <= m.exchange
    /\ \A k \in DOMAIN m.trades : /\ m.trades[k].event <= m.exchange
                                  /\ m.trades[k].observed <= m.observed
    /\ Uncrossed(m.bids, m.asks)
=============================================================================
