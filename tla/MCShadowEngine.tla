--------------------------- MODULE MCShadowEngine ---------------------------
(* Small instance of shadow trading: five ticks, a watchdog call each, a      *)
(* market state at least every second tick, latencies of one tick, and tapes  *)
(* with trades before, between and after the states.                          *)
EXTENDS ShadowEngine

Level(p, s) == [price |-> p, size |-> s]
Quote(t, event, bid, ask) == [kind |-> "bbo", receive |-> t, event |-> event,
                       bids |-> <<Level(bid, 1)>>, asks |-> <<Level(ask, 1)>>]
Depth(t, bid, ask) == [kind |-> "l2", receive |-> t, event |-> t,
                       bids |-> <<Level(bid, 1), Level(bid - 2, 2)>>,
                       asks |-> <<Level(ask, 1), Level(ask + 2, 2)>>]
Trade(n, t, price, size, aggressor) ==
    [kind |-> "trade", id |-> n, receive |-> t, event |-> t - 1, price |-> price, size |-> size,
     aggressor |-> aggressor]
Funding(t, mark, rate, next) == [kind |-> "context", receive |-> t, event |-> t, mark |-> mark,
                                 rate |-> rate, next |-> next]
Control(t) == [kind |-> "control", receive |-> t, event |-> t]

MCTapes == {<<Funding(0, 12, 100, 3), Depth(0, 10, 14), Trade(1, 1, 10, 2, "sell"),
              Quote(2, 2, 10, 12), Trade(2, 3, 10, 2, "sell"), Funding(4, 12, 100, 7),
              Depth(4, 10, 14)>>,
            <<Funding(0, 12, 100, 3), Depth(0, 10, 14), Control(1), Trade(1, 1, 10, 3, "sell"),
              Depth(1, 8, 12), Quote(2, 0, 10, 12), Trade(2, 3, 10, 2, "sell"),
              Funding(3, 10, 0, 7), Depth(3, 8, 12), Trade(3, 4, 12, 2, "buy"),
              Quote(5, 5, 12, 14)>>}

Order(side, kind, limit, quantity) ==
    [side |-> side, kind |-> kind, limit |-> limit, quantity |-> quantity,
     onGrid |-> TRUE, reduceOnly |-> FALSE, created |-> 0]
MCMenu == {Order("buy", "post", 10, 2), Order("sell", "ioc", 10, 2)}

MCScenario == [entry |-> 1, response |-> 1, liquidity |-> 100, flow |-> 100, partial |-> TRUE,
               makerBps |-> 1, takerBps |-> 4, slippageBps |-> 10, fundingPercent |-> 100]

MCLimits == [publicStale |-> 3, privateStale |-> 9, dailyLoss |-> 50, drawdown |-> 50,
             leverage |-> 3, intentAge |-> 1, orderSize |-> 2, orderNotional |-> 100,
             inflight |-> 1, position |-> 3, inventory |-> 100, openOrders |-> 2,
             perSecond |-> 2, second |-> 1]
=============================================================================
