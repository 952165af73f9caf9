--------------------------- MODULE LiveMarketCycle ---------------------------
(***************************************************************************)
(* What the event loop does on every book update (_process_live_market in  *)
(* execution/strategy.py, with execution/live.py and the market maker's    *)
(* kernel): drain when the risk state asks for it, drain what an earlier   *)
(* process left, cancel both quotes before replacing them, submit at most  *)
(* one quote per side and remember it until a terminal event.              *)
(*                                                                         *)
(* One cycle or callback is one action: both run on the event loop. What   *)
(* happens inside a gateway call is the subject of ExecutionGateway; here  *)
(* every exception that leaves a cycle or a callback is NodeStops. Orders  *)
(* have one lot, and the name of a finished order may be used again.       *)
(***************************************************************************)
EXTENDS Naturals, FiniteSets

CONSTANTS
    Bids, Asks,     \* identities of the intents of each side
    NoQuote         \* a side without a quote

ASSUME CycleAssumption == /\ Bids \cap Asks = {}
                          /\ NoQuote \notin Bids \cup Asks

VARIABLES
    up,                 \* the trading node process runs
    memory,             \* the market maker's active intent of each side
    strategyCancels,    \* _pending_strategy_cancels
    riskCancelPending,  \* _risk_cancel_pending
    startupOrderDrain,  \* _startup_order_drain
    order,              \* how the cache and the venue know each order
    unknown,            \* intents whose journal row is UNKNOWN
    cancelSent,         \* orders with a cancel under way
    breaker             \* what the risk snapshot says, journal apart

flags == <<riskCancelPending, startupOrderDrain>>
vars  == <<up, memory, strategyCancels, flags, order, unknown, cancelSent, breaker>>

Intents == Bids \cup Asks
Sides   == {"bid", "ask"}
OfSide(s) == IF s = "bid" THEN Bids ELSE Asks

Remembered == {i \in Intents : \E s \in Sides : memory[s] = i}
OpenOrders == {i \in Intents : order[i] = "open"}
Working(i) == order[i] \in {"inflight", "open"}

\* RiskAuthority.state: CANCEL_ONLY and HALTED have the same effect here.
RiskState == IF breaker = "blocked" \/ unknown # {} THEN "blocked" ELSE breaker

-----------------------------------------------------------------------------
(* The cycle                                                                *)

\* Slip: only the two strict states drain.
RiskDrainStrict == /\ up /\ RiskState = "blocked" /\ OpenOrders # {}
                   /\ ~ riskCancelPending
                   /\ riskCancelPending' = TRUE
                   /\ cancelSent' = cancelSent \cup OpenOrders
                   /\ UNCHANGED <<up, memory, strategyCancels, startupOrderDrain, order,
                                  unknown, breaker>>

\* cancel_all, once until an answer clears the flag
RiskDrain == /\ up /\ RiskState # "active" /\ OpenOrders # {}
             /\ ~ riskCancelPending
             /\ riskCancelPending' = TRUE
             /\ cancelSent' = cancelSent \cup OpenOrders
             /\ UNCHANGED <<up, memory, strategyCancels, startupOrderDrain, order,
                            unknown, breaker>>

\* The risk state is fine, but orders of an earlier process are still open.
StartupDrain == /\ up /\ RiskState = "active" /\ OpenOrders # {}
                /\ startupOrderDrain /\ ~ riskCancelPending
                /\ riskCancelPending' = TRUE
                /\ cancelSent' = cancelSent \cup OpenOrders
                /\ UNCHANGED <<up, memory, strategyCancels, startupOrderDrain, order,
                               unknown, breaker>>

\* Slip: the flag of the risk drain stands for the startup drain too.
ReachesAlphaUndrained == /\ up
                         /\ \/ RiskState = "active"
                            \/ RiskState = "reduce_only" /\ OpenOrders = {}
                         /\ riskCancelPending => OpenOrders = {}
                         /\ riskCancelPending' = FALSE
                         /\ startupOrderDrain' = FALSE

\* The cycle gets past the risk block and both drains.
ReachesAlpha == /\ up
                /\ \/ RiskState = "active"
                   \/ RiskState = "reduce_only" /\ OpenOrders = {}
                /\ riskCancelPending \/ startupOrderDrain => OpenOrders = {}
                /\ riskCancelPending' = FALSE
                /\ startupOrderDrain' = FALSE

\* The quotes are good, too young, or there are none and none is allowed; a
\* proposal the authority denies leaves no trace here either.
CycleQuiet == /\ ReachesAlpha
              /\ UNCHANGED <<up, memory, strategyCancels, order, unknown, cancelSent, breaker>>

\* Slip: a cancel request clears the memory.
AfterCancelsCleared == [s \in Sides |-> NoQuote]

\* commit after cancels: a request is not an outcome, only a quote whose row is
\* already terminal is released.
AfterCancels == [s \in Sides |-> IF /\ memory[s] \in Intents \ strategyCancels
                                    /\ order[memory[s]] = "none"
                                 THEN NoQuote ELSE memory[s]]

\* The kernel gives up or replaces both quotes: those not yet asked for are
\* canceled, and nothing is submitted. An order not yet open cannot be canceled
\* and raises.
CycleCancels == /\ ReachesAlpha
                /\ Remembered # {}
                /\ LET fresh == {i \in Remembered \ strategyCancels : order[i] # "none"}
                   IN  /\ \A i \in fresh : order[i] = "open"
                       /\ strategyCancels' = strategyCancels \cup fresh
                       /\ cancelSent' = cancelSent \cup fresh
                /\ memory' = AfterCancels
                /\ UNCHANGED <<up, order, unknown, breaker>>

Unused(i) == /\ order[i] = "none"
             /\ i \notin Remembered \cup strategyCancels \cup cancelSent

\* Slip: the identities of the two sides are swapped.
CommittedSwapped(quotes) ==
    [s \in Sides |-> LET q == quotes[IF s = "bid" THEN "ask" ELSE "bid"]
                     IN  IF q # NoQuote THEN q ELSE memory[s]]

\* commit after submissions: what was handed over replaces what was remembered.
Committed(quotes) == [s \in Sides |-> IF quotes[s] # NoQuote THEN quotes[s] ELSE memory[s]]

\* The kernel quotes only when it remembers no quote; the authority may deny
\* one side, and admits none that is not reducing outside ACTIVE.
CycleSubmits == /\ ReachesAlpha
                /\ RiskState = "active"
                /\ Remembered = {}
                /\ \E quotes \in [Sides -> Intents \cup {NoQuote}] :
                      /\ \A s \in Sides : \/ quotes[s] = NoQuote
                                          \/ quotes[s] \in OfSide(s) /\ Unused(quotes[s])
                      /\ \E s \in Sides : quotes[s] # NoQuote
                      /\ order' = [i \in Intents |->
                                     IF \E s \in Sides : quotes[s] = i THEN "inflight"
                                     ELSE order[i]]
                      /\ memory' = Committed(quotes)
                /\ UNCHANGED <<up, strategyCancels, unknown, cancelSent, breaker>>

-----------------------------------------------------------------------------
(* The callbacks                                                            *)

\* Slip: the quote is not released.
ReleasedCancelOnly(i) == /\ strategyCancels' = strategyCancels \ {i}
                         /\ UNCHANGED memory

\* _release_terminal_intent and release_intent
Released(i) == /\ strategyCancels' = strategyCancels \ {i}
               /\ memory' = [s \in Sides |-> IF memory[s] = i THEN NoQuote ELSE memory[s]]

Terminal(i) == /\ order' = [order EXCEPT ![i] = "none"]
               /\ unknown' = unknown \ {i}
               /\ cancelSent' = cancelSent \ {i}
               /\ Released(i)
               /\ UNCHANGED <<up, startupOrderDrain, breaker>>

OrderAccepted(i) == /\ up /\ order[i] = "inflight"
                    /\ order' = [order EXCEPT ![i] = "open"]
                    /\ unknown' = unknown \ {i}
                    /\ UNCHANGED <<up, memory, strategyCancels, flags, cancelSent, breaker>>

\* on_order_rejected and on_order_denied
OrderRejected(i) == /\ up /\ order[i] = "inflight"
                    /\ Terminal(i)
                    /\ UNCHANGED riskCancelPending

\* A final on_order_filled, or on_order_expired: neither clears the flag.
OrderFilled(i) == /\ up /\ Working(i)
                  /\ Terminal(i)
                  /\ UNCHANGED riskCancelPending

\* Asked for here, by the sentinel or by the dead-man timer.
OrderCanceled(i) == /\ up /\ order[i] = "open"
                    /\ Terminal(i)
                    /\ riskCancelPending' = FALSE

CancelRejected(i) == /\ up /\ order[i] = "open" /\ i \in cancelSent
                     /\ cancelSent' = cancelSent \ {i}
                     /\ strategyCancels' = strategyCancels \ {i}
                     /\ unknown' = unknown \ {i}
                     /\ riskCancelPending' = FALSE
                     /\ UNCHANGED <<up, memory, startupOrderDrain, order, breaker>>

-----------------------------------------------------------------------------
(* The heartbeat thread's sweep, the process, and the world                 *)

\* mark_stale_submissions_unknown: submissions, and cancels that went through
\* the journal, without an answer for too long.
TimesOut(i) == /\ up /\ i \notin unknown
               /\ order[i] \in {"inflight", "lost"} \/ i \in strategyCancels
               /\ unknown' = unknown \cup {i}
               /\ UNCHANGED <<up, memory, strategyCancels, flags, order, cancelSent, breaker>>

\* A crash, or an exception: some of the working orders may have been canceled
\* before the engines shut down.
NodeStops == /\ up
             /\ up' = FALSE
             /\ memory' = [s \in Sides |-> NoQuote]
             /\ strategyCancels' = {}
             /\ riskCancelPending' = FALSE
             /\ startupOrderDrain' = FALSE
             /\ \E asked \in SUBSET {i \in Intents : Working(i)} :
                   cancelSent' = cancelSent \cup asked
             /\ UNCHANGED <<order, unknown, breaker>>

\* Meanwhile orders finish; one in flight may turn out never to have left.
EndsUnseen(i) == /\ ~ up
                 /\ \/ order[i] = "open"     /\ order' = [order EXCEPT ![i] = "none"]
                    \/ order[i] = "inflight" /\ order' = [order EXCEPT ![i] = "none"]
                    \/ order[i] = "inflight" /\ order' = [order EXCEPT ![i] = "lost"]
                 /\ cancelSent' = cancelSent \ {i}
                 /\ UNCHANGED <<up, memory, strategyCancels, flags, unknown, breaker>>

OpensUnseen(i) == /\ ~ up /\ order[i] = "inflight"
                  /\ order' = [order EXCEPT ![i] = "open"]
                  /\ UNCHANGED <<up, memory, strategyCancels, flags, unknown, cancelSent, breaker>>

\* Slip: on_start leaves the orders it finds to the first cycle.
NodeStartsUndrained == /\ ~ up
                       /\ \A i \in Intents : order[i] # "inflight"
                       /\ up' = TRUE
                       /\ unknown' = {i \in unknown : order[i] = "lost"}
                       /\ UNCHANGED <<memory, strategyCancels, flags, order, cancelSent, breaker>>

\* Nautilus has reconciled (external): it knows of each order whether it is
\* open. on_start then cancels what is.
NodeStarts == /\ ~ up
              /\ \A i \in Intents : order[i] # "inflight"
              /\ up' = TRUE
              /\ startupOrderDrain' = (OpenOrders # {})
              /\ riskCancelPending' = (OpenOrders # {})
              /\ cancelSent' = cancelSent \cup OpenOrders
              /\ unknown' = {i \in unknown : order[i] = "lost"}
              /\ UNCHANGED <<memory, strategyCancels, order, breaker>>

\* Losses, drawdown, leverage, data, connection, admission and the kill switch
BreakerChanges == /\ breaker' \in {"active", "reduce_only", "blocked"}
                  /\ UNCHANGED <<up, memory, strategyCancels, flags, order, unknown, cancelSent>>

-----------------------------------------------------------------------------
Init == /\ up = FALSE
        /\ memory = [s \in Sides |-> NoQuote]
        /\ strategyCancels = {}
        /\ riskCancelPending = FALSE
        /\ startupOrderDrain = FALSE
        /\ order = [i \in Intents |-> "none"]
        /\ unknown = {}
        /\ cancelSent = {}
        /\ breaker = "active"

Cycle == RiskDrain \/ StartupDrain \/ CycleQuiet \/ CycleCancels \/ CycleSubmits

Callback(i) == \/ OrderAccepted(i) \/ OrderRejected(i) \/ OrderFilled(i)
               \/ OrderCanceled(i) \/ CancelRejected(i)

Next == \/ Cycle
        \/ \E i \in Intents : Callback(i) \/ TimesOut(i) \/ EndsUnseen(i) \/ OpensUnseen(i)
        \/ NodeStops \/ NodeStarts \/ BreakerChanges

Spec == Init /\ [][Next]_vars

\* Book updates keep coming and a drain that is due runs; an order in flight is
\* answered, and one whose cancel is asked for again and again is canceled
\* (external).
Fairness == /\ WF_vars(RiskDrain) /\ WF_vars(StartupDrain)
            /\ \A i \in Intents :
                  /\ WF_vars(OrderAccepted(i) \/ OrderRejected(i))
                  /\ SF_vars(i \in cancelSent /\ OrderCanceled(i))

FairSpec == Spec /\ Fairness

-----------------------------------------------------------------------------
(* Properties                                                               *)

TypeOK == /\ up \in BOOLEAN
          /\ memory \in [Sides -> Intents \cup {NoQuote}]
          /\ \A s \in Sides : memory[s] \in OfSide(s) \cup {NoQuote}
          /\ strategyCancels \subseteq Intents
          /\ riskCancelPending \in BOOLEAN /\ startupOrderDrain \in BOOLEAN
          /\ order \in [Intents -> {"none", "inflight", "open", "lost"}]
          /\ unknown \subseteq Intents
          /\ cancelSent \subseteq Intents
          /\ breaker \in {"active", "reduce_only", "blocked"}

\* Never do two quotes of one side work at the same time, across replacements,
\* lost and refused cancels, timeouts and restarts.
NoOverlap == \A s \in Sides : \A i, j \in OfSide(s) : Working(i) /\ Working(j) => i = j

\* New quotes are submitted only when nothing works any more, whichever process
\* had submitted it and whichever answers are outstanding.
SubmitsIntoEmptyBook ==
    [][(\E i \in Intents : order[i] = "none" /\ order'[i] = "inflight") =>
          \A j \in Intents : ~ Working(j)]_vars

\* A quote the kernel remembers is one it still has, so that asking for its
\* cancel cannot fail for want of an order.
MemoryIsLive == \A i \in Remembered : Working(i)

\* In a breach that lasts the book is empty again and again, unless a flag that
\* no answer clears holds up the next cancel.
DrainsOrWaits ==
    <>[](up /\ RiskState # "active") => []<>(OpenOrders = {}) \/ <>[]riskCancelPending

\* "Economic breakers drain resting orders first"
\* (PHASE_4_6_LIVE_STRATEGY_CONVERGENCE.md:61-62).
BreakersDrain == <>[](up /\ breaker = "reduce_only") => []<>(OpenOrders = {})

-----------------------------------------------------------------------------
(* The inductive strengthening of NoOverlap                                 *)

\* A working order is one the kernel remembers, or one that startup found.
WorkingIsKnown == up => \A i \in Intents :
    /\ order[i] = "inflight" => i \in Remembered
    /\ order[i] = "open" => i \in Remembered \/ startupOrderDrain

\* A process that is gone remembers nothing.
MemoryIsGone == ~ up => Remembered = {}

CycleInv == TypeOK /\ MemoryIsGone /\ MemoryIsLive /\ WorkingIsKnown /\ NoOverlap
=============================================================================
