---------------------------- MODULE ShadowEngine ----------------------------
(***************************************************************************)
(* Shadow trading (shadow/): a gateway appends public frames to a durable  *)
(* ingress log, an isolated engine consumes them in order, commits what it *)
(* did to the paper journal and then, in another database, to the audit.   *)
(* Both processes may be killed at any point between two commits and are   *)
(* started again from what is durable.                                     *)
(*                                                                         *)
(* Time counts in ticks. Between two ticks the engine keeps up: it has     *)
(* consumed the log, and its watchdog is not overdue.                      *)
(***************************************************************************)
EXTENDS PaperEngine

CONSTANTS
    Tapes,              \* what the exchange may send: sequences of frames
    Menu,               \* the orders a strategy may ask for
    WatchdogInterval,   \* watchdog_interval_ms
    MaxLag,             \* maximum_ingress_lag_ms
    MaxTime, MaxIntents, MaxCrashes, MaxKills

ASSUME ShadowAssumption ==
    /\ Tapes \subseteq Seq(Frames)
    /\ \A t \in Tapes : \A q \in DOMAIN t : Validated(t[q])
    /\ Menu \subseteq Intents
    /\ {WatchdogInterval, MaxTime, MaxCrashes} \subseteq Nat

VARIABLES
    now,        \* clock
    tape,       \* frames the exchange sends in this behaviour
    ingress,    \* how many of them are in the log
    kill,       \* [active, since, times]: the operator's switch
    journal,    \* durable: the paper journal
    audit,      \* durable: source sequences with a cycle sample, and failures
    service,    \* the engine's process, but for the engine
    engine,     \* the paper engine, Off until the first market state
    step,       \* where the process is: [at, ...] with what it carries
    crashes

vars == <<now, tape, ingress, kill, journal, audit, service, engine, step, crashes>>

Idle == [at |-> "idle"]
Down == [up |-> FALSE]
Running(where) == service.up /\ step.at = where

-----------------------------------------------------------------------------
(* The gateway and the clock                                                *)

\* ShadowIngressWriter.append, as frames are received.
Append1 == /\ ingress < Len(tape)
           /\ tape[ingress + 1].receive = now
           /\ ingress' = ingress + 1
           /\ UNCHANGED <<now, tape, kill, journal, audit, service, engine, step, crashes>>

Tick == /\ now < MaxTime
        /\ ingress < Len(tape) => tape[ingress + 1].receive > now
        /\ service.up => /\ step = Idle
                         /\ service.cursor = ingress
                         /\ now < service.nextWatchdog
        /\ now' = now + 1
        /\ UNCHANGED <<tape, ingress, kill, journal, audit, service, engine, step, crashes>>

-----------------------------------------------------------------------------
(* Consuming the log                                                        *)

\* Slip: a resumed run continues at the end of the log.
InitialCursorAtEnd(j, latest) == latest

\* _initial_cursor: a known run continues after the last state it committed,
\* a new one at the end of the log.
InitialCursor(j, latest) == IF j.start = None THEN latest
                            ELSE IF j.checkpoint.source = None THEN j.start
                            ELSE j.checkpoint.source

Start == /\ ~ service.up
         /\ service' = [up |-> TRUE, a |-> EmptyAssembler, mark |-> None, rate |-> 0,
                        nextFunding |-> None, contextAt |-> None, receivedAt |-> None,
                        cursor |-> InitialCursor(journal, ingress),
                        runStart |-> IF journal.start = None THEN ingress ELSE journal.start,
                        nextWatchdog |-> now + WatchdogInterval]
         /\ UNCHANGED <<now, tape, ingress, kill, journal, audit, engine, step, crashes>>

\* The process ends with an exception and the audit says so.
Fail == /\ service' = Down /\ engine' = Off /\ step' = Idle
        /\ audit' = IF engine.on THEN [audit EXCEPT !.failures = @ \cup {"service_failure"}]
                    ELSE audit

Context(s, e) == IF e.kind # "context" THEN s
                 ELSE [s EXCEPT !.mark = e.mark, !.contextAt = e.receive, !.rate = e.rate,
                                !.nextFunding = e.next]

\* consume_record up to the engine.
Consume ==
    /\ Running("idle") /\ service.cursor < ingress
    /\ LET q == service.cursor + 1
           e == tape[q]
           seen == [Context(service, e) EXCEPT !.receivedAt = e.receive]
       IN  \E o \in {Observe(service.a, e)} :
           IF e.kind = "control"
           THEN service' = [service EXCEPT !.cursor = q, !.receivedAt = e.receive]
                /\ UNCHANGED <<audit, engine, step>>
           ELSE IF Raises(service.a, e) THEN Fail
           ELSE IF o.states = <<>>
           THEN service' = [seen EXCEPT !.a = o.a, !.cursor = q]
                /\ UNCHANGED <<audit, engine, step>>
           ELSE /\ service' = [seen EXCEPT !.a = o.a]
                /\ step' = [at |-> "market", market |-> o.states[1], source |-> q]
                /\ UNCHANGED <<audit, engine>>
    /\ UNCHANGED <<now, tape, ingress, kill, journal, crashes>>

\* The engine is made for the first market state of the process.
StartEngine ==
    /\ Running("market") /\ ~ engine.on
    /\ LET t == step.market.observed
           mark == IF service.mark = None THEN Mid(step.market) ELSE service.mark
           made == IF journal.start = None THEN Begin(journal, service.runStart, mark, t)
                   ELSE Resume(journal, t)
       IN  journal' = made.journal
           /\ engine' = [made.engine EXCEPT !.startedAt = now]
    /\ UNCHANGED <<now, tape, ingress, kill, audit, service, step, crashes>>

Submissions == {<<>>} \cup {<<intent>> : intent \in Menu}

\* on_market: the engine moves on in memory, and the market structure and the
\* events are committed on their own, before the cycle is.
Decision(cancels, submits) ==
    /\ Running("market") /\ engine.on
    /\ LET m == step.market
           q == step.source
           e == UpdateContext(engine, service.rate, service.nextFunding)
           connected == /\ service.contextAt # None
                        /\ m.observed - service.contextAt <= Limits.publicStale
                        /\ now - service.receivedAt <= MaxLag
           gap == FundingGap(e, m.observed)
       IN  \E s \in {Simulate(e, m, service.mark, connected, q, kill.active)} :
           \E early \in {RecordDrills(IF gap THEN RecordEvent(journal, "funding_gap")
                                    ELSE journal, s.drills)} :
              IF OutOfOrder(e, m, q) THEN Fail /\ UNCHANGED journal
              ELSE IF StructureRaises(e.structure, m.observed) THEN Fail /\ journal' = early
              ELSE \E d \in {Decided(s.e, kill.active, cancels, submits, m.observed)} :
                   /\ journal' = IF d.e.structure.revision = e.persisted THEN early
                                 ELSE [early EXCEPT !.structure = d.e.structure]
                   /\ engine' = AfterCycle(d)
                   /\ step' = [at |-> "commit", c |-> Cycle(s, d, m, q)]
                   /\ UNCHANGED <<audit, service>>
    /\ UNCHANGED <<now, tape, ingress, kill, crashes>>

\* Any submission and the cancellation of any open order of the strategy.
Decide1 == /\ engine.on
           /\ \E cancels \in {{}, Open(engine.x)}, submits \in Submissions :
                 /\ engine.memory.next + Len(submits) <= MaxIntents + 1
                 /\ Decision(cancels, submits)

CommitCycle == /\ Running("commit")
               /\ journal' = RecordEngineCycle(journal, step.c)
               /\ step' = [at |-> "audit", source |-> step.c.source]
               /\ UNCHANGED <<now, tape, ingress, kill, audit, service, engine, crashes>>

\* Slip: only a cycle that saw trades leaves a sample.
AuditCycleOfTrades ==
    /\ Running("audit")
    /\ audit' = IF journal.cycles[step.source] = {} THEN audit
                ELSE [audit EXCEPT !.cycles = @ \cup {step.source}]
    /\ service' = [service EXCEPT !.cursor = step.source]
    /\ step' = Idle
    /\ UNCHANGED <<now, tape, ingress, kill, journal, engine, crashes>>

\* audit.record_cycle, in the other database, and the cursor moves.
AuditCycle == /\ Running("audit")
              /\ audit' = [audit EXCEPT !.cycles = @ \cup {step.source}]
              /\ service' = [service EXCEPT !.cursor = step.source]
              /\ step' = Idle
              /\ UNCHANGED <<now, tape, ingress, kill, journal, engine, crashes>>

-----------------------------------------------------------------------------
(* The watchdog                                                             *)

\* _watchdog: what changed is committed first, the checkpoint after it.
WatchdogCall ==
    /\ Running("idle") /\ now >= service.nextWatchdog
    /\ service' = [service EXCEPT !.nextWatchdog = now + WatchdogInterval]
    /\ LET connected == service.receivedAt # None /\ now - service.receivedAt <= MaxLag
       IN  IF ~ engine.on THEN UNCHANGED <<engine, journal, step>>
           ELSE \E w \in {Watchdog(engine, connected, kill.active, now)} :
                /\ engine' = w.e
                /\ IF w.x.changed = {}
                   THEN journal' = RecordDrills(journal, w.drills) /\ UNCHANGED step
                   ELSE /\ journal' = RecordCycle(journal, w.x)
                        /\ step' = [at |-> "checkpoint", drills |-> w.drills]
    /\ UNCHANGED <<now, tape, ingress, kill, audit, crashes>>

WatchdogCheckpoint ==
    /\ Running("checkpoint")
    /\ journal' = RecordDrills(RecordCheckpoint(journal, CheckpointOf(engine, now)), step.drills)
    /\ step' = Idle
    /\ UNCHANGED <<now, tape, ingress, kill, audit, service, engine, crashes>>

-----------------------------------------------------------------------------
(* Operators and crashes                                                    *)

Kill == /\ ~ kill.active /\ kill.times < MaxKills
        /\ kill' = [active |-> TRUE, since |-> now, times |-> kill.times + 1]
        /\ UNCHANGED <<now, tape, ingress, journal, audit, service, engine, step, crashes>>

Clear == /\ kill.active
         /\ kill' = [kill EXCEPT !.active = FALSE]
         /\ UNCHANGED <<now, tape, ingress, journal, audit, service, engine, step, crashes>>

Crash == /\ service.up /\ crashes < MaxCrashes
         /\ crashes' = crashes + 1
         /\ service' = Down /\ engine' = Off /\ step' = Idle
         /\ UNCHANGED <<now, tape, ingress, kill, journal, audit>>

-----------------------------------------------------------------------------
Init == /\ now = 0 /\ tape \in Tapes /\ ingress = 0
        /\ kill = [active |-> FALSE, since |-> 0, times |-> 0]
        /\ journal = NewJournal /\ audit = [cycles |-> {}, failures |-> {}]
        /\ service = Down /\ engine = Off /\ step = Idle /\ crashes = 0

Process == \/ Start \/ Consume \/ StartEngine \/ Decide1 \/ CommitCycle \/ AuditCycle
           \/ WatchdogCall \/ WatchdogCheckpoint

Next == Append1 \/ Tick \/ Process \/ Kill \/ Clear \/ Crash

Spec == Init /\ [][Next]_vars

-----------------------------------------------------------------------------
(* Properties                                                               *)

\* The variables have their types. A type invariant.
TypeOK == /\ now \in 0 .. MaxTime /\ ingress \in 0 .. Len(tape)
          /\ kill.active \in BOOLEAN /\ crashes \in 0 .. MaxCrashes
          /\ step.at \in {"idle", "market", "commit", "audit", "checkpoint"}
          /\ step # Idle => service.up
          /\ engine.on => service.up /\ journal.start # None
          /\ \A i \in DOMAIN journal.orders :
                /\ journal.orders[i].state \in OrderStates
                /\ journal.orders[i].filled \in 0 .. journal.orders[i].quantity
          /\ DOMAIN journal.cycles \subseteq 1 .. ingress
          /\ audit.failures \subseteq {"service_failure"}

Sum(S, Value(_)) == FoldSet(LAMBDA f, n : n + Value(f), 0, S)
Signed(f) == Sign(f.side) * f.quantity

\* Whatever crashed between which commits, the journal explains its account:
\* the position and the fees are those of its fills, every order has filled what
\* its fills say, and cash moved only by what is accounted for
\* (paper/journal.py record_cycle with paper/simulator.py _apply_fill).
JournalBalances ==
    LET a == journal.account
        Quantity(f) == f.quantity
        Fee(f) == f.fee
    IN  journal.start # None =>
        /\ a.position = Sum(journal.fills, Signed)
        /\ a.fees = Sum(journal.fills, Fee)
        /\ a.cash + (IF a.position < 0 THEN 0 - a.cost ELSE a.cost)
             = Capital * Bp + a.realized - a.fees + a.funding
        /\ \A i \in DOMAIN journal.orders :
              journal.orders[i].filled
                = Sum({f \in journal.fills : f.order = i}, Quantity)

Received(q) == tape[q].kind = "trade" /\ ~ Stale(tape[q])
Later(q) == {c \in DOMAIN journal.cycles : c > q}

\* A trade of the log reaches the simulated exchange once: it is in the first
\* state committed after it, unless it was too old by then, and in no other,
\* across every crash and replay (shadow/service.py _initial_cursor with
\* paper/market.py observe).
TapeOnce ==
    /\ \A c, d \in DOMAIN journal.cycles : c # d => journal.cycles[c] \cap journal.cycles[d] = {}
    /\ \A q \in 1 .. Len(tape) :
          /\ journal.start # None /\ q > journal.start /\ Received(q) /\ Later(q) # {}
          /\ tape[Min(Later(q))].receive - tape[q].event <= MaxInputAge
          => tape[q].id \in journal.cycles[Min(Later(q))]

\* A state that the kernels accept is made of whatever the gateway recorded
\* (paper/market.py with backtest/kernel.py validate_causal_book).
StatesAreCausal == step.at = "market" => Causal(step.market)

\* An order that ended stays as it ended: no replay after a crash reuses its
\* identity or fills it again (the checkpoint of record_engine_cycle).
TerminalOrdersStay ==
    [][\A i \in DOMAIN journal.orders :
          journal.orders[i].state \in Terminal => journal'.orders[i] = journal.orders[i]]_vars

\* Two watchdog calls after a kill nothing is open any more, although every call
\* and every market state asks for the cancellation again and so puts it off
\* (paper/engine.py watchdog: elapse before request_cancel_all).
KilledOrdersDrain ==
    /\ kill.active /\ engine.on /\ step = Idle
    /\ now >= Greatest(kill.since, engine.startedAt) + 2 * WatchdogInterval + Scenario.response
    => Open(engine.x) = {}

\* operational_sample_completeness of shadow/evidence.py
SampleComplete == Cardinality(audit.cycles) = Cardinality(DOMAIN journal.cycles)

\* The audit never runs ahead of the journal and a crash costs it at most one
\* sample, so that equal counts mean that nothing is missing
\* (shadow/service.py consume_record with shadow/evidence.py).
AuditGapIsVisible ==
    /\ audit.cycles \subseteq DOMAIN journal.cycles
    /\ SampleComplete <=> audit.cycles = DOMAIN journal.cycles
    /\ Cardinality(DOMAIN journal.cycles \ audit.cycles)
          <= crashes + (IF step.at = "audit" THEN 1 ELSE 0)

\* "Recovery replays after that boundary" (docs/migration/PHASE_8_SHADOW.md:120):
\* what follows the checkpoint in the log is later than anything the restored
\* engine has seen, or it refuses the first state of every restart.
RecoveryReplays ==
    ~ service.up /\ journal.start # None =>
        \A q \in InitialCursor(journal, ingress) + 1 .. ingress :
            tape[q].kind \in {"bbo", "l2"} => ~ StructureRaises(journal.structure, tape[q].receive)
=============================================================================
