# A verification project for AIQuantTrader

AIQuantTrader trades BTC perpetuals on Hyperliquid through NautilusTrader. This
directory holds TLA+ models of its trading path, TLC configurations that check
them on small instances, and TLAPS proofs of what matters most for instances of
every size. All paths below are relative to `src/src/aiquanttrader/` unless they
begin with `docs/`, `ops/` or a compose file.

Contents: 1 inventory, 2 modelled components and the code, 3 what the runs show,
4 bounds, 5 fairness, 6 what is proved, 7 what is only model-checked, 8 what the
models leave out, 9 disagreements of code and documents, 10 plan.

## 1. Inventory

### The trading path

Two containers trade an account: the *node* and the *sentinel*. They share a
Docker volume with the heartbeat file, the kill file and the admission ledger,
and nothing else. The exchange is the third party: it holds the orders and one
scheduled cancel (the dead-man timer) per account.

```
 operator / controller ----> kill file, admission ledger
                                  |            |
   market data                    v            v
      |     +---------------- trading node ----------------+
      +---> | live market cycle -> gateway -> risk authority|
            |        ^               | ^                    |
            |        |  callbacks    v | sweep 1/s          |
            |     Nautilus <---   journal <--- heartbeat    |
            |        |                          thread      |
            +--------|------------------------------|-------+
                     v                              v
                  exchange <------ sentinel <-- heartbeat file
                  (orders, timer)  schedule_cancel, cancel_all
```

| Component | Source | State it keeps | Operations |
|---|---|---|---|
| Order journal | `execution/journal.py` | one SQLite row per intent: state, time, filled quantity; an event log | `begin`, `append`, `mark_stale_submissions_unknown`, two counts |
| Order gateway | `execution/strategy.py` | health, cancel budget, where the event-loop thread is inside a call | `execute_intent`, `replace_order`, `cancel`, `cancel_all`, the `on_order_*` callbacks |
| Node and heartbeat thread | `execution/node.py`, `execution/cli.py`, `execution/heartbeat.py` | health lease, heartbeat file, stop event | startup, a sweep and a publication every interval, shutdown on exception |
| Live market cycle | `execution/strategy.py` (`_process_live_market`), `execution/live.py`, `strategies/market_maker.py` | quote memory, pending cancels, drain flags | one cycle per book update: risk drain, startup drain, cancel before replace, submit, `commit`, `release_intent` |
| Risk authority | `risk/authority.py` | consumed approvals, request times | `evaluate`, `state`, `consume` |
| Kill switch | `risk/kill_switch.py` | state file, audit file | `activate`, `clear`, `read` |
| Safety sentinel | `sentinel/service.py`, `sentinel/cli.py` | time of the last renewal and of the last emergency cancel | one `step` per poll: classify, renew the timer or cancel all |
| Equity baseline | `execution/live.py` | session, day and all-time high-water marks on disk | `observe` |
| Deployment admission | `governance/ledger.py`, `governance/approval.py` | hash-chained admissions and renewals, one active record per account | `admit`, `renew`, `deactivate`, `require_active` |

### Before, beside and after it

| Component | Source | State it keeps | Operations |
|---|---|---|---|
| Market data capture | `market_data/recorder.py`, `raw.py`, `catalog.py`, `io.py` | open segment, manifests, catalog, counters of the process | connect, archive, rotate, finalize, reconnect, recover |
| Normalization and admission | `market_data/storage.py`, `normalizer.py`, `protocol.py`, `integrity.py`, `admission.py`, `evidence.py` | tables, normalized manifests, catalog; a tracker per segment | run a batch, quarantine, admit a dataset, evaluate a soak |
| Paper trading | `paper/engine.py`, `simulator.py`, `market.py`, `journal.py` | simulated orders, account, tape; SQLite cycles and checkpoints | market states, activation, fills, delayed cancels, funding, watchdog, resume |
| Shadow deployment | `shadow/gateway.py`, `ingress.py`, `service.py`, `audit.py` | checksummed ingress log, cursor, audit chain | append, consume, replay, commit, audit |
| Release governance | `governance/bundle.py`, `evidence.py`, `cli.py` | reports and bundles on an operator's disk | evaluate, prepare, sign, admit |
| Retirement | `retirement/` | evidence bundles that people fill, documents that are written once | assemble, evaluate, approve, verify, close |
| Features, strategies, backtest, research, acceptance | `features/`, `strategies/`, `backtest/`, `research/`, `acceptance/` | sliding windows, signal memory, experiments, stage events, an operational log | numeric updates, batch replay, search, registration |
| Configuration, storage health, historical download, LLM worker | `config/`, `service/`, `market_data/tardis.py`, `paper/llm.py` | none that a protocol depends on | validation, probes, downloads |

```
 exchange --> recorder --> raw segments --> normalizer --> datasets, soak report
    |                                                          (research, backtest)
    +--> shadow gateway --> ingress log --> engine: assembler, risk, simulator
                                              |  paper journal, audit --> shadow report
 shadow, testnet, canary reports --> release bundle --> signed approval --> ledger
                                                                              |
                     trading node and sentinel ask it before every command <--+
 ledger copy, audits, archives of the old trader --> retirement reports and approvals
```

### What makes each of them hard, and what makes it correct

- *Journal and gateway.* A command is several journal transactions with a risk
  decision and a hand-over between them, while the heartbeat thread times rows
  out, callbacks bring late or reordered events, Nautilus raises after it may
  have sent, and the process may die anywhere. Correct: durable before sent,
  sent at most once, nothing final that still works at the venue, fills never
  invented, outstanding commands below the limit, no command forgotten.
- *Heartbeat.* A verdict travels over three hops (lease, file, sentinel), each
  of which may stop with the others going on. Correct: the file is well only if
  the event loop was so recently, and nothing else.
- *Sentinel.* A deadline computed before a blocking call, calls that take effect
  and then fail, orders in flight while it lists them, its own restarts.
  Correct: the timer ends with supervision and not before; an emergency clears
  the book.
- *Live market cycle.* Cancels are remembered until an event clears them, the
  quote memory until a terminal event releases it, and events come between
  cycles. Correct: never two working quotes on a side, a drain that ends.
- *Risk authority.* What was true at evaluation is used at consumption. Correct:
  an approval is used once, for its intent, while it is still true.
- *Kill switch.* Two files are written one after the other. Correct: a crash
  never leaves trading allowed that was not audited as cleared.
- *Admission.* Renewals verified before the transaction waits for its lock,
  records that expire but stay ACTIVE, replays. Correct: one active admission
  per account, a chain that extends only its head, no authority that comes back.
- *Paper and shadow.* Several transactions in two databases make one cycle, the
  memory is ahead of them, and a restart replays a log. Correct: each trade is
  simulated once, the journal explains its account, what ended stays ended, and
  a killed run drains although every call puts its cancellations off.
- *Market data.* A segment is published in file-system steps, a batch is killed
  between immutable files, and the soak report joins files with counters that
  restart with their process. Correct: what is quarantined was damaged, a
  readable segment is what was received, a soak accepted under the shipped policy
  has no hole.
- *Release governance.* Reports stay on disk while what they report on changes.
  Correct: nothing is admitted that was not rehearsed as what it is.
- *Retirement.* People act on documents that expire, about a system that may
  change between two captures. Correct: what the last document claims happened,
  while it was authorized.

`PROJECT.json` lists under `hazards` the places in the code where these bite,
with the properties that cover them.

## 2. Modelled components and the code

### SubmitOnce — the promise about one intent

`idle -> reserved -> sent -> settled`: an intent is durable before it is sent,
sent at most once, and not reopened. `ExecutionGateway` implements it under the
refinement mapping `phase` (settled iff the row is terminal, sent iff it was
handed over, reserved iff there is a row).

### ExecutionJournal — `execution/journal.py`

| TLA+ | Code |
|---|---|
| `state`, `filled`, `age` | columns `state`, `filled_quantity_base`, `updated_ts_ns` of one row per intent |
| `AllowedTransitions`, `CanAppend` | `ALLOWED_TRANSITIONS`; a state may always repeat itself |
| `JournalBegin`, `JournalAppend`, `MarkStale` | `begin`, `append`, `mark_stale_submissions_unknown`, one transaction each |
| `UnresolvedCount`, `UnknownCount` | the two counts the risk authority reads |

`updated_ts_ns` is an age that saturates where the code stops distinguishing.

### ExecutionGateway — `execution/strategy.py`, with its surroundings

`pc` is the point the event-loop thread reached between two journal
transactions of a call; the heartbeat thread's sweep, the kill file, the clock,
the venue and a crash are interleaved at each of them.

| Actions | Code |
|---|---|
| `ExecuteAllowed` ... `RecordCommandUnknown` | `execute_intent`: evaluate, `begin`, denial or `consume`, SUBMITTED, `submit_order`, UNKNOWN when it raises |
| `CancelOrder`, `CancelDispatch`, `CancelAll` | `cancel`, `cancel_all` |
| `ReplaceDenied` ... `ModifyDispatchRaises` | `replace_order`, with the state it read at the start in `readState` |
| `DeliverEvent`, `DeliverReply`, `CallbackRaises` | the `on_order_*` callbacks, and an exception in one |
| `JournalRefuses`, `CallRaises` | `InvalidTransitionError` and the other exceptions; `_fail_closed` and the stop of the node |
| `MarkStaleSubmissions`, `Crash`, `Restart` | heartbeat loop, death, `cli.run` with `on_start` |
| `Transmit` ... `VenueRefuseModify` | Nautilus and the exchange: external, from the events the callbacks accept |

Queues of `events` are per order and in order; `reply` is the separate channel
of rejected cancels and modifies, so a reply may overtake an event.

### LiveMarketCycle — `_process_live_market`, `execution/live.py`, the market maker

One cycle, or one callback, is one action: both run on the event loop, and what
happens inside a gateway call is `ExecutionGateway`'s subject. An order is not
there, in flight, open in the cache, or lost (its row never ends).

| Actions | Code |
|---|---|
| `RiskDrain`, `StartupDrain` | the two `cancel_all` branches, guarded by `_risk_cancel_pending` |
| `ReachesAlpha` | risk block and drains passed, flags cleared on the way; a blocked cycle changes nothing and is a stutter |
| `CycleQuiet`, `CycleCancels`, `CycleSubmits` | the kernel keeps its quotes, gives them up or replaces them (cancels only), or quotes; then `commit` |
| `OrderAccepted` ... `CancelRejected` | callbacks: which ones release the quote, and which clear the flag |
| `TimesOut` | the heartbeat thread's sweep: an UNKNOWN row blocks the risk state |
| `NodeStops`, `NodeStarts` | every exception or crash; `on_start` after reconciliation |
| `BreakerChanges` | whatever the risk snapshot may say at the next cycle |

REDUCE_ONLY and FLATTENING act alike in the cycle, as do CANCEL_ONLY and HALTED.
An order in flight when the process ends is assumed to have its outcome by the
time Nautilus has reconciled.

### Heartbeat — `execution/heartbeat.py`, `execution/node.py`

`JudgeHealth` and `ReportHealth` are the two halves of one market cycle: what
was read, and `update_risk_health` with it. `CheckAuthority` and `Publish` are
the two halves of an iteration of the heartbeat thread. `NodeStops` publishes a
last unhealthy file, `NodeCrashes` does not. `EndAuthority`, `RenewAuthority`
and `OperatorKill` are other processes. The history variable `neglect` counts
the ticks since the event loop last reported well; no guard reads it.

### SafetySentinel — `sentinel/service.py`, `sentinel/cli.py`

| Actions | Code |
|---|---|
| `StepQuiet`, `StepRenews`, `StepHolds`, `StepCancels` | the four ways through `SafetySentinel.step`, by `_classify` and the two intervals |
| `VenueSchedules`, `VenueListsOrders`, `VenueCancels` | the moment the exchange carries out a call (external) |
| `RenewReturns`, `QueryReturns`, `CancelReturns` | the rest of the step after the call |
| `CallFails` | retry of `cancel_all` within the step, or the exception that ends `main` with 2 |
| `SentinelStarts` | `main`, which requires an active admission |
| `TimerFires` | the scheduled cancel: once, then it is gone (external) |

The call's deadline is computed before the call (`timer' = Timeout - callAge`
whenever the venue gets it), and `_last_renew_ns` is the time the step began
(`sinceRenew' = stepAge`).

### DeploymentLedger and ReleaseGovernance — `governance/`

A controller's command reads the clock, verifies what it was given, and then
waits for the SQLite write lock, at most `LockWait`; meanwhile other commands
commit. So a command is two actions, and the transaction is one.

| Actions | Code |
|---|---|
| `BeginAdmit`, `AdmitCanary`, `AdmitProduction` | `verify_deployment_admission`, `admit` |
| `SignRenewal`, `BeginRenew`, `CommitRenew` | the offline signature, `verify_deployment_renewal`, `renew` |
| `Deactivate`, `CommandFails` | `deactivate`; a failed check, a busy lock or a dead process |
| `ShadowPasses`, `EvaluateTestnet`, `EvaluateCanary` | `evidence.py`, with every gate of the frozen policy |
| `PrepareRelease`, `SignApproval` | `prepare_release_bundle` with `_validate_semantics`; the offline approver |

`DeploymentAuthority` is the promise to the processes that trade: one holder at a
time, handed on, never back. `DeploymentLedger` implements it under the mapping
`authority`, in which a deployment holds its authority until `LockWait` after its
expiry: a renewal that began in time may commit that late.

### PaperExchange, PaperMarket, RiskAuthority, PaperEngine, ShadowEngine — `paper/`, `risk/authority.py`, `shadow/`

The first four are operators on values, one per method: an exchange, an assembler
of market states, a risk snapshot, an engine and a journal. `ShadowEngine` is the
state machine of the two processes that use them; each commit is a step of its
own, and a crash may come between any two.

| Actions | Code |
|---|---|
| `Append1`, `Tick` | `ShadowIngressWriter.append` by the gateway; time |
| `Start` | the service opens journal and audit, verifies them, finds its cursor |
| `Consume` | `consume_record` up to the first market state: control frames, context, assembler |
| `StartEngine`, `Decide1` | `begin` or `resume`; `on_market` in memory, with the transactions it makes early |
| `CommitCycle`, `AuditCycle` | `record_engine_cycle`; the audit's own database, then the cursor |
| `WatchdogCall`, `WatchdogCheckpoint` | `_watchdog`, with its two transactions |
| `Kill`, `Clear`, `Crash` | operator, operator, death of the process |

What the strategy wants is an input: any order of `Menu`, and the cancellation of
all its open orders or none.

### FrameIntegrity, DatasetAdmission, MarketCapture — `market_data/`

`FrameIntegrity` is the parser and the tracker of one connection, `DatasetAdmission`
the datasets and the gates of a soak, both as operators. `MarketCapture` is the
recorder, the normalizer and the operator's commands around them, with the reference
that datasets are compared with.

| Actions | Code |
|---|---|
| `StartRecorder` ... `Halt` | `run` and `_run_connection`: frames archived and counted, rotation, stale feed, disk pressure, errors, shutdown |
| `Rename`, `SyncRename`, `WriteManifest`, `Publish` | `RawSegmentWriter.finalize`, one file-system call after the other, then the catalog |
| `FailFinalize`, `Reconnect`, `LeaveLoop` | what replaces the reason when finalizing raises; the next connection |
| `StartNormalizer`, `RunBatch` | a batch over every manifest that waits: tables, normalized manifest, catalog, or quarantine |
| `CrashRecorder`, `CrashNormalizer`, `LosePower`, `Damage` | death anywhere, unsynced directory entries lost, bit rot |
| `Recover` | the `recover` command |
| `CaptureMetrics`, `Evidence`, `Accepts` | what the evaluator joins, and its verdict |

### EvidenceBundle to LegacyRetirement — `retirement/`

`EvidenceBundle`, `ProductionEvidence`, `LegacyArchive`, `RetirementReadiness`,
`LegacyDisabled`, `LegacyCleanup` and `CleanupOutcome` hold, file by file, what
each command demands of a bundle and of the documents before it. In
`LegacyRetirement` every CLI command that writes is one action: it replays all it
is given and writes its document once. `RetirementEvidence` says what honest
operators put into a bundle; those definitions are external, as are the old
trader, the people and the clock. A document is stored as the instant at which it
was written, and derived again from the bundle as it was.

## 3. What the runs show

| Run | Question | Result |
|---|---|---|
| `gateway_lifecycle` | One order with partial fills, a replacement, timeouts and a crash: is it written ahead, handed over once, settled only when the venue settled it, with real fills? Is the inductive invariant one? Does the gateway implement `SubmitOnce`? Does every command time out or get an answer, and is every finished order settled in the end? | holds, 73,400 states |
| `gateway_pair` | Two orders compete for two in-flight slots: do unanswered submissions stay below the limit? | holds, 1.2 million states |
| `cycle_quotes` | Do quotes of one side ever overlap? Does a cycle submit while anything still works? Does the kernel remember only what it has? In a breach that lasts, is the book empty again and again unless the pending flag sticks? | holds, 20,979 states |
| `sentinel_timer` | Does the timer fire within the horizon whatever dies or hangs, and never under a well node? | holds, 1.4 million states |
| `sentinel_emergency` | Does a lasting emergency clear the book, across failed calls, restarts and orders in flight? | holds, 0.5 million states |
| `release_governance` | Two controllers race, renewals are replayed, admissions expire: does the chain stay linear, does production continue the canary it names, was everything rehearsed, and does authority never come back? | holds, 703,720 states |
| `shadow_engine` | Frames, decisions, a watchdog, a kill and a crash at any commit: does the journal explain its account, is each trade simulated once and only from what was known, do killed orders drain, does nothing final change, is a missing audit sample visible? | holds, 1.1 million states |
| `market_data` | Connections, frames, one crash, power cut or damage: is only damaged data quarantined, is a dataset the record of what was received, has an accepted soak no hole? | holds, 854,601 states |
| `retirement` | Late, forgetful or unlucky operators: do the last documents claim only what happened while it was authorized, and does each verifying command accept what the writing one wrote? | holds, 247,692 states |
| `unknown_stuck` | Is every UNKNOWN command resolved? | violated, section 9 |
| `sentinel_expired` | Does a lasting emergency clear the book even when the admission ended? | violated |
| `shadow_recovery` | Can a restarted engine accept the log that follows its checkpoint? | violated |

Every property of a passing run has a mutant of the code under `mutants`: a
definition named *Slip* beside the one it would replace (a sweep that forgets a
state, a renewal that trusts what it verified before it waited, a rename that is
not synced, an approval looked at only at the end), under which TLC finds the
property violated.

`CommandsTimeOut` excuses callers that repeat commands for ever, because each
`append` refreshes the row's time; that exception is itself a listed hazard.
`TimerAhead` is conditional on `Lapse < Timeout`: renewal interval, poll and two
slow calls must fit in the timeout, which the configuration does not enforce.
`KilledOrdersDrain` states the bound that the code has, which is not the one the
runbook gives (section 9).

## 4. Bounds

| Constant | Values | Why it is enough |
|---|---|---|
| `Intents` | 1; 2 in `gateway_pair` | intents meet only in the two counts and the event-loop thread; two of them compete |
| `Size` | 2 lots, or 1 | 2 gives the partial fill |
| `StaleAge`, `ApprovalTTL` | 1, 0 ticks | an age is fresh or stale; both orders of approval and timeout occur |
| `MaxInflight` | 2 | the smallest limit at which anything is ever consumed; with 1 the reservation itself fills the limit |
| `MaxCrashes`, `MaxModifies` | 1 | the crash may come anywhere, with reconciliation after it; a second one finds the same durable states |
| `Bids`, `Asks` | 2 each | names are used again when an order ends, so rounds are unbounded; two per side are what an overlap needs. No other bound: restarts are unlimited |
| `Lease`, `StaleAfter`, `Timeout`, `Poll`, `Renew`, `Latency` | smallest values that keep the shipped inequalities | the code compares ages only with these |
| `MaxRenewals` of the sentinel | 1 in `sentinel_timer` | old and new expiry differ once |
| `MaxFaults` | 1 | one crash, dead thread or failed call anywhere; the proofs allow any number |
| `CancelRetries` | 1, 2 | last attempt, and one before it |
| `Orders` | none, or one identity used again and again | the timer does not depend on orders; one order in flight while another list is canceled needs only a fresh use of the identity |
| `Controllers`, `Specs`, `MaxRenewals` of the ledger | 2 alike; two canaries and a production; 2 | two commands race; the second canary wants the account of the first; one renewal continues, repeats or forks the other |
| `TTL`, `LockWait`, `MaxTime` of the ledger | 2, 1, 3 | an approval expires while a command waits, and a renewal outlives it |
| `Tapes` | two, of 7 and 11 frames | trades before, between and after the market states, an old frame, a funding payment, a crossed quote |
| `MaxTime`, `MaxIntents`, `MaxCrashes`, `MaxKills` of shadow | 5, 2, 1, 1 | the watchdog runs five times, an order may rest, fill in part and be cancelled, and a crash or kill may come at any step |
| `MaxConnections`, `MaxFrames`, `MaxTime`, `MaxMishaps` of capture | 4, 3, 2, 1 | a stop, a reconnect and a segment that follows both; a repeated trade in one frame; one mishap anywhere |
| `MaxTime`, `MaxDelay`, `MaxMishaps` of retirement | 9, 1, 1 | a flawless retirement ends at 8; one tick may be lost, and one thing go wrong; the policy's ages are too short for a second reading of the clock to differ from the first, and the theorem covers that case |
| `Apart`, `Alterable` | one target, two bundles | the targets are treated alike, each of its own kind; every later command replays the archive, as it does the bundles after it, and none reads again the native evidence of the readiness report |

Ages, `neglect` and the timer saturate at the largest value anything compares
them with. The theorems hold for every value of these constants that satisfies the
assumptions of section 6.

## 5. Fairness

`Spec` assumes none; safety never rests on it, and release governance, shadow
trading, market data and retirement are checked for safety only: what they do
next is up to people, or to a feed. `FairSpec` of the gateway assumes
that time passes, that the heartbeat loop runs (`execution/node.py:218`), that a
call that began goes on, that the process is started again
(`restart: unless-stopped`, `compose.testnet.yaml:7`, `compose.mainnet.yaml:74`),
and, of Nautilus and the venue, that a queued event is delivered in the end when
it is possible again and again (strong, because restarts drop and re-create the
queue by reconciliation) and that a transmitted order is accepted or rejected.
It does not assume that the venue fills, cancels or answers a cancel, nor that
an operator clears a kill.

`FairSpec` of the cycle assumes that book updates keep coming, so that a drain
which is due runs, that an order in flight is accepted or rejected, and that the
venue cancels in the end what it is asked to cancel again and again. It assumes
neither fills nor that a stopped node starts: `up` is in the hypothesis.

`FairSpec` of the sentinel assumes that time passes, that its poll loop goes on
(`sentinel/cli.py:128`), that a call returns or fails within `Latency` (the HTTP
timeout), that its process is started again, and that an order in flight arrives.
It assumes neither that the node is started again, nor that calls succeed: the
bound on faults does. An emergency that lasts is the hypothesis of
`EmergencyClears`, not an assumption.

## 6. What is proved

Seven modules hold the proofs of one component each (`ExecutionGatewayProofs`,
`LiveMarketCycleProofs`, `SafetySentinelProofs`, `ReleaseGovernanceProofs`,
`ShadowEngineProofs`, `MarketCaptureProofs`, `LegacyRetirementProofs`), and
`FoldFacts` what they share about loops. They rest on the assumptions that the
modules name beside their constants, all of which TLC evaluates on the runs'
instances: `JournalAssumption` and `GatewayAssumption`, `CycleAssumption`,
`HeartbeatAssumption` and `SentinelAssumption`, `LedgerAssumption`,
`ScenarioAssumption`, `CapitalAssumption`, `MarketAssumption` and `ShadowAssumption`,
`IntegrityAssumption`, `PolicyAssumption` of `DatasetAdmission` and
`CaptureAssumption`, `PolicyAssumption` of `EvidenceBundle`, `ApprovalAssumption`
and `ClockAssumption`. Most only say that a constant is a number or a finite set;
the others are what the code validates, such as a poll interval below the stale
threshold, or frames that passed `domain/market.py`. One theorem, `TradesArriveOnce`,
has a hypothesis of its own, `TradesAreNamed`: on no tape does the exchange use a
trade identity twice. It is about the exchange, not the program, and no constant of
the model promises it; the tapes of the run satisfy it.

- `TypeCorrect` of the gateway, `WrittenAhead`, `DispatchedOnce`,
  `FinalStatesAreTrue`, `FillsAreReal`, `LimitHolds`, `Invariance`: the invariants
  of the gateway runs, for any finite set of intents, any size, limits and number
  of crashes.
- `Implements`: `ExecutionGateway!Spec => SubmitOnce!Spec` under `phase`.
- `QuotesNeverOverlap`, `SubmissionsWait`, `RememberedQuotesLive`,
  `CycleInvariance`, `CycleTypeCorrect`: the invariants and the action property of
  `cycle_quotes`, for any sets of intents and any number of restarts.
- `SentinelTypeCorrect`, `DeadManFires`, `SentinelInvariance`, `TimerStaysAhead`:
  the invariants of `sentinel_timer`, for all intervals, orders and faults.
- `GovernanceTypeCorrect`, `ChainsStayLinear`, `SuccessionHolds`, `RehearsalHolds`: the
  invariants of `release_governance`, for any release specifications, controllers,
  windows and numbers of renewals, and for whatever gates the observations pass.
- `LedgerRefines`: `ReleaseGovernance!Spec => DeploymentAuthority!Spec` under `authority`.
- `ShadowInvariance`, `ShadowTypeCorrect`, `StatesStayCausal`,
  `AuditGapStaysVisible`, `TerminalOrdersAreFinal`, `BookInvariance`,
  `JournalStaysBalanced`, `TapeInvariance`: of `shadow_engine`, for every
  tape and scenario the assumptions admit, any menu of orders and any number of
  crashes, kills and cycles; and under `TradesAreNamed` `TradesArriveOnce`.
- `CaptureInvariance`, `DamageAloneCorrupts`, `RecordInvariance`,
  `DatasetHoldsTheRecord`, `SoakInvariance`, `SoakHasNoHole`: the properties of
  `market_data`, for every wire, duplicate window, rotation, number of connections and
  mishaps; the last one under the limits of the shipped soak policy.
- `RetirementInvariance`, `StopIsAuthorized`, `WindowIsQuiet`,
  `CleanupIsAuthorized`: the three authorizations that `retirement` checks, for any
  inventory of targets, policy, approval lifetime and number of mishaps; and
  `WrittenVerifies`: what a command writes, its verifier accepts.

**Gateway.** None of the safety properties is inductive: `SettledIsSettled`
depends on what a queued event will record, and that on what the venue did
before. `IInv` adds that venue, cache, events and the hand-over counter speak of
the same orders (`VenueMeansDispatched`), what the event-loop thread may rely on
at each `pc` although the sweep changed rows beneath it (`ThreadKnows`), and that
queued reports are true (`EventsTellTruth`) and its fills in their order
(`FillsComeInOrder`, for the part of `RecordedFillsAreReal` that says no fill report
lowers what is recorded). Its key case is a dispatch: between
`consume` and `submit_order` a row may turn UNKNOWN, but only `Dispatch` at `pc =
"dispatch"` moves `venue` from none, and `ThreadKnows` says the row then is
SUBMITTED or UNKNOWN and was never dispatched. `LimitHolds` needs a cardinality
lemma: a submission that passes `consume` is itself among the counted commands.

**Cycle.** `NoOverlap` says nothing of memory, so `CycleInv` adds what ties the
book to it: a working order is remembered, or was found open by `on_start`
(`WorkingIsKnown`), a remembered quote works, and a process that is gone
remembers nothing. Then a cycle past both drains with an empty memory has an
empty book (`EmptyBook`), which is `SubmissionsWait`, and what it submits is at
most one order per side.

**Sentinel.** `DeadManBound` follows along the chain of hops in
`HeartbeatsAreHonest`: a lease in force is at most `leaseAge` old, a fresh well
file at most `Lease + fileAge`, and a renewal under way at most
`Lease + StaleAfter + callAge`; the deadline it sends is `Timeout - callAge`, so
the sum is bounded by `Horizon`. `TimerStaysAhead` adds what the process
remembers of its own renewals (`TimerRemembered`), with one bound for each place
the step can be in; a lemma on the single tick (`OneTick`) and one on the
trade-off of age and timer (`TradeOff`) carry the arithmetic.

**Release governance.** `Governed` adds to the properties that one deployment at
most is active, what a command that waits for the lock still knows (`CommandsWait`:
it has waited `LockWait` at most, and what it admits was signed and had not expired
when it began), that a consumed renewal belongs to a row (`AppliedIsKnown`), and
where rows come from: signed bundles, these from prepared ones, and these from
evidence, which only grows. The three transactions are reduced to their effects
first (`Admits`, `Prolongs`), so that each later argument reads rows and not nested
updates. For the refinement, an admission is a `Grant` because its bundle expires
after the instant it waited from; a renewal is a stutter because that instant lay
before the old expiry, so authority, which counts `LockWait` longer, had not ended;
a tick ends one authority at most, because one is active at most.

**Loops.** What the Python code does in a `for` loop the models write as a fold of
the community modules, and all of these are one recursive function on finite sets
(`MapThenFoldSet`). `FoldFacts` has the body, the order and the claim as constant
operators and shows once that the recursion has a solution and that what the body
keeps holds of the result (`LoopKeeps`), by the least cardinality at which it might
not. A module instantiates it for each of its loops (batches, matching, sweeps of
orders) and proves only that the body keeps the claim. What a loop computes takes
more: two solutions of the recursion agree (`SolutionsAgree`), so a loop can be
unfolded by one element (`LoopUnfolds`), which for addition may be any element
(`SumTakesOut`), whatever order the fold chose. So a sum grows by what joins its set.
These are lemmas about folds, true of any program; the claims are those of the modules
that cite them.

**Shadow engine.** The promise `TerminalOrdersStay` compares two states, and the
engine changes orders in memory long before it commits them, with a crash between.
`Tracks` states what any operation of the exchange may do to the exchange it was
given: it keeps every order or adds one, and what differs is listed in `changed`
and was open before. Every operation is shown to keep it, matching and liquidation
through `LoopKeeps`. `ShadowInv` says that an engine in memory is what its journal
holds (`Recorded`), or one cycle ahead of it while that cycle waits for its
transaction (`CycleOK`, `Recordable`), so that each transaction overwrites only
open orders; that order numbers in the journal were given out by the memory of its
checkpoint, so that no number is used twice after a restart; that the cursor is at
most one record behind the checkpoint; and that the assembler has seen nothing
received after the last frame consumed, from which states are causal whatever
order the exchange's own times come in. `AuditGapIsVisible` follows from counting:
samples missing from the audit cost a crash each, but for the one the service is
about to write, and the gate compares the two counts.

`JournalBalances` compares three tables that different functions write. What an
operation must keep is `Explains(F, x)`: the fills `F` that the journal holds,
together with those the exchange `x` has reported since, sum up to the position and
the fees of its account and, order by order, to what is filled; and cash moved only
by what the account says of realized profit, fees, funding and the cost it still
carries (`Balanced`). A fill that opens, adds, reduces, closes or turns a position
keeps the latter (`FillBalances`, the cases of `_apply_fill`), and it is a new element
of the set because it begins at what was filled of its order before (`FillBooks`).
Matching and liquidation follow through `LoopKeeps`, and `BookInv` carries the claim
along the two processes: an engine in memory reports nothing that is not about to be
committed, so the transaction that takes fills, account and changed orders takes all
that explains them (`LedgerCommits`), and a crash before it loses all of it.

`TapeOnce` compares the journal with the log. `TapeInv` says where every trade
consumed so far is. Each committed state carries the trades of its own stretch of the
log, between the state before it and itself, but for those too old by then
(`CyclesBear`); what was consumed since the last one waits in the assembler, or is in
the state that is under way (`Carries`); and a process that starts consumes again
from behind the last committed state (`Begun`), so the stretch that a crash
lost is exactly the one consumed again. Stretches are disjoint, so under
`TradesAreNamed` their trades are.

**Market data.** `CaptureInv` has three parts. `Shape` is about the types.
`Faithful`: of a segment without a manifest nothing was normalized (`Untouched`);
the tables that a normalizer left behind when it died are the ones the segment is
parsed to again, so a second attempt meets no conflict; and a normalized manifest
names all of them (`Fit`). `Clean` speaks of every segment whose own data is whole,
whatever became of the others: its manifest, on disk or possibly lost, has its data
beside it (`Sound`), because `finalize` syncs the directory between the two renames
(`Finalizing` says how far it has come, and the property breaks when the sync is
dropped); and the normalizer has not failed. The batch, a loop over the manifests it
found, sets aside only what is damaged and with `Faithful` meets nothing it cannot
handle, so it keeps `Clean`, which implies `OnlyDamageIsCorrupt`.

`DatasetIsTheRecord` compares what the tracker let through, one event at a time and
with a bounded memory, with a reference that looks at the whole sequence: a trade is
a repetition if its identity occurred before and at most `DuplicateWindow`
identities, it included, occurred from there on. `RecordInv` says what the tracker
of a connection is, given its frames (`Observed`). It remembers the identities of
the last trades in the order in which each was seen last, and forgot one only when
`DuplicateWindow` others are remembered (`Remembers`), so it remembers an identity
exactly if the reference calls the trade a repetition (`RepeatsAreRemembered`: the
identities from there on are those at the end of what is remembered, and a sequence
without repetitions is as long as its set is large). What it let through are the
events that are no repetitions, each at its rank among them (`Passed`). An event is
one step of this (`ObserveEventKeeps`), a frame a loop over its events
(`ObserveKeeps`), and a new frame extends what was parsed before (`ParsedExtends`,
by `LoopsAgree`, because the loop over the longer sequence agrees with the one over
the shorter). A segment becomes readable only with its normalized manifest, and by
then the recorder has left the connection, so by `Faithful` its tables are what the
tracker let through (`ReadableIsTheRecord`). The proof needs nothing of damage: a
damaged segment is quarantined, not normalized differently. It showed two things that
the model had to say first: that a frame carries a sequence of items
(`CaptureAssumption`), and that a table is a set of rows, each with its
`event_order`.

`SoakIsUnbroken` compares what lies on disk when the report is made with what the
recorder counted up to the capture, and the recorder may have been restarted before
or since. `SoakInv` says what a count stands for: while a process has not
reconnected, the segments it finalized are the last ones without a gap, and each of
them has a manifest that was synced and can since only have been moved
(`CountIsUnbroken`); the captured count says the same of the connections before the
one open then, and every later connection starts after the capture (`EvidenceOK`).
`TimesOK` puts one connection after the other in time. Take a segment that is missing
between two segments of an accepted window. If it was opened by the process that was
asked, before the capture, its manifest was written and is now neither incomplete nor
corrupt, so it is in the window (`MissingSegment`). If it is older, the window holds
all the process counted and one segment more, against `CountersCover`. If it is
younger, so is a segment of the window behind it, which then was open for a full
`SegmentDuration` after the capture and cannot have ended before it. The proof needs
both limits that `StrictPolicy` names; the first attempt, for any policy, failed where
a manifest could not be written (section 9, item 15).

**Retirement.** Documents and bundles are written once: `NothingIsTakenBack` says
that a step takes none back and keeps all that evidence recorded, and
`DocumentsHaveAuthors`, `BundlesHaveCollectors` and `TheWorldHasActors` name the
one action that can have added each. `RetirementInv` consists of the order of the
documents (`DocumentsFollow`), what each bundle recorded of the world when it was
captured (`WindowIsRecorded`, `WorkIsRecorded`, `InventoriesAreRecorded`), and what
a document that exists vouches for (`ReportIsFresh`, `StopIsVouched`,
`CleanupWasAuthorized`). The lemmas on the verifiers (`VerifiedStop`,
`VerifiedReadiness`, `PassingWindow`, `VerifiedCompletion`, and one *Unaltered*
lemma for each kind of bundle) turn the gates a command passed into facts of the
world the evidence was filled from. `CleanupWasAuthorized` holds because the
closeout replays every bundle but one, and because afterwards nothing moves. The
first statement of it said *every* bundle; the proof failed at the native evidence
of the readiness report, TLC confirmed it once that bundle was alterable, and the
exception is in the property now (section 9, item 21).

`WrittenVerifies` compares the guard of each of eleven writing commands with its
verifier, at the next state. The sources of every document have one name each
(`Report`, `Window`, `TheManifest`, ...), and a *Stays* lemma says that each depends
only on certain bundles and documents. What is written finds them as they were
(`WritingStays`), so one *Written* lemma per command is a comparison of two lists of
conditions at one instant. Between two steps at the same instant a document that
verified still does (`VerifiedStays`), because its bundles were finished before it
was written (`AreFinished`) and nobody touches a finished bundle but to alter it. A
document dated now was written now, because none is dated ahead of the clock
(`DatedBefore`). The proof failed at the two commands that read the clock a second
time; what their sources may lack then is `RanOut` (section 9, item 22).

## 7. What is only model-checked

- Liveness under fairness (`CommandsTimeOut`, `VenueOutcomeRecorded`,
  `DrainsOrWaits`, `EmergencyClears`): it needs ENABLED, which the prover does not
  support. The violations, which are counterexamples.
- `KilledOrdersDrain`. Its bound is that of the run's tapes. For arbitrary ones there
  is none: each market state observed before a cancel takes effect may put it off
  again (section 9, item 13).
- `TapeOnce` for an exchange that uses a trade identity twice on one tape. There it
  is false: the assembler looks at no trade identity (`paper/market.py:67`), and two
  states carry one each. `TapeInvariance` holds of such a tape as well.

## 8. What the models leave out

Everywhere: metrics, logs, progress output, file formats, digests (a digest is
the value it digests), permissions, and wall clock against monotonic clock,
which are one time here.

- *Trading path.* Prices, sizes in base units and fees: an order is a number of
  lots. The acceptance events written beside it. The exchange's limit of ten
  triggered scheduled cancels per day, a per-order error inside an accepted bulk
  cancel, and a request that arrives after its call timed out at the client: the
  venue carries a call out while it blocks. The scalper's memory, which keeps no
  quote identity, and partial fills of a quote in `LiveMarketCycle`, which change
  nothing there. How often the node publishes: the heartbeat thread may be
  arbitrarily slow. The one-second rate windows and the economic limits, which in
  `ExecutionGateway` may deny any intent (`RiskAuthority` has them, for paper).
- *Release governance.* Signature files and digests: a bundle is signed or not. A
  second account, which shares nothing with the first.
- *Paper and shadow.* Records of cancel commands, health samples, the lead of the
  exchange's clock, status and metrics, the contents of feature and decision rows,
  the LLM worker, and the comparison of two replays. The kill switch is read once
  in a decision step. The evidence gates that read the journals afterwards.
- *Market data.* The contents of a partial file and `sync_every`, subscriptions
  and pings, the rate limiter, the length of a backoff, health checks, replay for
  paper, the historical download, the commands that normalize or verify a single
  segment, cancellation of the recorder's task, the one-shot mode of the
  normalizer, manifests moved while a batch runs.
- *Retirement.* Actions on targets take no time. Whether the old trader was paused
  and flat is chosen at the start; the authorization of the new trader may be
  renewed while the old one stops and at no other time. `verify-approval` and
  `validate-cleanup-manifest` write nothing and are left out, as are the
  distinctions between formats of the archived files.
- *Components* with status `not_modelled` in `PROJECT.json`, for the reasons given
  there.

## 9. Disagreements of code and documents

With a run:

1. *UNKNOWN for ever* (`unknown_stuck`). A reserved intent whose process dies
   before the hand-over becomes UNKNOWN; the venue never knew it, nothing
   resolves it, and the node stays in CANCEL_ONLY.
2. *Expiry blocks cancellation* (`sentinel_expired`). A sentinel that has to
   start after the admission ended exits with 2 before it cancels anything.
3. *A log that cannot be replayed* (`shadow_recovery`). `on_market` commits the
   market structure before the checkpoint. After a crash between the two, the
   engine refuses the first replayed state, on every restart.

Stated in a module, false of the code, and repeated by no run:

4. *Cancel refused* (`ExecutionGateway!CancellationAvailable`). SUBMITTED has no
   edge to PENDING_CANCEL, so a cancel before the recorded acceptance raises,
   although the docstring says cancellation is always available.
5. *Margin* (`SafetySentinel!RenewalKeepsMargin`). With the shipped 20 s timeout,
   5 s interval, 1 s poll and 10 s HTTP timeout, two slow successful calls consume
   the margin.
6. *Stuck drain* (`LiveMarketCycle!BreakersDrain`). In a REDUCE_ONLY breach a fill
   may answer the drain's cancel; its flag stays set, the quote accepted next gets
   no cancel, and the sentinel sees a healthy node.

Seen while modelling, plain from the code:

7. *Fills overwritten.* Every event without a quantity writes zero over the
   recorded partial fill; the runbook asks for an exact cumulative one.
8. *Unsupervised sentinel.* `docs/operations/NATIVE_PLATFORM_THREAT_MODEL.md:38`
   says that the node monitors sentinel and dead-man timer and refuses exposure
   when unsafe; nothing in `execution/` or `risk/` reads either (`PlaceOrder` has
   no such guard).
9. *Kill switch.* Two operators at once can leave it inactive although the last
   audit entry is an activation; a crash in `activate` after the state file was
   replaced leaves no entry.
10. *Funding after a restart.* The services hand the engine a rate of zero until
    the next context frame, over the checkpoint's rate (`shadow/service.py:189`;
    `docs/migration/PHASE_7_PAPER.md:127`). `Start` has it.
11. *Paper watchdog.* Its task ends on a failed commit while `on_market` goes on
    (`docs/operations/PAPER_TRADING_RUNBOOK.md:262`).
12. *Filled before it is active.* An order whose cancellation is requested while it
    waits for its activation may be filled as a maker, past the post-only check
    (`_match_trade` of `paper/simulator.py`; `PaperExchange` has it).
13. *Draining* (`docs/operations/PAPER_TRADING_RUNBOOK.md:233`). "Within cancel
    latency" is not what happens: each later call puts the cancellation off again.
14. *Empty segments.* The raw catalog wants unique bytes, and two segments without
    frames have the same: registering the second raises out of the recorder's
    `finally`, replaces whatever ended the connection and counts a reconnect
    (`Publish`).
15. *Uncounted artifacts.* A finalized segment without a manifest is not among the
    failed artifacts until `recover` has moved it (`_count_failed_artifacts`). When
    its manifest could not be written, nothing but the reconnect that followed tells
    of it: under a policy with `maximum_reconnects` of 1 a soak with a hole in it is
    accepted (TLC finds one at four connections, three ticks and one mishap). The
    shipped policy allows none, and `SoakIsUnbroken` is stated for it
    (`StrictPolicy`).
16. *A metric kind nobody knows.* The recorder emits `kind="consumer"`, which
    `parse_recorder_metrics` does not accept: the whole snapshot is refused. The
    kinds `reconnect` and `unexplained_gap` are never emitted.
17. *Reasons after a crash.* The gap is classified by the reason of the segment
    before; a finalization that fails masks a full disk or a cancellation and
    becomes a reconnect; the restart count that Docker reports leaves manual
    restarts out.
18. *Order of the cleanup.* `docs/migration/PHASE_10_CLEANUP_OUTCOME.md:149` asks
    reviewers to prove the executed order, and no times of two steps are compared
    (`LedgerIsOrderly`).
19. *Replay after expiry.* The same document, line 148, wants a retained completion
    report replayed after its receipt expired; each cleanup command first replays
    its sources, and the native observation among them must be authorized now
    (`DisabledReplays`).
20. *Ages nobody checks.* A readiness report has no maximum age when the stop
    begins, and nothing looks at the old processes after the disabled window.
21. *Evidence read once.* After the readiness report no command reads its native
    evidence again: the window is verified with newer evidence
    (`NativeAndArchiveLineage`), and the report stands for the older. An alteration
    of that bundle stays unseen, while one of any other bundle ends the retirement
    (`CleanupWasAuthorized`).
22. *Two readings of the clock.* `retirement/readiness.py:49` and
    `retirement/action_plan.py:58` date their document by a second reading, after
    the sources were verified at a first one. Both look again at what the document
    is about, not at the retention of the archive, and the plan not at the expiry of
    the native authorization. When one of these runs out in between, the command
    writes a document its own verifier refuses from the start (`RanOut`), and no
    later command takes it.

## 10. Plan

What the system stands on is modelled; what is left, in order.

| Step | Modules | What they state |
|---|---|---|
| 1 | `KillSwitch` (state and audit file write by write, crash between) | what is cleared was audited; a torn or missing file is a kill |
| 2 | `EquityBaseline` | the high-water mark never falls within its day, across restarts |
| 3 | evidence gates of paper and shadow, over the journals of `ShadowEngine` | an accepted report is of one unbroken run |
| 4 | `ResearchRegistry`, `OperationalLog` | no stage skipped or ambiguous; broken chains are rejected |
| 5 | `LiveMarketCycle` composed with `ExecutionGateway`: the cycle's orders refined by journal transactions | `NoOverlap` of the composition; a cycle that raises half way |
| 6 | `TradingSystem`: gateway, sentinel and ledger together | no submit without authority; an ended authority and a dead sentinel bound exposure by the timer |
