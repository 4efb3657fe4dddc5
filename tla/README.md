# A TLA+ verification of go-event-bus

go-event-bus is a Go library: an application emits events and subscribes
handlers through one of three transports (in process, NATS core, NATS
JetStream), each handler behind a chain of middleware (idempotency, circuit
breaker, retry, dead-letter, rate limit). The library promises what happens to
an event whose handler fails and what a `Shutdown` means. Those two promises,
and the middleware they rest on, are what this directory specifies,
model-checks with TLC and, but for liveness, proves with TLAPS.

1. [Inventory](#1-inventory)
2. [Plan](#2-plan)
3. [Modules and code](#3-modules-and-code)
4. [Runs](#4-runs)
5. [Fairness](#5-fairness)
6. [Proofs](#6-proofs)
7. [Where the code and its text disagree](#7-where-the-code-and-its-text-disagree)
8. [Not modelled](#8-not-modelled)

## 1. Inventory

### Components

| Component | Source | State | Operations | What makes it correct |
|---|---|---|---|---|
| Lifecycle | `lifecycle.go` | flags closed, forced, done; in-flight count; idle channel; bus context | Admit, Track, release, HandlerContext, BeginShutdown, Wait, Interrupt | count exact; no lost wake-up; nothing in flight after a nil; an error means everything was interrupted |
| Failure contract | `failure.go`, `settle.go`, `scope.go`, `delivery.go` | the failure scope of one delivery | Dispose, Settle, IsInterrupted, OutcomeOf, Final | a message ends only with a trace; reported once |
| Handler invocation | `invoke.go` | none of its own | InvokeHandler with its recovers and deferred HandlerDone | one HandlerDone per run, agreeing with the failure reports |
| Dead letters | `dlq.go`, `invoker/dlq.go` | none | publish with retries, in the chain or as the bus's backstop | nothing is recorded after a confirmed record; copies of failed publishes are bounded; the last chance is retried |
| Local bus | `local-bus.go` | handler table, slot and queue channels, lifecycle | Subscribe, Emit, EmitSync, Shutdown | every task runs or is reported, once; tokens do not leak; no self-deadlock |
| JetStream bus | `jetstream/bus.go` | consumers, the shared drain, lifecycle | Subscribe, callback, Emit, Shutdown | every message acted on before a nil; no consumer escapes |
| NATS bus | `nats/bus.go` | subscriptions, connection, the shared drain, lifecycle | Subscribe, SubscribeSync, callbacks, Emit, EmitSync, Shutdown | replies go out before the connection closes |
| Circuit breaker | `invoker/circuit-breaker.go` | state, counters, generation, probe slot | admit, record, report | one probe at a time; stale calls have no say |
| Idempotency | `invoker/idempotency.go`, `redis/idempotency.go` | the record of a key in a shared store | Invoke over Get and Put | a handler runs twice only for a known reason; a duplicate was really done |
| Prometheus observer | `prometheus/observer.go` | breaker gauge and the last Seq; counters | BreakerTransition | the gauge converges |
| Retry, chain | `invoker/retry.go`, `invoker/chain.go` | attempt number, history ring, backoff | Invoke | attempts keep their distance; a FailureError counts the runs that failed |
| Rate limiter | `invoker/rate-limit.go`, `redis/rate-limit.go` | token bucket in a Redis hash | Invoke, Allow (a script) | handlers run within burst and rate, whatever is lost |
| Event ids | `id.go` | last millisecond and counter | NewID | ids increase |
| JetStream Emit | `jetstream/bus.go`, `metadata.go` | the id of the event, the attempt | Emit with its publish retry | a nil means stored; stored once |
| Dead-letter replay | `jetstream/dlq.go`, `jetstream/replayer.go` | the records and a durable consumer | Publish, Replay | acknowledged only when replayed; replayed once |
| slog observer | `slog_observer.go` | window entries, timers | the signals, Flush, the timer | every record logged or counted once; every count logged |
| JSON registry | `json/` | versions and upcasters | Register, Decode | every known version reaches the current one |
| Other observers, telemetry, metadata, options | the rest | counters, spans | notification | – |

### How they interact

Every bus embeds a Lifecycle. `Emit` and a broker callback count a unit of work,
run `InvokeHandler` (which runs the middleware chain and recovers panics), and
give its error to `Settle`, which decides what to do with the message
(acknowledge, retry, retry later, terminate), publishes a dead-letter record
when it must and reports to the observer; the transport then takes the broker
action and releases the unit. A handler may emit again with its own context,
which nests the new unit under its own. `Shutdown` closes admission, drains the
broker subscriptions, waits for the count to reach zero and, when its own
context ends first, cancels the bus context, which every running handler sees.

### What is hard here

* several callers of `Shutdown` share one drain and one idle channel, each with
  its own deadline;
* contexts end at any instant and are read at several places on the way of one
  message, so two reads may disagree;
* the publish of a record, the broker action and the reports are separate
  steps, each of which fails or panics on its own, and the server redelivers;
* a handler that emits holds a slot of the bus it emits to;
* slots and queue places are channel tokens, taken and returned on many paths;
* breaker and gauge are told about calls late and out of order, and the circuit
  may open between two attempts of one invocation;
* a publish, a script or an acknowledgement is lost on the way, and its sender
  tries again without knowing whether the first arrived;
* a window timer, a Flush and new records of the same key meet at one entry;
* Get and Put of the idempotency store are two calls, made by processes that
  crash.

`PROJECT.json` lists these hazards, each at its line, with the properties that
would catch it.

## 2. Plan

Done, in this order, the most important behaviour first:

1. `GracefulStop` (abstract) and `Lifecycle`, its proofs and the refinement.
2. `Failure` and `Settlement`: one message, all its deliveries; its proofs.
3. `CircuitBreaker` with the gauge, and its proofs.
4. `LocalBus` on top of `Lifecycle`, and its proofs on top of that of `Lifecycle`.
5. `BrokerBus` on top of `Lifecycle`, proved in the same way.
6. `Idempotency` and its proofs.
7. `Retry` around `CircuitBreaker`, with the classifiers of `Failure`; its proofs.
8. `Ids`, and `Streams` on top of it: Emit, dead letters, replay; their proofs.
9. `TokenBucket` (abstract) and `RateLimit`, proved to implement it.
10. `SlogObserver` and its proofs.
11. The buses as a whole: proved to run their `Lifecycle` and so to implement
    `GracefulStop`.

Section 6 says what stays with TLC and why, section 8 what is left out.

## 3. Modules and code

The map in `PROJECT.json` gives the lines of every definition. A definition
whose comment calls it a mutant is a plausible mistake in the definition that
follows it; no specification uses it.

**GracefulStop** is the abstract specification of a stop: units start and
finish, the door is open, draining, quiet or forced; nothing starts behind a
shut door and success is reported only when nothing is live.

**Lifecycle** has one action per critical section of `l.mu`: `Admit`, `Track`,
`Release`, `BeginShutdown`, `WaitIdle`/`WaitBusy` (the two ends of one pass of
the loop in `Wait`), `WakeIdle`/`WakeExpired` (the select), `InterruptMark` and
`InterruptCancel` (the lock is released between them). `OpenHandler`,
`AfterFunc` and `EndHandler` are the handler context and the
`context.AfterFunc` goroutine that interrupts it. A channel is a number, so a
channel that is replaced is not confused with its successor.

**Failure** holds the pure functions: an error is the set of sentinels
`errors.Is` finds in it, wrapping is union. `Dispose`, `OutcomeOf` and
`IsInterrupted` are translated case by case, in the order of the code.

**Settlement** follows one message. Its configuration (transport, DLQ invoker in
the chain, backstop publisher, MaxDeliver) is chosen in `Init`. The actions are
the steps of a callback: `Deliver`, `HandBack` or `RejectInbound`, the decode,
`Handle` (the handler and the middleware inside the DLQ invoker return any error
of `HandlerErrors`), `Chain`/`ChainPublish`, `InvokeDone`, `Wrap`, `Settle` and
its branches, `SettlePublish`, `Flush`, `Act`, and `Recover` for a panic in any of
them. `Interrupt`, `Cancel` and `Timeout` end contexts at any time. A
publish that fails, a panic and a lost broker action are choices, and so is a
JetStream message whose metadata cannot be read: `seen` is the delivery count the
bus works with, `count` the one the server keeps. `slips` remembers those of them
that the properties excuse. A publish that fails, or a publisher that panics, may
have stored its record all the same, because a record has no message id and its
acknowledgement can be lost (`jetstream/dlq.go:35`, `:142`): `records` are the
publishes that were confirmed, `strays` the copies the bus does not know of.

**LocalBus** has emitter goroutines (`EmitStep`), task goroutines (`TaskStep`)
and callers of Shutdown, on the Lifecycle it instantiates. `exec` and `pending`
are the two channels, as counts of tokens. `Inline` distinguishes the task a
nested emitter runs on its own goroutine. Only what a handler's context says is
modelled of its work: it starts, may emit, and ends.

**BrokerBus** is Subscribe, the callbacks and the shared Shutdown of the
JetStream and the NATS bus, whose code is parallel; where they differ (the
connection that NATS closes, the reply sent instead of an action, stopping
instead of draining on force) an action says so with `kind`. A subscription of nats.go
has a buffer and one delivery goroutine; draining ends when both are empty.
This part is external, modelled from how the buses use it.

**CircuitBreaker** has `Admit` and `Record` as the two critical sections of a
call and `Report` as the delivery of a transition after the lock. The generation
in the token and the lease of the probe slot are as in the code.

**Idempotency** has the deliveries of one key in any number of processes: `Get`,
`Decide`, `PutProcessing`, `Handle`, `PutFinal`, any of which may fail and be
applied all the same, `Crash`, and `Expire` of the Redis TTL.

**Retry** composes the inner end of the chain: several invocations of
`Retry.Invoke`, each attempt of which is a call of the one `CircuitBreaker` it
extends. `Start` and `WaitOver` begin an attempt, `Handled` is the handler and the
record of the breaker, `Returned` is what Retry makes of the result (`Classify`,
`RingAdd`, `Backoff`), `WaitEnds` the context ending in the wait. `Backoff` is
computed with `Width` bits, as the code's product of a Duration is. `Policy` is what
the documentation says of it, against which `RetriesSpaced` measures the attempts.

**TokenBucket** is the abstract promise of a rate limit. **RateLimit** has the
script as one atomic action with the branches `ScriptAllows` and `ScriptDenies`,
the expiry of the key in `Passes`, and `Send`, `Resend`, `StoreError`, `Conclude` of
the invoker. The bucket is counted in parts of a token so that nothing is rounded;
the script uses floating point.

**Ids** is the UUIDv7 generator: `Mint` is `uuidv7Gen.next` with any clock.
**Streams** emits events through a JetStream stream and replays their dead
letters. `EmitGiven`/`EmitMints` resolve the id, `Publish` is one attempt,
`DeadLetter` the publisher of records, and `Fetch`, `ReplayStored`,
`ReplayFails`, `ReplayAck`, `NakRest`, `BatchEnds` the loop of Replay. The server is
external: a duplicate window (`Store`, `Forget`), publishes that are lost, late
(`Arrive`) or whose acknowledgement is lost, and the ack wait. A message id is the
pair of an event id and the record it replays.

**SlogObserver** has `ReadClock` and `Record` as the two halves of a signal (the
clock is read before the lock), `Fire` and `FlushKey` as a timer and its callback,
`Flush`, and `Summary`, which is logged after the lock. Entries are objects in a
heap, so a callback can hold one that the table has replaced; an entry is named
after the signal whose record allocates it. Three histories follow the records:
`logged`, `counted[e]` (those counted in entry e) and `reported[e]` (what the
summaries of e said). Two more keep the last window of a key apart in its two times:
`stamp`, the clock its record read, which is what the code counts from, and `opened`,
the instant the record had the lock and was logged.

## 4. Runs

| Run | Instance | Shows |
|---|---|---|
| `lifecycle` | 2 units, 2 callers | `NoLostWakeup`, that Lifecycle implements GracefulStop, and `DrainReturns`: every call returns when the handlers do |
| `chain` | 2 invocations of 3 attempts, history of 2, both thresholds 2, timeout 1, BaseDelay 2, MaxDelay 3, 4 bits, 5 ticks | `SlotHeldByOneProbe`, `ProbeSpacing`, `GaugeConverges` of the breaker; `FailureTruthful`, `RetriesSpaced` of the retry around it |
| `settlement` | every configuration, 3 deliveries | `NoSilentLoss`, `EndedWithTrace`, `SettledStaysSettled`, `ConfirmedIsLast`, `CopiesBounded`, `SignalsOnce`, `SignalsAgree`, `FinalPublishInsists` |
| `settle_interrupted` | the same | expected violation, see section 7 |
| `localbus` | 3 emits, 1 handler, 1 slot, 1 queue place, each policy | `FateOnce`, `TokensExact`, `DrainedMeansSettled`, `GracefulLosesNothing` |
| `localbus_live` | 2 emits, 2 handlers, block policy | emitters return, also a handler that emits while it holds the only slot; a forced shutdown frees every waiter |
| `idempotency` | 3 deliveries, ProcessingTTL 1, Redis TTLs, 3 ticks | `AtMostOnce`, `DuplicateIsHonest` |
| `broker` | 2 subscriptions, 2 messages, 2 callers, both transports | `NilMeansActed`, `RepliesGoOut`, `NoneEscapes`, `DrainIsShared` |
| `broker_live` | 1 subscription, 1 message, 2 callers | all callers return once one has forced; all when the drain completes |
| `streams` | 2 emits and 2 records, at most 3 of them together, 2 attempts, 1 late publish, 1 id out of the window, a counter of one bit | `NilMeansStored`, `StoredOnce`, `AckedWasReplayed`, `ReplayedOnce`, `IdsIncrease` |
| `ratelimit` | 4 events, Period 2, 5 ticks, 2 sends each; burst below, at and above the rate | that the script implements TokenBucket, and `RunsWithinRate` |
| `slog` | 4 signals, 2 keys, room for 1, window 2 and none, one Flush | `EveryRecordAccounted`, `SummaryArrives`, `QuietWindow` |

Why these bounds are enough for the interesting cases. Lifecycle: a lost wake-up
needs a waiter, the last unit out and a unit that follows it, which may be its
nested child; a second caller shares the channel (three units pass as well but
take over four minutes). Chain: two failures open the breaker, the six attempts
give probes of different generations that overlap with a late call of the closed
state, two ticks one superseded probe and its successor; the other invocation
opens the circuit between two attempts of the first, and the third attempt overruns
the history. The waits are 2 and, doubled and capped, 3, so that five ticks see all
three attempts and a wrong shift, a missing doubling and a missing cap each change a
wait; a product that wraps takes more attempts than that, and `RetriesSpaced` excludes
it in any case. Settlement: three deliveries with MaxDeliver 1, 2 and 0 (unlimited) give a first delivery that is
final, a retry that is final, and retries that never are; the three attempts of a final
publish, by the chain and again by the backstop, reach the bound of `CopiesBounded`.
LocalBus: with one slot and one queue place, the third emit meets a full queue,
and each may be nested in another's handler. Idempotency: two deliveries race,
the third comes after what they left. BrokerBus: the second subscription is the
one that escapes, the second caller the one that shares. `broker_live` with two
messages also passes but takes about four minutes, so the smaller one is kept.
Streams: two emits can be of one id and in one millisecond, a counter of one bit
runs out at the second id, two attempts are one that is lost or late and its
repeat, and two records are a batch whose first or second member fails. RateLimit:
four events empty every bucket considered and meet it again after its key expired.
SlogObserver: with room for one key the second is logged untracked or evicts the
first; four signals open a window, repeat, repeat, and open the next while the
timer of the first is on its way.

Symmetry is used in runs of safety properties only, over sets whose members no
definition names. `CHECK_DEADLOCK FALSE` is set because every model has an end:
calls return, messages are settled, bounded clocks stop.

Each property has a mutant in `PROJECT.json`: a changed definition under which
TLC finds the property violated.

## 5. Fairness

`LiveSpec` gives weak fairness to what a goroutine does on its own: a caller of
Shutdown, a task, an emitter, an AfterFunc goroutine, a callback that can take
its next step takes it. The Go scheduler guarantees that. Nothing is assumed of
the environment there; what a property needs is its own hypothesis:

* `HandlersReturn`: user handlers return (the code cannot force them);
* `DrainsComplete`: nats.go delivers what it buffered and reports the
  subscription closed.

The fairness of SlogObserver adds the runtime's clock: time goes on, a timer that
is due fires, and its callback runs. Signals and Flush are not forced.

`Release` in `HandlersReturn` of Lifecycle has strong fairness because a unit may
run several handlers one after the other, each of which disables the release while
it runs: the assumption is that it runs finitely many of them, which holds of the
loop over the handlers of a subject.

## 6. Proofs

Every property of a passing run that is not liveness is a theorem, for every value of the constants that satisfies the named assumptions:

| Assumption | Says |
|---|---|
| `NoParentAssumption`, `MsgsAssumption`, `UnitsAssumption` | the absent parent is no unit; an emit is no task |
| `ConfigAssumption`, `NoTransitionAssumption` | thresholds, timeout and bound are naturals; nil is no transition |
| `PolicyAssumption`, `PowersAssumption` | at least one attempt, delays not negative; the two facts about powers of two that the solver does not know of `^` |
| `TTLAssumption` | `ProcessingTTL` positive, as the constructor makes it |
| `IdsAssumption`, `StreamsAssumption` | the seed fits the counter; at least one attempt; given ids are no minted ones; an emit is no record |
| `RateLimitAssumption` | rate, burst and Period positive: the limits that are any use; the code does not check them |
| `ErrorsAssumption`, `BoundsAssumption` | an error is not nil, and a handler does not forge the bus's own sentinels |
| `SlogAssumption` | window not negative, as `WithLogEvery` makes it; no entry is nil |
| `KindsAssumption`, `LocalBusAssumption` | the two transports; at least one slot and one place, the three policies |

TLC evaluates them in every run. Each module of proofs has one inductive invariant,
named below, which TLC checked as an invariant before it was proved.

**LifecycleProofs.** `Invariance` proves `Lifecycle!IInv`. `NothingAfterNil` and
`NoLostWakeup` are not inductive alone. The invariant adds that the units held are
finite in number and counted exactly, that `done` means closed and idle, that a
cancelled bus is forced and a forced one closed, that the idle flag tells the truth
about the channel, that only channels made so far are closed, and what each label
of a caller implies: past BeginShutdown the bus is closed, a waiter has a channel,
a nil means `done`.
From it follow `CountIsExact`, `WakeupsAreNotLost`, `NothingRunsAfterNil`, and
`Refinement`: initial states map to initial states, every step to a step of
GracefulStop or to a stutter.

**BrokerBusProofs, LocalBusProofs.** A bus instantiates Lifecycle on its own variables,
so the invariant of a bus is `LP!IInv`, proved in LifecycleProofs, with what the bus
adds. One lemma (`BusSteps`) shows that a step of the bus is a step of its Lifecycle
or leaves it alone, and `LP!StepIInv` does the rest. `BusInvariant` of the broker buses
adds, for each message, that its place in the callback, its unit, its handler context
and its one answer agree (`MsgInv`); for each subscription, its state and whether it is
tracked (`SubInv`); for each caller, what its label says about the drain and the
Lifecycle (`CallInv`); that `drained` closes only over closed subscriptions unless
forced (`Drains`), and that the connection goes last. `NilMeansActed` needs all of it:
a nil says only that the count is zero, and only `MsgInv` turns that into "acted on".
From it follow `NilAlwaysMeansActed`, `RepliesAlwaysGoOut`, `NoneEverEscapes`,
`DrainIsAlwaysShared`. `BusInvariant` of the local bus says that an emit works at one
task, those before it are in the hands of goroutines and those after it untouched
(`PosInv`), that the place of a task, its unit and its fate agree (`TaskInv`), and that
the sets of tasks with a token are finite, without which a cardinality says nothing.
From it follow `FatesAreMetOnce`, `TokensAreExact`, `GracefulNeverLoses`,
`DrainedAlwaysSettled`. In both modules `BusRunsLifecycle` turns `BusSteps` into an
implication of specifications: the variables of the Lifecycle, among all that the bus
does, behave as Lifecycle alone. With `LP!Refinement` it gives `BusStopsGracefully`:
the whole bus implements GracefulStop.

**SettlementProofs.** `SettlementInvariant` proves `SInv`: where the message is and
what the callback knows of it (`Placement`), what each step of a callback has and has
not produced (`Progress`), that HandlerDone is either out or pending (`DoneOnce`), how
many records a delivery may find and leave (`Recorded`), what Settle decided and
reported (`Result`), and how a panic, the signals and the attempts of a publish agree
with it (`Panicked`, `Agreement`, `Insistence`). None of the properties is inductive: each speaks of the end of a
delivery, and the invariant carries the error and the records from step to step. From
it follow `NothingLostSilently`, `EndsLeaveTraces`, `SettledIsFinal`,
`SignalledOnce`, `SignalsAlwaysAgree`, `FinalPublishInsistsAlways`. How often the message
is in the dead-letter queue is a matter of two theorems. `ConfirmedStaysLast`: no step
stores it again once a publish was confirmed, unless it came back; the invariant tells
the error of every step with a confirmed record from those that lead to a publish.
`CopiesStayBounded`: the invariant `Copies` on top of `SInv` counts the publishes begun
and the attempts made in them, per delivery, whatever each attempt left behind.

**RetryProofs.** `Invariance` proves `CircuitBreaker!IInv`: the four
properties with the counters on their side of the thresholds, no stamp in the
future, the slot stamped with the admission of its probe, superseded probes at
least a timeout old, and every undelivered transition held by a call that will
report it, the newest leading to the present state. From it follow
`OneProbeHoldsTheSlot`, `StaleCallsAreIgnored`, `ProbesAreSpaced`,
`GaugeFollowsBreaker`. `RetryInvariant` adds `RInv`: the calls of the attempts before
the present one are over and those after it not begun (`Places`); loop variable,
history and failed runs keep in step, with the one run in between that has failed and
is not yet in the history (`Account`); a wait is counted from an instant not before the
admission of its attempt (`Distance`). On top of it `Waits` bounds a wait by the backoff
of its attempt. Lemmas say what the ring holds after an add
(`RingAddNumbers`) and that the backoff is the policy's while its product fits
(`BackoffExact`). From it follow `FailuresAreTruthful`, `RetriesKeepDistance` and
`ChainImplementsBreaker`: the breaker in the chain is the breaker, so its theorems
hold there.

**RedisProofs** has the two invokers whose state is in Redis, which share no variable.
`IdempotencyInvariant` proves `Idempotency!IInv`: as long as none of the
slips happened, whoever is inside the handler has its marker in the store, and a
completed run left its record. The slips are the ways the code admits: `raced`
(two Gets before a Put), `stale` (a marker older than ProcessingTTL is taken
over), `expired` (Redis dropped the record), `lost` (the final Put did not
arrive). From it follow `RunsAtMostOnce` and `DuplicatesAreDone`.
`RateLimitInvariant` proves `RLInv`: the hash was stamped in the
past, expires a Period after its stamp and is no fuller than the bucket; what was
allowed and is left is within burst, rate and what a forgotten bucket adds; and every
run is covered by an allowed answer (`AnswersCover`, a count of the calls that hold
one). From it follow `RunsAreWithinRate` and, step by step with `Level` for the level,
`RedisImplementsTokenBucket`.

**SlogObserverProofs.** `ObserverInvariant` proves `OInv`. For each signal, one that has
not passed the lock has left no trace and read the clock in the past (`SignalInv`). For
each key, its entry is its own and began with the last window of the key, and a key
without one that was not flushed has had its window (`KeyInv`). For each entry, its
number is that of the records counted in it, its summary has told that number once or
not at all, and its timer runs only while it is tracked and not to before the end of
its window (`EntryInv`). `QuietWindow` needs the last two together: a window ends by a
timer set with the clock of one record and is replaced by the record of another, and
what keeps them apart is that an entry with a timer has a count, so nobody moves its
beginning. What it says is measured between
the instants of the two lines; the time the first waited for the lock is the only thing
by which they come closer, and section 7 shows that they do. `EveryRecordAccounted` needs that a callback which comes late finds its entry
no longer tracked: `tracked` and being in the table are the same. From it follow
`RecordsAreAccounted`, `WindowsAreQuiet`, `TableStaysBounded`, and
`CountsAlwaysHaveWayOut`, which is the safety half of `SummaryArrives`: no entry keeps a
count without a timer, a callback or a summary on its way.

**StreamsProofs.** `IdsTyped` keeps the counter in its bits and `MintIncreases` compares
the two ids of one call in its three cases; from them `IdsAlwaysIncrease`, for every
counter, seed and clock, one that steps back included, and `EmitsMintInOrder` among
all that Streams does. `StreamsInvariant` proves `StInv`: no two emits share a minted
id (`Identities`); every message id in the window is that of a stored message, every
stored message has its id in the window or has left it, a late publish carries its
own id, and only what left the window is stored twice (`Storage`); a nil has its event
stored (`Nils`); a record that is acknowledged, or about to be, was replayed (`Letters`). The window is
what connects attempts: a duplicate that the server discards is success only because
the id in the window belongs to the same event. From it follow `NilAlwaysMeansStored`,
`StoredOnceInWindow`, `AckedAlwaysReplayed`, `ReplayedOnceInWindow`.

Model-checked only: all liveness (`DrainReturns`, `EmitsReturn`, `InterruptFrees`,
`ForceFreesAll`, `SummaryArrives`: fairness and ENABLED are out of the prover's reach),
and the run that is expected to be violated. `CountExact`, `NothingAfterNil`,
`StaleCallsPowerless`, `CountsHaveWayOut`, `TableBounded` and the inductive invariants
are no properties of a run and are proved all the same; `ErrMeansInterrupted` is a conjunct of the invariant of
Lifecycle.

## 7. Where the code and its text disagree

`settle_interrupted` is expected to be violated. `Settle` asks whether the
subscription context has ended before it looks at what the error is, and takes any
context error then for an interruption.

* A handler timeout ends dead-lettered or dropped, "never as an interruption"
  (`local-bus.go:115`); a cancel of the bus between the timeout and Settle makes it
  one.
* A transport that sees `ErrDeadLettered` "acknowledges the message without
  publishing a second record" (`failure.go:31`); a failure that was dead-lettered
  with a context error in it may be handed back, run again and be recorded again.

Observations that no run states:

* "Within one window the first record per (signal, handler, outcome, reason) is logged
  at once and repeats are only counted" (`slog_observer.go:24`): `record` reads the
  clock before the lock and counts the window from that reading. With a window of 2, a
  record reads 0, has the lock at 1 and is logged; the next reads 2 and is logged at 2,
  one tick after it. The lock is held for short whiles only; `QuietWindow` says that the
  lines come closer by no more than the first waited for it.
* Rate limit with Burst above Rate, as in the examples of the documentation (10 and
  15, `docs/invoker-chain/rate-limiter.md:20`): the key expires one Period after the
  last call, a bucket that one Period does not fill is then full again, and up to
  Burst - Rate events more run. `TokenBucket!Forget` and the term `forgotten` of
  `RunsWithinRate` account for exactly that.
* The backoff product wraps for a large attempt number; a negative one is below
  the maximum and no wait at all. `RetriesSpaced` is limited to products that fit.
* A bare `ErrSendToDLQ` is retried by Retry, as
  `docs/invoker-chain/error-classification.md:51` says and
  `docs/architecture/failure-model.md:38` ("never retried") does not.
* "a nested child is admitted only while its parent is still counted"
  (`lifecycle.go:53`): `Admit` looks at the count, not at the parent, so a context
  kept past its handler is honoured while anything is in flight. The drain stays
  sound: the child is counted.
* Replay ids are made of the event id and the sequence of the record. Two
  dead-letter streams replayed into one stream can make the same one, and the
  second record then counts as replayed. `Streams` has one dead-letter stream.
* A record without a valid subject fails every Replay, which stops at the first
  failure: the records behind it wait until it is removed or given a `ToSubject`.
* After a race on one idempotency key, the record of the failed run can overwrite
  the marker of the other, so a third delivery runs too: "The marker closes the
  window for everything after that" (`docs/invoker-chain/idempotency.md`) is
  optimistic.
* An error that matches both a flow-control sentinel and `Terminal()` is not
  retried, which the comment at `invoke.go:77` does not say.

## 8. Not modelled

* Settlement: AckWait passing while a delivery is in hand (two deliveries of one
  message at once; what it does to the handler is the Idempotency module); panics
  of observers other than the JetStream observer that is called outside a recover;
  the content of records and headers.
* LocalBus: Subscribe after the first emit; a nested emit is made by the handler's
  own goroutine; the end of an emitter's context matters only where the code reads it.
* BrokerBus: loss of the connection, NATS messages that are not requests; Drain or
  Stop of the list of subscriptions is one step. Emit and EmitSync of NATS: admit, one
  publish or request, no retry and no state.
* Idempotency: clock skew between processes; one clock. A marker judged stale too
  early is the slip `stale`.
* RateLimit: a Redis clock that steps back. The call after the step refills nothing
  (`math.max(0, now - ts)`, which `Elapsed` has) and writes the earlier instant as `ts`,
  so the time that the clock passes twice is paid out twice. Floating-point rounding.
* Streams: one dead-letter stream and one Replay at a time; the spans and headers of
  a replay; the Limit of a call, which only ends it between two batches.
* SlogObserver: what a record says; the attributes and levels.
* Prometheus: counters and histograms that are only incremented.
* JSON registry: encoding, lookup and a loop over upcasters, in a table that is
  written before it is used; nothing another step can disturb.
* Telemetry, MultiObserver, the rest of metadata and option resolution: no state.
  Examples: not the library.
