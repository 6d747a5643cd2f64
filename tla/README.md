# AgentBnB: models, model checking and proofs

AgentBnB is a network on which agents rent one another's skills for credits. A
node (`src/src`, TypeScript) holds a registry of capability cards, a credit
database in SQLite, a WebSocket relay that forwards requests between agents,
interactive sessions over that relay, an HTTP gateway that runs skills, and on
the consumer's side a client that requests skills by itself within a budget and
a conductor that spreads a task over several agents. This directory holds TLA+
modules of the parts that move credits and requests and of the lock that keeps
one service per node, configurations that check them with TLC, and proofs
checked by TLAPS.

| Module | What it is | Code |
|---|---|---|
| `EscrowPromise` | abstract: what an escrow promises | `credit/escrow.ts` |
| `CreditLedger` | the credit database, one action per transaction | `credit/ledger.ts`, `escrow.ts`, `owner-normalization.ts`, `reliability-metrics.ts` |
| `RelayServer` | sockets, routes, pending requests, timers, restart | `relay/websocket-relay.ts`, `runtime/agent-runtime.ts` |
| `SessionManager` | metered sessions, their timers, ends and escrow | `session/session-manager.ts`, `session-escrow.ts`, `session-relay.ts` |
| `RelayClient` | client objects, their sockets, heartbeat, reconnects, pending requests | `relay/websocket-client.ts` |
| `RelayDispatch` | extends `RelayClient` by its two users: the daemon, and a call that is tried again | `gateway/relay-dispatch.ts`, `runtime/service-coordinator.ts` |
| `Gateway` | concurrent request handlers, their gate, holds and failures | `gateway/server.ts`, `gateway/execute.ts` |
| `GatewayBatch` | a batch of requests, local or relayed, in one process | `gateway/execute.ts`, `registry/batch-routes.ts` |
| `Autonomy` | concurrent calls of one consumer session under tiers, reserve and budget | `autonomy/auto-request.ts`, `autonomy/tiers.ts`, `credit/budget.ts`, `mcp/tools/request.ts` |
| `Pipeline` | the conductor: validator, budget, waves, batches, alternatives | `conductor/` |
| `ServiceLock` | the pid file at the level of file-system calls, start, stop, crash | `runtime/process-guard.ts`, `runtime/service-coordinator.ts` |
| `...Proofs` | theorems about the modules named | |
| `SumTheorems` | sums over finite sets, and induction on them | |
| `MC...` | small instances for TLC | |

Eight modules hold theorems: `CreditLedgerProofs`, `RelayServerProofs`,
`RelayDispatchProofs`, `GatewayProofs`, `GatewayBatchProofs`,
`SessionAndLockProofs` (about `SessionManager` and `ServiceLock`),
`SpendingProofs` (about `Autonomy` and `Pipeline`), and `SumTheorems`.

Six modules implement `EscrowPromise`, each under a refinement mapping of its
own: the database by what its rows say, the relay, the sessions, the gateway, the
batch and the autonomous calls by how they use an escrow. `CreditLedger` has the
inside of the transactions the others call as single steps on an escrow's status.

    tlc -workers 2 -config LedgerEscrows.cfg MCCreditLedger
    tlc -workers 2 -config GatewayRpc.cfg MCGateway
    tlapm CreditLedgerProofs.tla

All source paths below are relative to `src/src` unless they start with `docs/`.

## 1. Inventory

### Credit database (`credit/`)

State: balances, transaction rows, escrow rows with a six-valued status, demand
vouchers, a provider registry with consecutive numbers, reliability counters.
Operations: `bootstrapAgent`, `holdEscrow`, `markEscrowStarted/Progressing/
Abandoned`, `settleEscrow`, `releaseEscrow`, `confirmEscrowDebit`,
`recordEarning`, `registerProvider`, `migrateOwner`, `recordSuccessfulHire`,
`recordQualityFailure`. Called by the relay, the session manager, the gateway,
the CLI and the recovery of orphans, in processes that share one file.

Hard: nearly every call first runs `canonicalizeCreditOwner`, which may move all
the rows of an old owner name to an agent id in the middle of an escrow's life;
releases only UPDATE; a voucher hold refunds to the balance; the two finalising
calls can race. Correct means: credits are conserved, balances equal their
journals, nothing is overdrawn, an escrow pays out once, provider numbers are
unique, counters count settlements.

### Relay server (`relay/`)

State, all in memory: sockets and the owner each registered, `connections`,
`agentIdToOwner`, rate-limit windows, `pendingRequests` with lifecycle and three
timers; in the databases: online flags of the cards and escrow rows. Operations:
register, relay_request / started / progress / response, close and error events,
idle, hard and grace timers, shutdown. It calls the credit database at each
change of a request's phase.

Hard: five different events can end a request; a close event may come after the
socket was replaced; late messages reach finished requests; memory is lost at a
restart and the database is not. Correct means: escrow and pending request move
together, one timer of the right kind is armed, the provider is paid for results
only, the requester is answered at most once, everything ends.

### Sessions (`session/`)

State: sessions, `tracking` (spent per escrow), two timers per session,
`agentSessions` per name. Operations: open, message, end, disconnect, two timer
callbacks, shutdown. Driven by the relay's message dispatch and its disconnects,
and calling the credit database at the two ends of a session. Names are owner
names or agent ids, and lookups mix the two.

### Relay client (`relay/websocket-client.ts`, `gateway/relay-dispatch.ts`)

State, per client object: the current socket, `registered`, `intentionalClose`,
`draining`, the reconnect and ping timers, the pending requests with a timer
each; sockets that the object no longer holds but whose events still come.
Operations: `connect`, `request`, `disconnect`, the socket's events, the timers.
Two users: the daemon's one client that lives as long as the service, and
`requestViaTemporaryRelay`, which makes a client per attempt and tries again when
an error's wording says that nothing happened.

Hard: events of an old socket while a new one is being set up; a timer of its own
for every request beside the relay's; a retry that must not pay twice. Correct
means: one live socket per client, a closed client reconnects or is meant to stay
closed, every request ends, a call pays at most once.

### Gateway (`gateway/`)

State: `inFlight` per skill or card, the handlers under way, request log, success rates;
escrows in the shared database. Operations: POST /rpc for one request or an array,
`executeCapabilityRequest` on its payment paths, `executeCapabilityBatch`. Handlers
give way to one another at awaits, other processes of the node release old holds
at their start, and the process may die.

Hard: four early returns between the hold and the execution; a write that fails
after the settlement; work that goes on after its time limit; a batch's items that
race for one balance and one relay client. Correct means: no hold outlives its
handler, paid means answered, the counters are exact, a batch reports what it paid.

### Autonomy and budget (`autonomy/`, `credit/budget.ts`, `mcp/tools/request.ts`)

State: the session's `totalSpent` and `paidCallCount`, the balance, rows of
`request_log` and of the queue of requests that await the owner. Operations: a
query or a direct call, search, resolution, tier and reserve gates, the call
itself, the owner's answer. Calls run concurrently.

Hard: a budget checked before an await and recorded after it; a target resolved
after the price was compared; a paid call through the relay that must not be held
here as well, and whose hold there comes an await after the reserve was looked at. Correct
means: approval holds in every interleaving, the reserve lacks only what is known to
pass it, the record is of real payments, nothing is held twice or left behind.

### Conductor (`conductor/`)

State of one run: the graph of sub-tasks, their matches, `totalCredits`, results
and errors. Operations: decompose and validate, match, `canExecute`, orchestrate
wave by wave with batches and one alternative per task. Hard: graphs from another
agent, a batch that fails as a whole, tasks of a wave compared with one total.
Correct means: only executable graphs pass, dependencies come first, success is
complete, the total is that of the matches of what was answered.

### Process lock (`runtime/`)

State: the pid file, the port, the processes. Operations: `ensureRunning`,
`acquire`, `release`, start and shutdown of the service, signals, `stop` from
outside. Hard: every read of the file may be stale when acted on; process ids come
back in a container; a crash may leave any file. Correct means: one service, whose
name is in the file, gone after a clean end, and no file that bars a start.

### The other parts

- **Registry** (`registry/`): HTTP routes, card store, request log, rental
  sessions over HTTP, health checks, free tier, challenges.
- **Identity, UCAN, credentials** (`identity/`, `auth/`, `credentials/`): key
  files, delegation chains, tokens, a replay cache.
- **P2P settlement** (`credit/settlement.ts`): signed receipts between two
  databases; the gateway refuses them (`gateway/execute.ts:254-263`).
- **Pure computations**: pricing, dividend, reputation, conductor fee.
- Without state worth modelling, or outside the node: CLI, MCP server, SDK,
  onboarding, workspace files, skill executors, mDNS, hub pages, the Hermes
  plugin, adapters, packages. `hub-agent/` (job queue) is switched off: the
  server leaves its routes unregistered (`registry/server.ts:133-149`).

`PROJECT.json` lists every component with its status, and the hazards of the
code with the property that guards each.

## 2. How the modules correspond to the code

### CreditLedger

An exported function is one action because it is one SQLite write transaction.
`tables` is the record of what a transaction reads and writes; `Canonicalize` is
the migration that precedes it, and each action commits tables computed from the
tables the migration left, in the order of the function's statements (`Settle`
has them as t1 ... t7). A call that throws commits the migration only
(`ReadOwner`), so refusals need no action of their own. `bootstrapAgent` issues
the voucher after its transaction: `Bootstrap(o, TRUE)` is the process that dies
in between.

Abstractions: transaction rows are summed into `journal`, `paid`, `earned`,
`minted`; time enters as a nondeterministic `ExpireVoucher`; escrow ids are fresh
(`randomUUID`); the reserved owner is never a caller. `Canon` chooses among
several claimants of a name with CHOOSE, as the query returns the same row every
time. Left out: `archiveTransactions`, which nothing calls, and read-only reports.

### RelayServer

Node runs one callback at a time, so a message handler, a timer callback and a
socket event are one action each. `state[s]` is the socket's readyState;
`Register` closes the owner's previous socket, whose `SocketClosed` comes later; a
socket may register again, under any owner, and then speaks for that one only.
What is said about a request, also after it ended, is taken from any socket
whose frames still arrive (`FrameArrives`), as the handlers take it. `End` is the common path of
`pendingRequests.delete`, `clearPendingTimers`, settle or release, and answer.
`Disconnect(o)` runs for the owner and not for the socket, as `handleDisconnect`
does. `Restart(old)` loses the maps, keeps the rows, and lets
`recoverOrphanedEscrows` release any set of rows it may take for old.

Abstractions: token and signature checks pass or the message has no effect;
prices are zero or not; the conductor fee is a flag; heartbeats, balance_sync,
card upserts and the explicit escrow messages are not modelled. A failing
database call inside the handlers' try/catch is not modelled either.

### SessionManager

Each handler and timer callback is one action; the statuses `open`, `closing`
and `settled` are set and left within a callback. `speaking` holds the
owners that some socket still speaks for; it outlives the entry in `connections`,
which the close of a replaced socket takes away. `OpenSession` takes any names a
client gives, owner name or agent id, from any such socket, and messages and ends
from any of them; `Tracked` and `EndSessions` use for each lookup the key the code
uses. `Restart` as in the relay. Left out: another process of the node that starts
while a session runs, and whose recovery takes the session's hold for an orphan's
after ten minutes.

### RelayClient and RelayDispatch

A socket is `<<client, n>>`: a client opens its sockets one after the other, and
`state[s]` is the readyState of each, those the object has let go of included.
`close()` leaves a socket "closing" (or "aborting", when it was still
connecting), its frames are still handled, and its `close` event comes later.
One action per callback: the handshake's open, error and close, the
acknowledgement of the registration, frames, the connect, request, ping and
reconnect timers, `disconnect` with its draining. Delays are abstracted: an armed
timer may fire at any time, and the back-off's length does not matter.

`RelayDispatch` adds the callers and the far side: `relay[r]` is what the relay
did with the request's escrow and `reply[r]` the answer on its way, which may be
lost with the socket. `Try`, `ConnectRejected`, `ConnectResolved`,
`RequestResolved` and `RequestRejected` are the loop of
`requestViaTemporaryRelay` between its awaits; `AnswerKinds`, `RequestKinds` and
`ConnectKinds` are `classifyRelayError`, each message by the substrings it holds;
a skill's own message may hold any of them.

### Gateway and GatewayBatch

What lies between two awaits is one action. `phase[h]` is the await a handler
waits at: the credit sync, the provider's configuration, the skill. `Refund` and
`Finalised` are `releaseEscrow` and the throw of settle and release on a closed
escrow; `HandleFailure` and `SuccessBreaks` follow the throws through the nested
catches. A request over HTTP is counted under `skill_id ?? card_id` (`TrackKey`), and
only a single one that names the skill looks at the capacity (`Admits`).
`ArriveArray` starts all items of a JSON-RPC array in one step, as `map` does;
`post[h]` is the array of an item. `outcome[h]` is what the handler returned or
threw, `Answered(h)` whether the requester heard of it: the items of an array are
answered together, by one `Promise.all`, and not at all when one of them threw.
`Recover(h)` is the orphan recovery of another process, whose age limit is
abstracted: any hold may be old enough. `Crash` loses handlers and `inFlight`.
Prices are one constant, accounts of all requesters one balance.

`GatewayBatch` has a step per await of an item: resolution, dispatch, import and
connection of the relay client, sending, the answer. `client` is the batch's
variable `relayClient`, which parallel items may each fill; `link` is the client
each of them made. `hubEscrow` is the second hold, which the relay of the same
process takes for a relayed item from the same account.

### Autonomy

One action per stretch between awaits of `agentbnb_request` and
`requestWithAutonomy`. `Resolve` is everything from the resolved target to the
next await: tier, reserve, and then either the local hold in the same step
(`LocalTarget`) or the request that leaves for the relay (`PaidRelay`, `Asks`). The
relay holds in a step of its own, later (`RelayHolds`), and settles or refunds in
another (`RelaySettles`, `RelayRefunds`), whatever became of the call; `relay[c]` is
how far it got. `OwnRelay` says whose database that hold is in: TRUE when the node is
its own registry, so that the relay's hold lowers the balance `canSpend` reads; FALSE
when the relay is elsewhere and this balance never hears of it. The price the relay
holds is taken to be the one the node knows. `RelayFails` may find any of this: no
hold, an open one, or a settled one whose answer was lost.

Two history variables: `overlapped` has the calls that passed the session's budget
while another was under way, `stale` those whose request was on its way to the
relay when another call lowered the balance, so that what `canSpend` had told them
no longer held. `Unchecked` are the payments at the relay that no check stood for:
of the `stale` calls, and of direct calls, which ask no `canSpend`.
`OwnerResolves` changes a queued row and does nothing else, as the route does.

### Pipeline

`raw` is a graph as another agent may return it, with unknown ids and cycles;
`Processed` is Kahn's algorithm as the validator runs it. A sub-task is matched
twice, by `capability-matcher.ts` and by `team-formation.ts`; an `Offer` has what both
find: `cost`, the price of the match, and `alt`, of its first alternative; `ask`, the
price of the agent that is called (the team's member, or the selected agent where
the team has none), and whether that agent shares a gateway, has its own, or is not
found. The estimate, the comparison before a wave and the booking know `cost` only,
whoever is called. The rule engine's graphs are a constant, `Templates`, of graphs
that can be executed. `StartWave` splits a wave into batch, single and skipped
tasks; `BatchItem`, `PrimaryOk/Fails` and `AlternativeOk/Fails` are the
promises of the wave, `EndWave` is `Promise.all`. The deadline is a choice of
`Abort`.

### ServiceLock

Every call to the file system is a step. `file` says which run created the pid
file and whether the pid is written yet; `intended[p]` is what a process read
before the unlink it decided on; `run[p]` counts the starts of a process id, so
that a new run with an old id is told apart. `raced` is a history variable: an
unlink took the file of a living run that was not the file it had judged. The
initial file is any a crash may leave.

## 3. Runs

| Run | Config | Result | Shows |
|---|---|---|---|
| ledger_migration | `LedgerMigration` | holds, 72 k states | journals, conservation and the escrow promise while names are claimed and accounts merged |
| ledger_escrows | `LedgerEscrows` | holds, 56 k | no overdraft, unique numbers, hires = settlements, forward lifecycle with three competing escrows |
| relay_safety | `RelaySafety` | holds, 460 k | escrow, timers, payment and answers of two requests over two sockets that change owners, one restart; the escrow promise |
| relay_timers | `RelayTimers` | holds, 125 k | no route to a closed socket but one that changed its name; timers end every request and free every hold |
| session_safety | `SessionSafety` | holds, 538 k | meter = escrow, payment, tracking, limit, promise; every session ends |
| relay_dispatch | `RelayDispatch` | holds, 221 k | timers follow requests, one live socket, no client is stranded, a retried call pays once; every request ends |
| gateway_rpc | `GatewayRpc` | holds, 88 k | both in-flight counters, ratings and balance are exact; no hold outlives its handler; a paid request is answered unless its writes or its array stand in the way |
| gateway_batch | `GatewayBatch` | holds, 337 k | a batch leaves no hold, stops at a failure when sequential, reports what it paid, stays in its budget with its own escrows |
| pipeline | `Pipeline` | holds, 594 k | the validator is exact, dependencies come first, success is complete, the total is that of the matches; overruns come from dearer alternatives and members only |
| autonomy | `Autonomy` | holds, 173 k | approval, one escrow, log; the reserve lacks only what direct calls and overtaken queries took; the session's record is real and is overrun by a race only |
| service_lock | `ServiceLock` | holds, 498 k | two holders only after a stale unlink, the file names the service, a clean end leaves none, no file bars a start |
| service_race | `ServiceLockRace` | violated | two processes hold the "atomic" lock |

`service_race` refutes the comment of `process-guard.ts:34-38`: between the
creation of the pid file and the write of the pid a second starter takes the
empty file for a corrupt one, removes it, and both go on. The gateway's
port then turns one of them away (`Listen`), but the file may name the wrong one, or
nobody.

A run has one group invariant, named after the module (`RelayInv`, `DispatchInv`,
`GatewayInv`, `BatchInv`, `PipelineInv`, `AutonomyInv`, `LockInv`): the conjunction
of the type invariant and of named parts, each stated with its comment in the
module. The other properties stand alone.

**Bounds.**

- *Ledger.* Two agents and one legacy name are enough for every case of the
  migration: rename, merge of two accounts that both have rows, rename under a
  voucher, two claimants of one name. Two vouchers let an older, too small one
  hide a younger one; amounts 3 and 20 give no fee and a fee of one; a grant of 21
  or 22 allows one hold of 20 and refuses the second. Three escrows allow three
  settlements, so that numbers pass both bonus limits (1 and 2 instead of 50 and
  200).
- *Relay.* Two sockets and two owners: a socket that is replaced, or that takes a
  second name and lets its first one be taken over while the other stays; two
  requests allow two that end in one disconnect; `RateMax` 1 lets the limit be
  reached. One restart is enough to lose memory; what follows a
  second one is what follows the first.
- *Sessions.* Two owners, either of which may open a session under either name,
  so that the two keys of a session differ as owner name and agent id do; two
  sessions against a limit of one; a budget of 3 at rate 2 lets a
  session run over its budget; three messages reach the message limit.
- *Relay client.* Two clients with two sockets each: an attempt and its retry, or
  a daemon's client and its reconnect; two requests, pending together, or one per
  attempt; one progress message re-arms a timer.
- *Gateway.* Two handlers, apart or in one array, each with or without a skill_id;
  capacity 1, so that a second single request for the skill is turned away and every
  other kind runs beyond it; daily limit 1. The balance pays for both, since
  with a smaller one two items of an array could not both be paid; the refusal for
  want of balance is therefore not taken in the run, and the theorems cover it. One failing
  write, one crash: either lets one item of an array stop the answer of the other.
- *Batch.* Three items, prices and caps 1 and 2, a budget of 4 and a balance of 5:
  caps may exceed the budget, and items at price 2 exceed the balance when they
  are held twice. Three items let two race for the client while the third finds it.
- *Pipeline.* Every graph over three sub-tasks and one unknown id, so cycles of
  every length up to three; four kinds of match: a cheap agent with a dearer
  alternative, one whose place a dearer member takes on a gateway with batches, a
  member without a match, an agent without a peer; a chain and a fork as templates; a
  budget of 5 that some matches pass and some exceed, and that an alternative or a
  member leaves.
- *Autonomy.* Two calls, prices 0 to 3 on both sides of both tier limits, a
  reserve of 1 in a balance of 4, so that two queries at the relay, or one there and
  one here, pass `canSpend` together and breach it; a session budget of 3 that two
  calls exceed. The relay is the node's own, which is where the reserve can be seen
  to shrink.
- *Lock.* Two processes, two starts each, two disruptions, a manager outside:
  enough for a stale reader, a replaced file and a third reader (an id that came
  back).

`CHECK_DEADLOCK FALSE` where the system may stop: every socket closed, every
session, call or batch ended, every process down. Symmetry is used for agents and
escrows where no name can be claimed (so that CHOOSE chooses nothing) and for
owners, sockets and requests in `relay_safety`, never together with liveness.

**Fairness.** What is assumed is that the runtime runs what it has armed: weak
fairness of `TimerFires(r)` (relay), `DurationTimeout(s)` (sessions), the
client's connect and request timers, its drain and the loop of a call
(`RelayDispatch`), and the next step of a process that runs (`ServiceLock`).
Nothing is assumed of messages, peers, answers, signals or restarts. `EveryHoldEnds`
therefore excepts the requests a restart lost, and `SomeoneServes` speaks of starts
after the last disruption. The specifications of gateway, batch, pipeline and
autonomy state the fairness of their awaits, which all have time limits in the
code; their safety runs do not depend on it.

## 4. Divergences met while modelling

Where a comment, document or test says one thing and the code does another, beside
`service_race`. The models follow the code.

| Code | What it does | What is said |
|---|---|---|
| `credit/escrow.ts:266` | the first-provider bonus is minted | taken from the treasury |
| `credit/reliability-metrics.ts:90` | the first hire counts as a repeat: the query runs after the insert | `CREDIT-POLICY.md:127` |
| `credit/ledger.ts:366` | a receipt whose row was archived would be credited again | line 344: idempotent |
| `credit/registry-sync.ts` | the sync overwrites the balance with a value read earlier, also after its time limit | |
| `relay/websocket-relay.ts:762` | the close event of a replaced socket takes the reconnected agent offline | `docs/v4.0-release-report.md:42` |
| `relay/websocket-relay.ts:1012-1019` | a socket may register again under another owner; its close disconnects the last name only, and the first one's routes, connection and pending requests stay with a closed socket, the requests until a timer ends them | `docs/brain/decisions.md:256`: a disconnect fails every pending request |
| `relay/websocket-relay.ts:251` | progress does not re-arm the hard timer | `docs/brain/decisions.md:255` |
| `runtime/agent-runtime.ts:306` | the recovery passes over started and progressing holds, which stay held for ever | `docs/brain/credit-pricing.md:61` |
| `session/session-escrow.ts:61` | the whole budget is settled | "remainder is refunded", lines 10-11 |
| `session/session-manager.ts:101`, `:252` | a provider known by agent id is not found at its disconnect | line 249 |
| `relay/websocket-relay.ts:1065-1069` | a session may be opened, and any session's messages and end sent, by whoever has a registered socket; a socket that registers under a second name leaves the first one's sessions to the timers | `session/session-manager.ts:249` |
| `session/session-manager.ts:372` | ended sessions keep counting against the limit | line 67 |
| `session/session-manager.ts:184` | a session may spend more than its budget | "Budget enforcement", line 41 |
| `session/session-escrow.ts:40` | nothing calls `deductMinute`: per_minute sessions are free | line 40 |
| `relay/websocket-client.ts:195` | `disconnect()` leaves an armed reconnect timer: the client lives on | `gateway/relay-dispatch.ts:110` |
| `gateway/execute.ts:395-396` | timeouts are rated down (474-481) | the comment says they are not |
| `gateway/execute.ts:625` | a relayed batch item is paid by the batch and by the relay, beyond `total_budget` | line 65 |
| `gateway/execute.ts:742` | a batch may reject | "never throws" |
| `gateway/execute.ts:362` | the daily limit counts ended requests only | |
| `gateway/server.ts:326` | arrays, relayed requests and single requests without `skill_id` (which run the card's first skill and are counted under the card) skip `max_concurrent` | |
| `gateway/server.ts:247` | one item of an array that throws rejects the whole POST: items that were executed and settled get no answer | |
| `registry/batch-routes.ts:158` | of two relay clients made by racing items one is never disconnected | |
| `conductor/pipeline-orchestrator.ts:158` | a dearer alternative exceeds the budget | "Hard ceiling", `budget-controller.ts:39` |
| `conductor/pipeline-orchestrator.ts:263-265`, `:130`, `:332` | the team's member is called, the price of the match is compared and booked: `total_credits` is not what the agents that answered ask, and a dearer member leaves the budget unseen | "Hard ceiling", `budget-controller.ts:39` |
| `conductor/pipeline-orchestrator.ts:259` | a peer that is not found throws the results of earlier waves away; items that fail inside a batch get no alternative | |
| `autonomy/auto-request.ts:438` | the target is resolved again and may cost more than `maxCostCredits` | line 31 |
| `autonomy/auto-request.ts:490-543` | a paid relay query is held at the relay, an await after `canSpend`: two pass on one reading and breach the reserve; with a relay elsewhere the balance `canSpend` reads never shows what was paid there; direct calls (`mcp/tools/request.ts:264`) ask no `canSpend` | `credit/budget.ts:10`, `:28` |
| `registry/session-routes.ts` | a rating given after the end never reaches `outcome_json` | |
| `runtime/process-guard.ts` | an acquirer whose unlink finds the file gone is refused although nobody runs | |

An approved request of the queue is never executed by anything, and a later
rejection overwrites the approval: `OwnerResolves` says so.

## 5. Proofs

`CreditLedgerProofs` proves for any number of agents, names, escrows, vouchers,
nonces and any amounts, from the constants' assumptions `NamesAssumption`,
`AmountsAssumption` and `FiniteAssumption` (agents, names and escrows are rows of a
database, so there are finitely many):

| Theorem | Statement |
|---|---|
| `TypeCorrect` | `Spec => []TypeOK` |
| `JournalIsBalanced` | `Spec => []BalanceMatchesJournal` |
| `NeverOverdrawn` | `Spec => []NoOverdraft` |
| `RefundsFindARow` | `Spec => []RefundHasARow` |
| `NumbersNeverShared` | `Spec => []ProviderNumbersUnique` |
| `EscrowPaysOnce` | `Spec => []PaysOutOnce` |
| `EscrowsMoveForward` | `Spec => LifecycleMovesForward` |
| `LedgerKeepsPromise` | `Spec => KeepsPromise` (refinement of `EscrowPromise`) |
| `CreditsAreConserved` | `Spec => []CreditsConserved` |
| `HiresAreCounted` | `Spec => []HiresAreSettlements` |

The inductive invariant is
`LedgerInv == TypeOK /\ Sound(tables) /\ PaidByPhase /\ BooksBalance`.
None of the invariants above is inductive alone. A refund finds its row only
because vouchers have owners with rows (a voucher hold checks no balance row); a
merge keeps balances equal to journals only together with the types; a new
provider number is fresh only if the numbers in use are bounded (`NumbersBounded`,
which the finiteness of a database gives and which is proved here rather than
assumed). Because a transaction computes tables in several steps, the conditions
are stated of a record t of tables (`Sound(t)`) and shown to survive every step a
transaction is made of: `Migrate`, `Credit`, `Debit`, `Refund`, `SetStatus`,
`RegisterProvider`, `PayBonus`, `RecordSuccessfulHire`. `SameEscrows(t, u)` says
that such a step left the escrows alone. Each action then makes a `GoodStep`:
sound tables, and every escrow kept, opened, moved or closed; from that follow
the invariant in the next state, the lifecycle and the refinement.

Conservation is proved of the tables as a whole. `Books(t, u, credits, hires)` says
by how much a step changes the sum of the balances and the sum of the hires;
each of the eight steps has a lemma of that form (`DebitBooks`, `MergeBooks`, ...:
a merge moves a balance, so it changes no sum), and a transaction adds them up.
`BooksBalance` then gives every escrow row a worth, credits tied up or paid out of a
voucher, and says that balances and worths together are what was minted. The
three sums of `CreditsConserved` are one sum of worths, split by the status of the
escrow; the lemmas for that are those of `SumTheorems`.

`SessionAndLockProofs` proves, from `SessionAssumption`, for any number of
owners, agent ids and sessions and any budgets, rates and limits:

| Theorem | Statement |
|---|---|
| `SessionTypeCorrect` | `SessionSpec => []SessionTypeOK` |
| `MetersAgree` | `SessionSpec => []MeterMatchesEscrow` |
| `PaysWhatWasCharged` | `SessionSpec => []PaidWhenCharged` |
| `TimersAreCleared` | `SessionSpec => []TimersOfRunning` |
| `DisconnectFindsSessions` | `SessionSpec => []RunningIsTracked /\ DisconnectEndsSessions` |
| `LimitIsKept` | `SessionSpec => []LimitHolds` |
| `SessionsKeepPromise` | `SessionSpec => SessionKeepsPromise` (refinement of `EscrowPromise`) |

The inductive invariant `SessionInv` joins these with two facts no run needs to
state: an unused session id has neither row nor escrow (`FreshHasNoEscrow`, so
that opening holds a new escrow), and a running session has an opener and a
provider (`HasParties`). The invariants need each other: a disconnect ends
every session that its owner opened or provides under that name because
`RunningIsTracked` lets it find them, and ending a session closes an escrow that is held because
`MeterMatchesEscrow` says it is. The limit needs an invariant of its own: the set it
is checked on is finite and holds at least the sessions the name opened. Six of the steps end sessions through
`EndSessions`; the lemma `EndsKeep` covers them all, for any set of running
sessions and any last charge. A step is a `GoodStep` when the invariant holds
after it and every escrow stays, opens or closes, which is the step the
refinement needs.
`RelayServerProofs`, from `RelayAssumption` and
`NothingIsPending`, for any owners, agent keys, sockets and requests:

| Theorem | Statement |
|---|---|
| `RelayAgrees` | `RelaySpec => []RelayInv` |
| `RelayPaysForResults` | `RelaySpec => []PaidForResults` |
| `RelayAnswersOnce` | `RelaySpec => []AnsweredAtMostOnce` |
| `RelayRoutesLead` | `RelaySpec => []RoutesLead` |
| `RelayEscrowPromise` | `RelaySpec => RelayKeepsPromise` |

The invariant is `RelayStrong`: per request, what is pending, the timer, the escrow
and the answer tell one story; per agent key and per target, there is a
socket, and a closed one only under a name that the socket has given up. A
disconnect ends every request of an owner in one step, so the step is shown to move
each request on its own (`GoodStep`), and the refinement follows from the same
moves.

`RelayDispatchProofs`, from `RelayClientAssumption` and `DispatchAssumption`, for
any number of clients, attempts, sockets and requests:

| Theorem | Statement |
|---|---|
| `CallPaysOnce` | `DispatchSpec => []PaidOnce` |
| `ClientInStep` | `DispatchSpec => []DispatchInv` |
| `ClientNeverStranded` | `DispatchSpec => []NeverStranded` |

For the first the invariant `CallStrong` says that every attempt
before the current one is over (`Over`: refused, released or never sent), and that
the loop backs off only from such an attempt. The sockets enter only through
`pending`, `outcome` and `draining`, so an action of a client needs no more than
what it does to these. For the other two `DispatchStrong` says of each client that
its sockets were opened in order, that at most one of them has not ended, none while
the reconnect timer is armed, and that the live one is `ws` (`SocketsOK`); a client
is started only when it is `Untouched`. Every event and timer is a `GoodMove` of one
client, which leaves the others alone.

`GatewayProofs`, from `GatewayAssumption`, for any finite set of handlers, any
price, balance, capacity, limit and number of failures and crashes:

| Theorem | Statement |
|---|---|
| `BooksKept` | `GatewaySpec => []GatewayInv` |
| `NoHoldBehind` | `GatewaySpec => []HoldEndsWithHandler` |
| `PaidIffAnswered` | `GatewaySpec => []PaidMeansAnswered` |
| `GatewayEscrowPromise` | `GatewaySpec => GatewayKeepsPromise` |

The counters and the balance are counts of sets (`InSlot`, `Charged`); each action
moves one handler in or out of them (`StepOf`), and `CountMoves` says what that does
to a cardinality. An array, which enters several handlers at once, and a crash, which moves all of
them, are cases of their own. `PaidIffAnswered` needs of an array that its items are one
group, entered together: while one has no answer to give, another can be named that
is at work, was lost, or threw.

`GatewayBatchProofs`, from `BatchAssumption`, for any number of items, prices, caps
and faults:

| Theorem | Statement |
|---|---|
| `BatchKeepsOn` | `BatchSpec => []BatchInv` |
| `BatchInBudget` | `BatchSpec => []OwnHoldsInBudget` |
| `BatchReportsTrue` | `BatchSpec => []ReportsWhatItPaid` |
| `EveryBatchIsFinite` | `BatchSpec => EveryStepCounts` |
| `BatchEscrowPromise` | `BatchSpec => BatchKeepsPromise` |

`ItemOK` says what is known of one item, `ItemBooks` what its hold and its entries
in the report say of each other. The budget is kept by what `Submit` checks, the sum
of the caps, and by no check afterwards: an item's hold is at most its cap, so that
the sum of the holds is at most the sum that was checked (`SumAtMost`), in any
interleaving. The report is exact because an item writes its own entry only. Items
that run at once, a relay that ends their requests later and recoveries all lower
one measure (`Left`), item by item (`OneItemCounts`), so a batch is finite.

`SpendingProofs` has the two components that spend against a budget. From
`AutonomyAssumption`, for any calls, prices, tiers, reserve and budget, and a relay in
the node's own database or elsewhere:

| Theorem | Statement |
|---|---|
| `AutonomyKept` | `AutonomySpec => []AutonomyInv` |
| `SessionSpendIsReal` | `AutonomySpec => []SpendIsReal` |
| `SessionOverrunNeedsARace` | `AutonomySpec => []OverrunNeedsARace` |
| `AutonomyEscrowPromise` | `AutonomySpec => AutonomyKeepsPromise` |

`AutonomyStrong` ties the place of a call to its hold, its row in the queue and its
log. The reserve has an invariant of its own, `FloorStrong`: what is missing from it
is at most the sum of the `Unchecked`, and every query on its way to the relay that
nobody has overtaken (`Stands`) still finds what `canSpend` told it. A hold that is
taken here lowers the balance after the gate in the same step and makes all that are
on their way `stale`; a hold at the relay was either let through by a reading that
stands, or is of a call in `Unchecked`.
`SpendStrong` adds that the session's record is the sum of the prices of the calls
that succeeded, and that a call which passed the budget alone is still alone with
it (`AloneOK`): no other has passed since, and what it asked for still fits beside
what is recorded. The record therefore exceeds the budget by no more than the sum of
`Beyond` over the successes (`OverrunKeeps`): the whole price of a call that passed
beside others, what the target cost above the limit of one that passed alone.

From `PipelineAssumption` and `TemplatesAssumption`, for any finite set of sub-tasks and any offers:

| Theorem | Statement |
|---|---|
| `ValidatorAcceptsExactly` | `PipelineSpec => []ValidatorIsExact` |
| `RunIsSound` | `PipelineSpec => []PipelineInv` |
| `OverrunsAreDearerAgents` | `PipelineSpec => []OverrunByDearerAgents` |
| `EveryRunIsFinite` | `PipelineSpec => EveryStepCounts` |

`Kahn(g)` is a function on the number of rounds, defined by recursion;
`KahnUnfolds` shows that it exists and what it returns next, with the first n rounds
(`Iterates`) as a function that is known to exist. The invariant of the rounds
(`KahnOK`) is that the degree of a task counts the dependencies that have not been
through the queue, that the tasks with none left have been queued, and that no set
of tasks that wait for one another was entered. All are processed exactly when there
is no such set, that is, no cycle (`KahnIsExact`). That what the rule
engine returns can be executed is `TemplatesAssumption`, which TLC evaluates
(`TemplatesAreSound`). The run's invariant `PipelineStrong` says of each sub-task
what it knows of those it depends on (`TaskOK`), and of the total that it is the
sum of what is booked for those that were answered. `Left`, what the sub-tasks and the
stages have left to do, is a number (`LeftIsNat`) that every step lowers.

`SessionAndLockProofs`, from `LockAssumption`, for any processes, starts and
disruptions:

| Theorem | Statement |
|---|---|
| `ServiceNamed` | `LockSpec => []LockInv` |
| `LockExclusive` | `LockSpec => []ExclusiveUnlessRaced` |
| `NoLockLeft` | `LockSpec => []CleanExitLeavesNoLock` |

`LockStrong` says, for each place in `acquire`, `release` and the service, what the
file may be: a run that has created the file still owns it unless there was a race,
one that has released owns none, and what a process intends to unlink was judged
stale when it was read.

`SumTheorems` has what these proofs need of sums over finite sets, which the
models take from the community modules as folds: a sum over the empty set, over one
more element (`SumAdd`), of numbers (`SumInt`), over a union, under a change of one
term (`SumChange`), of two functions, and its bounds. The library's induction
theorems take a predicate as a parameter, which no installed prover can
instantiate; the lemmas are therefore proved by a least counterexample: the set
of the cardinalities at which one fails has a least number, which the library's
theorem on well-founded relations gives for a set, not for a predicate.

**Only model-checked.** Liveness, and with it ENABLED, is outside the proof
system: `EveryRequestEnds`, `EveryHoldEnds`, `EverySessionEnds`, `RequestsEnd` and
`SomeoneServes`. Every invariant, action property and refinement that a run
checks is also a theorem. The two `EveryStepCounts` and
`DisconnectEndsSessions` are theorems only and named in no cfg. The first two bound the length of a pipeline's run and of a batch;
that neither stops half-way would be liveness and is not claimed.

## 6. Hazards no property covers

The close event of a replaced socket (`relay/websocket-relay.ts:762`) and the
others of section 4 are what the code does not survive: a property of them would be
one that fails. Metering per minute has no caller to check. A database call that
fails inside the relay's handlers is caught and logged there and leaves the hold to
the recovery, as after a restart.

Some failures are not among the faults of the models: a `releaseEscrow` or a read of
the daily limit that itself throws (`gateway/execute.ts:364`) would leave a hold, and
a `recordSuccessfulHire` that fails is swallowed (`credit/escrow.ts:280`) and leaves
a settlement without its hire. A recovery by another process while a session runs is
not modelled either (section 2).

## 7. Not modelled

- *Registry, rental sessions (`registry/session-routes.ts`), free tier, health
  checks, challenges*: each handler is one statement or two on rows of its own; no
  two of them share state that their order could spoil beyond section 4.
- *Explicit relay escrow messages (`relay/relay-escrow.ts`)*: no client of the
  repository sends them; the functions they call are actions of `CreditLedger`.
- *Credit sync and remote ledgers*: HTTP delegation; the sync promises nothing that
  holds (section 4).
- *P2P settlement*: the gateway refuses receipts; the two local halves are
  `ConfirmDebit` and `RecordEarning`.
- *UCAN, identity, credentials, reputation, dividend, pricing*: computations over
  signatures or floating-point numbers.
- *Hub agents and job queue*: unreachable in the running server.
- *Schema migrations, onboarding, workspace, CLI, MCP tools other than the request
  tool, SDK, hub pages, plugins, packages*: input and output.

## 8. Where to go on

A composition of
`RelayClient` and `RelayServer`, so that the answers of the far side are those of
the relay's own timers; database failures inside the relay's handlers; the idle
monitor and auto-share of the provider's side; pricing and dividend against
reference definitions.
