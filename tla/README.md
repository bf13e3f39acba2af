# A TLA+ development of prefixd

prefixd receives attack events from DDoS detectors, decides by policy whether
and how to mitigate them, and programs BGP FlowSpec rules into a GoBGP sidecar.
PostgreSQL holds the truth, GoBGP the effect, and a reconciliation loop is to
keep the two together. Paths below are relative to the repository root.

## The system

| Component | State it keeps | Operations | Source |
|---|---|---|---|
| HTTP handlers | nothing between requests; within one, what it has read so far | ban, unban, create, withdraw, safelist edits, reload, login, operators, configuration | `src/api/handlers.rs` |
| Reconciliation loop | the rows it listed this cycle | expire, list, compare, announce, every 30 s | `src/scheduler/reconcile.rs` |
| Repository | tables events, mitigations, safelist, operators, audit | one statement per call, no transactions | `src/db/repository.rs`, `migrations/` |
| Mitigation | status, deadline, reason | activate, reject, extend, withdraw, expire, in memory | `src/domain/mitigation.rs` |
| BGP announcer | a gRPC channel | announce, withdraw, list, each with timeout and retries | `src/bgp/gobgp.rs` |
| Guardrails | limits and quotas | validate an intent | `src/guardrails/mod.rs` |
| Policy, correlation, escalation | playbooks | event and inventory context to intent | `src/policy/` |
| Inventory, playbooks, settings | caches behind RwLocks | load, reload, save | `src/config/`, `src/state.rs` |
| Alerting | destinations, 64 permits | notify, dispatch, retry | `src/alerting/` |
| WebSocket feed | broadcast ring of 1024 messages | send, receive, lag | `src/ws/`, `src/state.rs` |
| Login, sessions, operators | login attempts per user name, sessions | throttle, login, create, delete, change password | `src/api/handlers.rs`, `src/auth/` |
| Rate limiter | token buckets | check | `src/api/ratelimit.rs` (not mounted by `routes.rs`) |
| Client, metrics | - | calls the API, counts | `src/bin/`, `src/observability/` |
| Dashboard: sign-in, permissions | operator, what is known of `auth_mode`, route | me, login, health, guard, 401 events | `frontend/lib/auth.ts`, `hooks/use-auth.tsx`, `hooks/use-permissions.ts`, `components/require-auth.tsx`, `app/login/page.tsx` |
| Dashboard: data layer | map of GETs in flight, SWR's keys, socket | fetch, poll, focus, feed message, write and refetch | `frontend/lib/api.ts`, `hooks/use-api.ts`, `websocket-provider.tsx` |
| Dashboard: alert destinations | draft with masked secrets, open form | edit, save; the daemon merges, writes the file, swaps | `alerting-config-panel.tsx`, `src/alerting/mod.rs` |
| Dashboard: playbook editor | draft as form or YAML, its key | edit, validate, save; the daemon validates, writes, swaps, stamps | `playbook-editor.tsx`, `config/page.tsx`, `src/config/playbooks.rs` |
| Dashboard: lists | rows, filters, order, page, open row | poll, filter, sort, turn, open | `mitigations-content-live.tsx`, `events-content-live.tsx`, `audit-log-content-live.tsx` |
| Dashboard: acting on mitigations | dialogs, reason, requests out | withdraw, Mitigate Now, leave the page | the same, `mitigations/[id]/page.tsx`, `mitigate-now-dialog.tsx` |
| Dashboard: administration | operators, safelist, dialogs | create, delete, set password, add, remove, reload | `admin/page.tsx`, `src/api/handlers.rs` |
| Dashboard: layout, shortcuts | URL, pressed prefix, palette, sidebar | keys, commands, links | `dashboard-layout.tsx`, `use-keyboard-shortcuts.ts`, `command-palette.tsx` |

How they interact. A request runs as one tokio task; each `.await` on a query or
a gRPC call lets every other task run. Handlers and the loop share the tables
and the RIB and nothing else: there is no lock and no transaction around
"look up, check, announce, insert" or "read, withdraw, update". The database
serialises single statements and enforces two unique indexes, one on
(source, external_event_id) of events, one on (scope_hash, pop) of the live
mitigations. Successful handlers then send a WebSocket message and spawn alert
deliveries. Several instances, one per POP, may use one database, each with its
own GoBGP. The dashboard reaches the daemon through a proxy of its own, polls,
listens to the WebSocket, and keeps what it shows in one cache; its pages hold
drafts and dialogs whose requests are answered after anything may have happened
to the page, to the configuration and to the rows.

What is hard. Every two steps of two tasks may interleave. A handler's future is
dropped when its client disconnects, the process may crash or be shut down
between two steps, GoBGP may lose its RIB, a gRPC call may fail or time out and
have been applied all the same, a query may fail and several of those failures
are read as "no". In the browser the same request may serve several askers, late
answers reach pages that have moved on, and another admin edits the same file.
`PROJECT.json` lists these hazards at their lines together with the properties
that watch them.

## Modules

| Module | What it is |
|---|---|
| `Prefixd` | the control plane: handlers, loop, tables, RIB, faults; and its properties |
| `Ledger` | what the mitigations table promises whoever reads it; `Prefixd` implements it |
| `PrefixdClaims` | what the repository's texts say and the code does not do |
| `MCPrefixd` | instances for TLC |
| `PrefixdProofs` | types, the invariant behind them, theorems about the tables, the ledger |
| `PrefixdRibProofs` | theorems about the RIB and the tables |
| `Decision` | from an event through inventory, policy and guardrails to a FlowSpec path, and back from the RIB |
| `DecisionClaims` | what the texts say of it and the code does not do |
| `Recursion` | the recursive functions that models use: powers of two, the rows a page keeps |
| `RecursionLemmas` | that such functions exist, and what these two return |
| `MCDecision` | its instance |
| `DecisionProofs` | theorems about it |
| `Feed` | the WebSocket feed |
| `Alerting` | the alerting service |
| `Outbound` | both, driven by the tails of the handlers and of the loop |
| `MCOutbound` | its instance |
| `OutboundProofs` | theorems about all three |
| `Session`, `MCSession` | auth modes, a session, and one browser's sign-in, guard, permissions and polls |
| `SessionProofs` | its types |
| `Throttle` | the login handler as its clients share it |
| `View` | what the dashboard promises about the data it shows |
| `Cache`, `MCCache` | the dashboard's data layer, which implements `View` |
| `CacheProofs` | that it does |
| `AlertingPanel` | editing the alert destinations, with the daemon's update handler |
| `PlaybookEditor` | editing the playbooks, with both validators and the update handler |
| `Lists` | the pages of mitigations, events and audit entries |
| `Withdrawals` | withdrawing and Mitigate Now from the dashboard |
| `Admin` | operators and safelist, with the daemon's handlers and other clients |
| `Shell` | layout, shortcuts, palette, sidebar, what a URL asks of a page |
| `Console`, `MCConsole` | those pages and the throttle under one roof, and their instance |
| `ConsoleProofs` | theorems about them |

### Prefixd: correspondence to the code

One action is what the code does between two awaits. `pc[r]` is the await a
handler is at, `hand[r]` the `Mitigation` it holds there; `rpc`, `todo` and
`cur` are the same for the loop of a POP.

| Action | Code |
|---|---|
| `BanArrive`, `BanStore`, `BanLookup`, `BanExtend` | `handle_ban` up to the extension |
| `CreateArrive` | `create_mitigation` up to the guardrails |
| `Guard`, `BanAnnounce`, `CreateAnnounce`, `Insert`, `InsertRejected` | the rest of both |
| `UnbanArrive`, `WithdrawArrive`, `UnbanRemove`, `WithdrawRemove`, `MarkWithdrawn` | `handle_unban`, `withdraw_mitigation` |
| `ExpireFind`, `ExpireWithdraw`, `MarkExpired` | `expire_mitigations` |
| `SyncList`, `SyncCompare`, `SyncAnnounce`, `SyncDone` | `sync_announcements` |
| `AddSafelist`, `RemoveSafelist`, `Restart`, `TriggerShutdown` | safelist handlers, `main`, `AppState` |
| `Abort`, `CycleFails`, `GobgpRestart`, `CallFails` | dropped futures, failing queries, a lost RIB, failing calls |

Abstractions, each of them deliberate:

* A request mints one event UUID and one mitigation UUID; both are named after
  the request. `triggering_event_id` is then the row's own name.
* `scope_hash` and the NLRI hash are one value `scope`: they differ only when a
  rule lists a port twice, which `Decision` has. `victim_ip`, ports and rate stay in the scope and the
  action.
* The three quota counts are read in one step, as are the pages of the
  reconciler's list and the two lookups of an unban (a stored ban event never
  changes). What interleaves with the pages interleaves with the step after.
* A gRPC call that fails may or may not have been applied; what arrives late is
  taken to arrive within the call. `list_active` may miss every rule, as it does
  when an address family fails.
* `by` in a RIB entry is a history tag, never read by an action. `RuleHasLiveOwner`
  is about paths whose tag is a stored mitigation: those the reconciler announced, which
  `claim_orphans` is about, and those of a request whose row was never stored are exempt.
* `last_event_id`, escalation stamps, WebSocket messages and alerts are not in
  this module. Escalation is never called by the daemon, so no row is ever
  `escalated`; the status is kept because the queries name it.
* DryRun is a set of POPs: every instance has a mode of its own. The check is in
  each of the six actions that stand for a place that contacts GoBGP
  (`handlers.rs` 450, 636, 964, 1017, `reconcile.rs` 101, 177).

`Ledger` is the abstract specification: an entry keeps what it blocks, stays, is
refused for good or lives, ends, and is the only one alive for its scope in its
POP; it ends by expiry only past its deadline. `Book` is the mapping, a view of
`rows` alone. The ledger says openly what full-row writes of a stale copy lead to:
a deadline may move to either side, and an entry that has ended may live again.

### Decision: correspondence to the code

`Prefixd` takes "the scope and the action of a request" as given; this module
says where they come from. `LookupIp`, `FindPlaybook`, `Evaluate`,
`PortIntersection`, `Validate`, `ScopeHash`, `NlriHash`, `BuildPath`,
`DecodeNlri` and `DecodeAction` are the functions of those names (`map` in
`PROJECT.json`), `Receive`, `Decide` and `Enforce` are `handle_ban` between the
three places where it takes a configuration lock, `Create` is
`create_mitigation`, and the two reloads may happen at any time.

* Addresses, customer ids and names are values; a SHA-256 hash is what it tells
  apart: `ScopeHash` sorts the ports and drops repetitions, `NlriHash`
  sorts them only.
* A FlowSpec NLRI is a function from component type to value, and GoBGP keeps one
  path per NLRI (external). An f32 is modelled by rounding to `Mantissa`
  significant bits, ties to even; the instance uses 3 bits so that small rates
  round.
* A live row is what of it a rule depends on. Requests do not overlap here and
  nothing ends: races, expiry and failures are the subject of `Prefixd`.
* The assets of an inventory are IPv4 or IPv6 addresses that parse; confidence
  bounds and name lengths of playbooks are left out, no decision reads them.
* `dst_prefix_maxlen` and its like are `max_len`; a manual request has a `/32`
  whatever the family, as the handler writes it.

### Feed, Alerting, Outbound: correspondence to the code

A fact is that a mitigation was created or that it ended. `Commit` is the write to
the database, `Tell` the `ws_broadcast.send` after it, `Raise` the `notify` one
await later; `CommitUntold` is `create_mitigation`, which does neither; `Abandon`
is a handler dropped between them. Withdrawals, unbans and expiry have the same
tail. Extensions (`MitigationUpdated`) are not facts of their own.

* `sent` is all that was ever sent and the ring its last `Capacity` entries;
  `pos[c]` is the receiver's cursor. `Deliver` and `Lag` are the two arms of the
  send task, `Close` the end of the receive task, which leaves the send task
  behind. A peer that vanishes without a word counts as open.
* What the dashboard does with a message is in `Cache` (`Refetched`, `Message`).
* `services` has every `AlertingService` ever made; `Current` is the one behind the
  lock, a task keeps the one it was started by. An attempt succeeds or fails by
  choice; backoff is not timed. Payloads, signatures and retries of the receiving
  side are left out.

### Session: correspondence to the code

`MeServed`, `MeAnswered`, the `Health` actions and the `Poll` actions are the
browser's requests, each answered by the daemon or by the proxy's 502;
`Submit` and `LoginAnswered` are the login form, `ToLogin` and `ToDashboard` the
effects of `RequireAuth` and of the login page, `Mount` and `Unmount` what the
guard does to the pages and their hooks.

* One browser with one cookie. A session ends by inactivity, by a changed
  password or by a deleted operator; which of them does not matter here. The daemon
  may start again with another `http.auth.mode`; a browser carries no bearer token.
* An SWR key counts the failures of its chain. Its interval skips a key in error;
  `onErrorRetry` asks again 10 s and 20 s after a failure, and comes to rest
  after the third in a row or after one 401 (`swr-provider.tsx:13`). `Rested` is a key
  at rest: only focus or the mount of a component asks again. SWR itself is not
  under `src/`; that its interval skips errors is what version 2 does.
* `Body` is the JSON of `login` and `get_me`, which has no field `operator`, and
  `OperatorOf` what the page reads of it. So under credentials no role reaches
  the browser: `claim_roles` shows what follows. What remains of permissions is the
  mode: a page may have learnt that there is none and the daemon be restarted
  with one, which is what `OffersEnd` is about.

### Throttle: correspondence to the code

`LoginAttempt` is `login` up to its first await, with the pruning, the check and
the count under one lock; `LoginVerified` the rest for a right password, with the
count cleared or, when a query fails, not. A wrong password changes nothing more.
`LOGIN_ATTEMPTS` counts per user name, whoever sends the attempt, and above
`LOGIN_MAX_TRACKED_USERS` names the oldest entries go although they are inside
the window (`Evictions`, any choice among equally old ones). So the bound is not one on
a name alone: it holds unless as many other names are tried in the same
window as may be tracked. `tries` and `tried` are histories.

### View, Cache: correspondence to the code

`View` says what a page may show: the daemon's data of some moment, and never
older than before. `Cache` is how it gets there: `requestCache` with its GETs
(`Serve`, `Fail`, `Settle`, `Drop`, the last 100 ms after a GET has settled), SWR's keys
(`Poll`, `Retry`, `Focus`), the feed (`Message`), a page's own writes with the refetch
after them, and the socket's attempts. The refinement maps `current` to the
version of the daemon's data and `known` to what each key shows.

* The data of all endpoints is one version number; a GET carries the version it
  was answered with. Two keys that read one URL (`stats`, `dashboard`) share it.
* Keys in error are as in `Session`: `Poll` skips them, `Retry` is the timer of
  `onErrorRetry`, and after three failures or a 401 a key is at rest until
  focus, a message, a mount or a write of the page's own. A GET may fail any
  number of times.
* `WriteAsked` has both kinds of answer, JSON and an empty body, which `doFetch`
  fails to parse.
* `MessageTypes` has the spellings of `docs/api.md` and one of those the daemon sends.

### The console's pages: correspondence to the code

A behaviour of `Console` is that of one page, from its mount, with the handlers it
works with. Pages share no state but SWR's cache (`Cache`) and the URL (`Shell`).

* `AlertingPanel`. A destination is a kind, a key (channel, chat id, URL, region), one
  secret and its headers. `Redacted`, `Candidates`, `Merged`, `Valid` are
  `redacted`, `merge_secrets` and `validate`; `PutSaved` writes the file,
  `PutSwapped` puts it into force. That URLs are public https ones, the event
  filter and the test button are left out.
* `PlaybookEditor`. A step is what both validators read of it, and an absent field is
  `null` as the daemon sends it or `undefined` as the form leaves it: the page's
  comparison tells them apart, serde and YAML do not. `FileSaved`, `Swapped` and
  `Stamped` are the three effects of `update_playbooks`, the first two under its lock.
  Numbers are in tenths, so that a fraction the page lets through is one that serde's
  `u32` and `u64` refuse (`Readable`); a name has a length in UTF-16 units, which the
  page counts, and one in bytes, which the daemon counts (`NamesFit`).
* `Lists`. A row is a class that filters and search tell apart, and a status. The
  window is the GET's limit. An event renders a page; then its effects run one by one
  (`ResetEffect`, `ClampEffect`), each with the page of its render and the second
  setting over the first, then `Rerender`, and so on until nothing is set.
* `Withdrawals`. The daemon's side is one step (it is `Prefixd`'s subject); the page's
  requests are answered late, lost, or find that the page has gone (`stray`).
* `Admin`. Calls of the page and of two other operators. `Looked` and the write
  after the password hash are two steps. `unread` is an answer without a body.
  The handlers of the safelist and of reload ask for a session of any role.
* `Shell`. `taken` is what a page has read of the URL's query (`ask`) when it mounted; a
  command that leads to the page that is open changes the URL only.
  `Rerendered` is the cleanup of the shortcut effect.

## Runs

All runs of `MCPrefixd` use one or two victims, two detector keys, a TTL of 1 and
a clock of 2, so that a mitigation may be created, outlive its deadline and be
extended within it. The bounds: `Reqs` requests (each served once), `MaxFaults`
faults, `MaxTime` ticks. Three requests are enough for a row's creator and two
who alter it, beside the loop; two faults for one that breaks something and one
that hits the repair. The requests are interchangeable and `SYMMETRY` is used in the
runs without liveness.

| Run | Question |
|---|---|
| `crashes` | types, the unique live row, one ban per key that has any effect; whose path is left when everything but GoBGP's word may fail |
| `pops` | two instances, one of them in dry run, and whether the table they share implements `Ledger`; a protected victim, an edited safelist |
| `liveness` | every fault: operator withdrawals hold, overdue mitigations end, missing rules return |
| `claim_orphans` | "Withdraw orphan rules": refuted, without any fault |
| `pipeline` | rules concern one host, are recognised, keep their rate; one row per traffic; valid playbooks enforce |
| `claim_ports` | allowed ports are "excluded from mitigation": refuted, rules match them |
| `outbound` | no silent gap, every destination served, tasks and leftovers end |
| `session` | what the daemon would refuse is not offered for good, an ended session is noticed, a dashboard without auth opens |
| `claim_roles` | an admin who is signed in may withdraw: refuted, no role reaches the browser |
| `cache` | pages are views in the sense of `View`, and what the daemon holds arrives or the key is at rest |
| `console` | each page's own properties, over late answers, other admins, failed writes and crashes; how many passwords of a name a window lets through |
| `claim_secrets` | secrets are "preserved via `***`": refuted for a webhook's headers |

Instances and why they are enough:

* `MCDecision` has three IPv4 addresses and one IPv6, three inventories (an asset, a
  prefix and services with repeated ids), four playbook files of which `validate`
  accepts one, events with up to four ports of four, the same ones in other orders and repeated,
  and two requests: a row, and one that collides with it. The prefix limits are the
  defaults, ports are limited to 3 so that the limit is met. The accepted file
  has a police of 5 bit/s, which is valid and goes out as rate 0.
* `MCOutbound` has one mitigation with its two facts, a ring of 1 and one permit, so
  that two facts suffice to lag and to saturate; two destinations, two attempts
  and one swap.
* `MCSession` has one operator, an admin, one polled key and three modes (`bearer`
  is `credentials` for a browser without a session). Faults, restarts and returns to
  the window are unbounded: the counters end at rest.
* `MCCache` has `stats` and `dashboard`, which read one URL and of which the feed
  refetches one; two versions, one reconnection, any number of failures.
* `MCConsole`: two destinations of a file (PagerDuty, and a webhook with headers),
  two keys and two secrets, two edits and two saves; two playbooks at most with two
  steps, three changes; four rows of two classes on pages of one row in a window
  of 3, so that rows leave the window and pages vanish; two mitigations, three
  things typed; three calls of which two at once, four account ids, and the second
  account's name as the one that is typed, so that three calls delete it, bring its
  name back and act on a stale row; three keys. Names of 0, 1 and 100 units,
  the last of 300 bytes, times and rates with a fraction. The throttle has two
  names of which it tracks one, a window of 2, 2 attempts in it, 2 seconds and 5
  tries: two windows meet, and an eviction and a success fit between. The pages are
  independent, so the run's size is their sum.

Fairness. `Prefixd`'s `Fairness` is weak fairness of every handler's step and of every
loop's step: tokio polls every task that can run, queries and gRPC calls return or
time out (`bgp/gobgp.rs` sets both timeouts), and the loop's interval fires
until shutdown. Requests, ticks, edits, faults and restarts are under no
fairness: none of them need ever happen.

In `Outbound`, `AlertFairness` lets a running delivery attempt end (requests have a
10 s timeout, pauses are timers) and the send task of a closed connection run;
clients, handlers and configuration changes are under no fairness.

In `Session` and `Cache` the daemon or the proxy answers, promises settle, timers fire (the
interval of a key that is not in error, the retries of one that is, the debounce,
the 100 ms) and effects run: weak fairness of each, since nothing disables them for
ever but their own step. And requests are not lost for ever (`<>[][~Fail]`): they may be,
any number of times before that, which is enough to bring any key to rest. Nobody
need sign in, lose a session, come back to the window or connect a feed. So the
liveness properties have two parts. Without a visitor who comes back, what should
happen does, or the key that would tell is at rest in error; with one who keeps coming
back (`SF_vars(Focus)` as a hypothesis of the property) it does. Polls are of visible
pages only, as SWR's are.

Faults are bounded in the runs of `Prefixd`: with unboundedly many nothing need ever end, and liveness is claimed only after the last one.

## Proofs

The theorems hold for any sets of POPs, scopes, customers and keys, any finite
set of requests, any inputs and any faults; the assumptions are
`ConstantsAssumption` (the constants have the types their comments say) and
`SentinelsAssumption` (the null values are none of the values).

* `TypeCorrect`. `TypeOK` is not inductive: a handler that uses its input or its
  hand must have one. `InHand` says so, step by step.
* `BansActOnce`. `EventAlways` is that a key has one stored ban, which needs that a stored
  event belongs to a request that has arrived, so that no later arrival changes its
  key. `Committed` carries this several awaits further: a ban that is past the insert of its
  event, has a row, a path or an extension, is the stored one.
* `OriginInv` is the invariant under most of the rest: a row has the scope and POP
  of the request it is named after and that request has been answered; a copy
  in a hand or on the loop's list has the scope, POP and action of its row and is
  not of a rejected one. The lemmas `RowWrites`, `HandlerSteps` and `LoopSteps`
  say which steps write rows and how handlers and loops move; with them each
  invariant needs the few steps that can disturb it.
* `ScopesExclusive` follows from it. `Due` is that what is on the expiry list was overdue
  when it was read, and the clock does not go back.
* `TableImplementsLedger`: the refinement. `WritesAreLedger` says that a step writes
  one row or none and how (a creator its own, of a free place; an updater a copy that
  differs in status and deadline only), `WriteRefines` that such a write is the
  ledger's `Enter`, `Extend`, `Withdraw` or `Expire`, or a stutter, and a tick its
  `Pass`. The free place is the unique index's doing, that the copy blocks what the
  row blocks `OriginInv`'s, that an expiry is not early `Due`'s. `pops` checks the
  same with two requests; the theorem has any number.
* `ProtectedScopes`: what the configuration protects stays in the safelist, so no hand
  holds such a scope past the guardrails and no row or path has it.
* `RulesHaveLiveOwners` and `OperatorWithdrawals` need `RibInv`: a path carries the
  scope of its announcer (`Tagged`), between the withdrawal and the write of
  the row the path stays away (`Withdrawing`), and so a row that has ended is
  clean (`GoneIsClean`). No stored mitigation is announced again under its own
  name, because its creator has been answered. They hold for a single POP only: with
  two, each withdraws on its own GoBGP what the other announced.

`DecisionProofs` assumes `DecisionAssumption` only:

* `RulesAreForHosts`, for an IPv6 minimum length above 32 (the default is 128): every
  path that is not foreign was built from an intent that passed `PrefixOk`, and
  an intent's length is always 32, so its address is not IPv6. Without the
  assumption the property fails, which is the point of it.
* `LiveRowsAreRecognised`: the invariant is that every live row has a path with its
  NLRI, `RoundTrip` that decoding inverts encoding; a later `AddPath` replaces
  paths only by one with the same NLRI.
* `PipelineTypes`: what is in service is of the right shape at each of the three places where
  a configuration is read, though it may have been replaced between them.
* `ValidFilesEnforce`: a step that `validate` accepted gives an intent whose path has a
  traffic rate that reads back as the step's action, except that a police of 1 to 7 bit/s
  is less than a byte a second and becomes a discard; only the first step of a
  playbook is ever used.
* `RatesAreKept`: the rate is rounded twice, to whole bytes and to `Mantissa` bits. `FloatIs`
  gives the exponent that the rounding chooses (a least element, `LeastNatural`, over powers
  of two that outgrow every number) and bounds what it loses by half of a unit in the last
  place. This is for any `Mantissa` of at least 1, an f32's 24 among them.

`RecursionLemmas` replaces the induction the prover cannot be given (the library's theorem takes
a predicate as its parameter): `SetInduction` is induction for a set of naturals, hence for
any predicate that comprehension makes a set, and `NatRecursion` that a function defined by its value at 0
and a step exists and is what it is defined to be. `PowersOfTwo` and `PickedAre` are instances.

`CacheProofs` assumes `CacheAssumption`. `CacheInv` adds to the types that the answer a GET
holds is as new as what every key of its URL shows (`AnswersAreNew`), which is
not a matter of types: two keys share a GET, and a write's refetch may be handed
one that was sent before the write. `AskStep` says that asking keeps it however
keys come to ask. `CacheTypeCorrect` is the types; `CacheImplementsView` the
refinement, each step being `View`'s `Change`, its `Refresh` or a stutter.

`OutboundProofs` assumes the constants' assumptions of `Feed`, `Alerting` and `Outbound`.

* `NothingIsMissed`: the receiver's cursor only moves past what it heard or past what
  the resync of the same step covers; `FeedSteps` reduces every step to the feed's.
* `DestinationsAreServed`: `AlertInv` follows one alert. A running task has finished
  with every destination before its own (`Progress`), has tried the one it is at
  `attempt - 1` times and the later ones never; `OthersLast` says that what is known of
  one alert survives the steps of any other and a swap of the service.
* `OutboundTypeCorrect`: with the two invariants above.

`SessionProofs` assumes `SessionAssumption`. `SessionTypes`: with what the answers on their
way look like, and that no chain counts beyond rest.

`ConsoleProofs` assumes the assumptions of the pages' modules. `PageSteps` reduces a step of
`Console` to one of the page in question.

* `SecretsStayWithTheirEndpoints`: `SecretsInv` holds of what is in force and of what is in
  the file, since a crash or a reload turns the second into the first: no secret is
  the mask, and one of an endpoint was entered for it. `MergedIs` says that
  merging takes the secret of a destination of the same endpoint; `entered` only grows.
* `FormKeepsItsDest`: `PanelInv`, the panel's types with the property; the index of the
  open form moves with the row it belongs to.
* `RulesFollowTheFile`: inductive as it stands.
* `LoginsAreThrottled`, for any window, limits and number of names. The property is a
  count; the invariant (`Sound`) is about the sequence of a name's tries: they are ordered
  in time, the entry's start is the time of its first try, and whatever came
  before it and is `LoginMaxAttempts` back lies a window before it or had as many other names
  tried beside it as may be tracked. `PruningIsSound` is the step that takes the
  argument: an entry that is evicted has as many others, no older, in its window.
  `WindowIsSparse` turns it into the count.
* `WithdrawalsAreConfirmed`: every request, also one whose page has gone, asks for what
  was confirmed, with a reason that was typed for it (`RecordsPledge`).
* `TouchedAreNamed`: `AdminInv`. No account has an id beyond the last one given out, and an
  id has one name for good (`Known`), so that a call that names an old account
  never means a new one.
* `FiltersTurnToAnEnd`: `Ends` says of each stage of a flush what has been set and
  what the page can be; rows that come in between are not listed before a render.
* `SavesPassTheDaemon`: with the editor's types, `SavesAreAccepted` is inductive. `PageIsAsStrict`
  compares the two validators for any list of playbooks: each clause of the daemon's
  `validate` follows from one of the page's, also for the field the form does not show,
  and whether an absent field is `null` or `undefined` makes no difference once serde has read
  it. The property asks that serde reads the numbers and that names fit, because the page
  sees to neither.
* `ConsoleTypes`: the types of all six pages and the throttle.

What the theorems assume of constants beyond their types is little. Bounds admit the
initial state (`MaxIds` at least 2, because the instance starts with two operators;
`MaxRows`, `MaxChanges` and `Mantissa` at least 1); the inventories and playbook files are sequences of
the records that serde deserialises; a file of destinations holds secrets, not the mask;
null values are no values of the sets they complete. `RulesAreForHosts` alone has a
hypothesis of its own.

Only model-checked: the eight liveness properties (`ExpiryHappens`, `DriftEnds`, `ChangesArrive`,
`AlertsSettle`, `LeftoversEnd`, `ExpiryIsNoticed`, `NoneOpens`, `OffersEnd`), because fairness and
ENABLED are out of the prover's reach; `OneRowPerTraffic`, whose proof needs that two sorted
lists of one set are the same list, an induction over them; and what TLC refutes. Every
other safety property of a passing run is a theorem.

## Where the code and its texts part

Four runs refute a sentence of the repository (`claim_orphans`, `claim_ports`,
`claim_secrets`, `claim_roles`; the findings in `PROJECT.json` quote them). Other disagreements
that the models show, and no run is spent on:

* An announced path stays in the RIB with its action when the row's insertion
  fails (`handlers.rs:964`), and the reconciler, which compares NLRIs, takes it for the
  row that won.
* An extension that was answered may be overwritten by the expiry's full-row write
  (`scheduler/reconcile.rs:114`).
* The reconciler lists the rows of every POP (`scheduler/reconcile.rs:133`);
  `docs/architecture.md:323` says an instance "Filters by its own `pop` field".
* A police of 1 to 7 bit/s passes `validate` and is announced as rate 0
  (`bgp/gobgp.rs:323`), a discard.
* The playbook editor lets through fractions, which serde refuses with 400, and names of up
  to 128 UTF-16 units, of which the daemon takes 128 bytes
  (`playbook-editor.tsx:78`, `config/playbooks.rs:70`).
* Above 10 000 names the login throttle forgets names that are inside their window
  (`handlers.rs:222`).
* After three failures in a row, or one 401, an SWR key is asked again only when the visitor
  comes back (`swr-provider.tsx:15`).
* `FEATURES.md:328` has three retries of an alert, the code makes three attempts.
* A pressed `g` may outlive its second: every render's cleanup stops its timer and keeps the `g`
  (`use-keyboard-shortcuts.ts:112`).
* A path stays in force when `AddPath` fails after it was applied, while its row says
  rejected (`bgp/gobgp.rs:382`).
* A failed withdrawal's message is shown in the next dialog (`mitigations-content-live.tsx:126`).
* The feed's types are in snake_case (`ws/messages.rs:7`), `docs/api.md:894` and the
  dashboard have them in CamelCase: the dashboard recognises none and relies on polls.
* Two requests may pass a quota together (`guardrails/mod.rs:143`).
* An unban's event is never stored, because its key is the ban's
  (`handlers.rs:447`); an unban of a ban that extended another's mitigation finds
  nothing (`handlers.rs:422`); a ban retried after it failed is a duplicate
  (`handlers.rs:522`).
* `?mitigate=true` is ignored when the page of mitigations is already open.
* A save remounts the playbook editor; what was typed while it was out is lost.
* A generic destination without a secret comes back masked and cannot be saved.

## Plan

Done: the control plane and its proofs; the decision path; alerting and feed with
their safety proved; sessions, throttle and permissions; the dashboard's data
layer and its refinement of `View`; the configuration's persistence with both editors; the
dashboard's pages and their proofs.

The ledger of mitigations and its refinement, and every safety property as a
theorem, are done as well.

Left, in this order:

1. PagerDuty's view of alerts that arrive out of order.
2. A retried ban and the event ledger: an event stored before its mitigation failed.
3. Correlation and escalation, once the daemon calls them.

## Not modelled

Metrics, logs, OpenAPI and the command line client hold no state the daemon depends
on. Correlation and escalation are called by their own tests only, and the rate
limiter is not mounted. Read-only queries and audit inserts change nothing the
properties speak of. Backups of configuration files and the diff of a reload are
left out, as are webhook URL validation and the formatting of payloads. Of the dashboard: displays,
charts, badges, formatting, CSV export, themes, the generated component library
and the mock data; the user menu's sign-out, which renders nothing
because no operator reaches it (`claim_roles`); the event
filter and the test button of the alert destinations.
