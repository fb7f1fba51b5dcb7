# IP Ban Manager: a TLA+ model of the integration

IP Ban Manager is a Home Assistant integration. It takes over Home
Assistant's login bans, adds an allowlist, blocked networks, region locks and a
default-deny mode, and can copy the resulting policy to the proxy hosts of an
Nginx Proxy Manager (NPM) in front of Home Assistant. All of it is Python under
`src/custom_components/ip_ban_manager/`; file names below are relative to that
directory, and line numbers are those of the commit in `src/`.

The program runs on one asyncio event loop. Code between two `await`s is
indivisible; everything else interleaves: service calls, HTTP requests, timers,
event listeners, jobs in the executor's threads, requests to NPM, cancellation
at any `await`, and the end of the process. Its state lives in three places that
must agree (memory, `ip_bans.yaml` or the config entry on disk, the proxy
hosts), and most of its hazards are ways for them to part.

`PROJECT.json` lists the components, the runs, the mutants, the source lines
each definition stands for, the findings, the hazards and the theorems.

## 1. Inventory

| Component | State it keeps | Operations |
| --- | --- | --- |
| Exact ban list (`ban_ops.py`, add and load hooks of `http_patches.py`, `file_store.py`) | the live lookup `ban_manager.ip_bans_lookup`; `ip_bans.yaml`; `ban_file_lock` | add, remove, remove all, remove the trusted, replace, native load and append, dismiss |
| Request access policy (`ban_lookup.py`, `region_rules.py`) | the live allowlist, blocked networks, region rules, default deny, callback paths, all held by the lookup object | `in` test of the request middleware, truth test |
| Failed-login path (wrong-login hooks of `http_patches.py`, `notifications.py`, `audit.py`) | failed-login counters, notification ids, pending escalations | wrong login (native, regional, allowlisted), successful login, dismiss |
| Network policy (`network_policy.py`, `entry_helpers.py`, `internal_networks.py`, `ip_utils.py`) | allowlist and blocked networks in the entry's options and in the lookup | add/remove allowlist or blocked network, safety checks, apply settings |
| DNS allowlist (`dns_allowlist.py`) | resolved addresses per host name with their age | periodic refresh, expiry, start, stop |
| Configuration transaction and backup (`configuration_transaction.py`, `backup.py`, `panel.py`) | a lock, a snapshot of all options | apply, restore on any failure or cancellation, import |
| Proxy synchronization (`nginx_proxy_manager.py`) | the stored connection (token, selected host, enabled, managed hosts), a policy lock, a debounce flag and task; the proxy hosts themselves | connect, select, enable, synchronize, disable, disconnect, refresh token, schedule |
| Lifecycle (`__init__.py`) | patches, listeners, tasks and caches in `hass.data` | set up, failed set-up, unload |
| Activity history (`activity.py`) | a bounded list in memory, a stored copy, a save timer | load, record, prune, delayed save, clear, flush |
| GeoIP reader (`geoip.py`, `geoip_lifecycle.py`) | a memory-mapped reader, a thread lock, a database file | prepare, download and replace, look up, close |
| HTTP API and region authorisation (`http_views.py`, `services.py`, `blocked_request_log.py`) | a short-lived answer cache, a rate limiter | panel commands, `auth_request` answers for NPM |
| Options flow, status, health, sensors, notifications text, migration, panel assets, i18n, panel.js, vendored MaxMind reader | none another part depends on | forms, read-only views, one-off clean-up, static files |

How they interact:

* Every change of the ban list goes through `ban_file_lock`; the native add of
  Home Assistant is wrapped so that it takes the lock too. A change publishes the
  live lookup first and writes the file in the executor.
* The lookup object is replaced by the native load and by `apply_blocked_networks`
  and is read by the request middleware, by the add hook and by the services.
* Bans and policy changes fire events; a listener schedules a proxy
  synchronization, which runs a second later in a task of its own under the
  policy lock.
* Panel commands run as configuration transactions that call the network policy,
  the DNS refresh, the ban replacement and NPM in turn, and undo them on failure.
* The wrong-login hook suspends for name and location look-ups before it counts,
  notifies or bans.
* Unloading takes the patches, listeners and locks away while calls may be in flight.

What is hard, by component, and the property that makes it right:

| Component | Hard behaviour | Correct when |
| --- | --- | --- |
| Exact ban list | failing and cancelled writes, jobs that outlive their call, restarts, queueing on the lock | live and file agree outside the lock; failed calls change nothing; every call is atomic and ends |
| Request access policy | precedence of seven rules; the same policy rendered as proxy rules | the two orders of rules answer alike wherever the documentation orders them |
| Failed-login path | counters read before and written after awaits; resets in between | one warning and one ban per threshold crossed; a reset is not lost |
| Network policy | read, await, write; safety check on stale data | no concurrent edit is lost; the caller is never locked out |
| DNS allowlist | slow, failing or changing resolvers; edits between refreshes | an address is trusted at most the documented time after its name stopped naming it |
| Configuration transaction | failure and cancellation at each step, concurrent writers of other options | after a failure every part is as before |
| Proxy synchronization | partial failure across hosts, answers that are lost, owner's edits, interruption | success is complete, failure restores, the last local change reaches the proxy |
| Lifecycle | calls in flight across set-up and unload | one lock per ban file; nothing runs on after unload |
| Activity history | events during load, clear during save | no event is lost or comes back |
| GeoIP reader | close during prepare, lookups in threads | no use of a closed reader; a switched-off database stays off |
| Region authorisation | cached answers, bounded limiter | a revoked region is denied within the cache time |

## 2. Plan

All modules of the plan are written. In the order of what depends on what:

| Module | Part of the system | Composed with |
| --- | --- | --- |
| ExactBans, AbstractBans | the ban list and `ban_file_lock` | ExactBans implements AbstractBans |
| NpmReconcile | one policy transaction over several proxy hosts | |
| NpmSync | schedule, debounce loop, policy lock, selection | takes the outcome of NpmReconcile as one step |
| Allowlist | allowlist and blocked-network commands, lockout check, DNS refresh | |
| Configuration | panel options, region edits, restored backups, the options form, their undo | takes the DNS refresh, the proxy calls and the ban writes as awaits that may fail |
| Lifecycle | set-up, failed set-up, unload, with bans, a load and commands in flight | takes the lists' awaits as one and a ban edit as one |
| ActivityHistory | the persisted history | |
| LoginFlow | wrong logins: counters, thresholds, escalation, the notice | takes the add hook as one step |
| AccessPolicy | the membership test, the proxy's rules, the region check | |

The modules share constants of the code but no variables: where one part calls
another, the caller's module has the call as an await with the outcomes the other
module allows. Each large module has a run of its own; `Service` puts the last four
side by side, with one of them moving at a time, for one run (`MCService`) and for the
theorems about them.

Every instance has two or three of each interchangeable thing: the hazards need two
actors and one resource, or three hosts so that "earlier", "failing" and "later"
differ. No module has a recursive operator, so all of them stay provable.

## 3. What is modelled

### ExactBans

| Model | Code |
| --- | --- |
| `live`, `file` | keys of `ip_bans_lookup`; entries of `ip_bans.yaml` |
| `class` | what the lookup's policy says of an address: plain, trusted (internal or allowlisted), watched (allowlisted, but allowlisted logins may ban), blocked network, locked (default deny or region) |
| `lock`, `pc` | `ban_file_lock` and where each call is suspended |
| `prev`, `stale` | `previous_bans`, or what a load's job has read; what a call listed before it waited |
| `shielded` | the call swallowed a CancelledError at `asyncio.shield` |
| `orphans` | executor jobs whose coroutine has left |
| `unbanned`, `outcome` | events, replies |
| `unsaved` | history: addresses for which the code gives up the promise that the file follows |

One action is the code between two suspension points. `Call` runs up to the lock and, when
the lock is free, through it, as `asyncio.Lock` does; `Enter` is a waiter being given the
lock; `WriteLands`, `WriteFails`, `AppendLands` and `AppendFails` and `ReadEnds` are the
executor job; `FinishMutate`, `FinishCancelled`, `RollBack`, `FinishAdd`, `FailAdd` and
`FinishLoad` are what the coroutine does with its result. A load keeps what its job has
read until its coroutine resumes, and a job whose call was cut off may write in between.
`Cancel` delivers a CancelledError at every suspension point: the first one during a write
is swallowed until the write ends (`ban_ops.py:136-145`), a second one reaches the write
task while the thread goes on. `Crash` restarts from the file.

`replace` stands for `async_replace_ip_bans` and for the ban restore of
`backup.py:354-373`, `setup` for `async_remove_allowlisted_ip_bans`, `login` for the
native ban after too many failures, `add` for the service. Waiters may be served in
any order; asyncio serves them first come first served, which is one of those.
Timestamps, the order of entries, YAML text, notifications and metrics are left out; the
failed-login counters these calls clear are in LoginFlow.

### AbstractBans

What a caller may rely on: one set of bans, to which each call applies at most once, in
one step between its invocation and its reply; an error means no effect; a restart finds
what was promised. `Interrupt` is the one exception: a call cut off between memory and
disk may take effect without the promise to survive (`weak`), and a reload may bring a
weak ban back or drop one. ExactBans implements it under the mapping at the end of
`ExactBans.tla`: `store` is the live set minus the uncommitted step of the lock's holder.

### NpmReconcile

| Model | Code |
| --- | --- |
| `remote[h]` | a proxy host as NPM stores it: the owner's directives, the managed block (the version of the policy in it, 0 for none), its reference to the legacy access list, whether it is active |
| `cfg` | the stored connection: enabled, all domains, managed hosts, access list |
| `job`, `pc` | the transaction that holds the policy lock, and the HTTP request it awaits |
| `snap`, `want`, `todo`, `changed` | `hosts`, `desired_rules`, the rest of `ordered_ids`, `changed` |
| `failed`, `edited` | history: hosts with a failed request; hosts the owner touched since `snap` |

A step is an HTTP request with what the code does until the next one. A request
fails before or after it took effect; the code itself notes that NPM persists
failed writes (`nginx_proxy_manager.py:1049`). `UpdateRejected` is the answer that
NGINX refused the configuration, `Checked` and `RestoreEnds` the look and the
restore that follow. `CutOff` ends a transaction without rollback: the process
ends, or a second CancelledError passes `_serialized_policy`. The owner of the
proxy edits hosts at any time. Hosts are neither created nor deleted; whatever makes
an update fail before it is sent (conflicting location, damaged marker, renamed
access list) is a failed request that did not take effect. Only the selected host
refers to the legacy list, as the version that used one left it.

### NpmSync

| Model | Code |
| --- | --- |
| `policy`, `edge[h]` | the version of the rules in force locally; the version in host h's block (0: no block) |
| `cfg` | the stored connection: enabled, `proxy_host_id` |
| `pending`, `pc[Loop]` | `_NPM_SYNC_PENDING`; the task of `_async_debounced_sync`: none, asleep, waiting for the policy lock, or at a request |
| `lock` | the policy lock of `_serialized_policy` |
| `target`, `want` | the host and the rules the running transaction has read |
| `stage`, `cancelled` | whether the integration is loaded, being unloaded (the task is awaited) or gone; the task was cancelled during its transaction |
| `broken`, `overtaken` | history: the last transaction failed, or an unload came while it ran |

`SetPolicy` is any local change with the event it fires; `Schedule` is
`schedule_npm_sync`. The task takes the flag before it sleeps, so a change made while
it sleeps, waits or writes sets the flag again and causes another round (`TaskEnds`);
an error ends the task and leaves the flag. `Command` is a panel command: enable,
synchronize, disable, or select, which disables first when the connection it reads is
enabled and then, outside the lock, awaits the host list and writes the connection
(`Selected`). A transaction reads the rules after the hosts (`Fetched`) and in the end
changes all hosts in one step, or, failing, any of them. One host is protected at a
time; protection of all domains is in NpmReconcile only. Unloading cancels a sleeping
or waiting task at once and waits for a transaction.

### Allowlist

| Model | Code |
| --- | --- |
| `stored`, `blocked`, `deny` | the allowlist, the blocked networks and default deny in the entry's options |
| `live` | the allowlist that is enforced (`KEY_ALLOWLIST`, `lookup.allowlist`) |
| `cache`, `age` | addresses each host name resolved to, and when |
| `dns` | what the resolver would answer now |
| `call` | each command and set-up: new, in the lockout check, in its refresh, done; what it read |
| `queue`, `job`, `due` | `KEY_DNS_ALLOWLIST_LOCK` with its waiters in order, the resolution under it, the timer |
| `raced`, `cutOff`, `late`, `owed` | history: a write over a list that had changed; cancelled refreshes; a change the proxy was not told of |

A command reads the lists, awaits the adapters and the lockout check (`PathSafe`,
the code's check that local addresses stay allowed), writes (`SaveAllowlist`,
`SaveBlocked`) and asks for a refresh. The refresh resolves all names at once
(`Resolve` per answer, `ResolveTimeout` for those that did not come), keeps a failing
name's addresses for the grace, and tells the proxy (`Apply`). `Detected`,
`LocalDefaults` and `InternalDefaults` are the detected networks set-up adds. Time is
counted in ticks; code that is ready runs before the next tick. The removal of a blocked
network, which is not checked, is in Configuration.

### Configuration

| Model | Code |
| --- | --- |
| `opts`, `live` | the entry's options; what the lookup enforces |
| `reader`, `file` | whether a GeoIP reader is open; whether the database can be opened |
| `tx` | the transaction under the configuration lock: whose, its snapshot `base`, its `plan`, and the await it is in |
| `call`, `edit` | calls with their request; a list edit between its check and its write |
| `marks`, `owed`, `acked` | history: what the properties allow for; whether the proxy was told; the region rules acknowledged so far |

`SetOptions`, `SetRegion`, `RemoveRegion`, `ImportBackup` and `SendForm` ask;
`Acquire` takes the lock and makes the plan; the `Options...`, `Import...` and
`Form...` actions are the stretches between awaits, in the code's order. Every await
may fail or be cancelled (`Fail`), which starts the undo (`Undo` to `UndoSync`), whose
awaits may fail too (`Break`). List edits, the DNS timer, a database download and the
loss of the file go on outside the lock.

Additions and removals of allowlist entries and additions of blocked networks are checked
(`StartEdit`) and written later (`WriteEdit`). The removal of a blocked network is neither
checked nor does it wait: `async_remove_blocked_network` writes the list and applies the
saved options, switches included, at whatever moment it comes
(`network_policy.py:538-563`). The form saves its blocked networks with its switches as it
begins (`Acquire`, `config_flow.py:873`), its allowlist with the refresh, and both lists
once more at its end. The marks say what happened of this: `early`, a removal applied the
form's switches ahead of its allowlist; `crossed`, a list was written beside lists or
switches it was not checked against; `overwrote`, the form's last write undid an edit;
`darkened`, the form turned GeoIP off under a region lock; `formed`, a form was saved;
`overlapped`, region edits overlapped; `broken`, an undo failed.

### Lifecycle

| Model | Code |
| --- | --- |
| `life` | the await set-up or unload is in |
| `own` | what is registered: entry data, views, services, proxy listener, timer |
| `hook` | who handles logins, adds and loads, and the saved original methods |
| `lookup`, `threshold`, `reader`, `warming` | the lookup's class, the login threshold with its original, the GeoIP reader and its background task |
| `lock`, `held`, `made` | `ban_file_lock` in `hass.data`; holders by generation, since unloading drops the lock and the next use makes another |
| `live`, `file` | exact bans in the lookup and in `ip_bans.yaml` |
| `add`, `loading`, `purge`, `removal`, `command` | native and managed adds, the load of the file, the rewrite at set-up, a removal, configuration commands |
| `slipped`, `marks` | history: trusted addresses banned after set-up looked for such bans; what the properties allow for |

Set-up is `SetUp`, `Reloaded`, `PanelReady`, `ListsReady`, `ReaderReady`, `PurgeStart`,
`PurgeEnd`, `Ready`; an error or a cancellation in any of them is `SetUpFails`, which
runs the same unload (`NpmStopped` to `Flushed`) as `Unload`. The add hook is
installed after the bans of trusted addresses were removed, and the load hook before,
as in `async_setup_entry`.

Appends and rewrites fail and are cancelled here too. An append that fails or is cut off
leaves the ban live and not in the file, or not yet (`AppendLost`, `LateAppend`). A rewrite
lands; fails and is undone (`RewriteFailed`); is cancelled once and lands all the same; or
is cancelled twice and may land after its lock was released (`RewriteLost`, `LatePurge`,
`LateRemoval`). That goes for a removal (`UnbanEnd`, `UnbanFails`, `UnbanLost`) and for
set-up's own (`PurgeEnd`, `SetUpFails`). The undo changes the lookup the rewrite began
with: when Home Assistant has got another one meanwhile, that is no longer the one in
force (`Parted`).

The marks: `crossed`, something was installed in the last stretch of an unload or after
it; `lateload`, a native load ended after set-up had looked for bans; `unwritten`, an
append was lost or a rewrite cancelled twice; `parted`, a rewrite failed in a lookup that
had been replaced; `unlocked`, a native add or load met another call under the lock;
`twolocks`, two generations of the lock were held at once. `slipped` collects which
trusted addresses were banned where set-up could not see it: natively between its look and
its hook, by a load that ended later, or by the undo of an earlier removal.

### ActivityHistory, LoginFlow, AccessPolicy

| Module | State | Actions |
| --- | --- | --- |
| ActivityHistory | `memory` and its cut-off, the file `disk` with executor writes in their order, load and save tasks with their keys in `hass.data`, the clear command and the flush | record (also while Home Assistant stops), load, delayed save, clear, unload and stop with their flush, log import, retention, failing writes, crash |
| LoginFlow | `counter`, `banned`, failed logins in flight with the threshold each has read, the one `notice`, silences, pending rewriting of the notice | a wrong login on the trusted, regional or native path, its continuation after the look-ups, the ban, removals, resets, silences, settings |
| AccessPolicy | the policy in the lookup, the reader, the lookup's identity, the policy last sent to the proxy, the answer cache and the limiter in insertion order | edits in place, reload of the ban file, reader, synchronization, the region check |

In ActivityHistory `promised` is a history variable: the events that were accepted while
no load was under way. `activity.py:161-173` drops an event that arrives during a load when
the load ends, and none of the properties claims those.

In AccessPolicy `InLookup` is `NetworkAwareBanLookup.__contains__`, and `Rules` and
`CallbackRules` the ordered rules the proxy gets; `Authorize` is the handler of the
proxy's subrequest with its cache, its eviction and its limit of misses. The two Python
dictionaries are maps whose entries carry their place in the order of insertion: `Put`
keeps the place of an address that is there, `MakeRoom` evicts the first half of what is
stale and then the oldest (`http_views.py:233-263`).

## 4. What is checked

| Run | Instance | What it shows |
| --- | --- | --- |
| `exact_bans` | 2 addresses, 2 concurrent calls of 6 kinds, classes plain and trusted, every fault, fair | `LiveMatchesFile`: outside the lock memory and file agree but for `unsaved`. `TrustedNotNewlyBanned`: trust is tested after the wait for the lock. `RemovalEventIsOwn`: no removal announces another's work. `ImplementsAbstractBans`: each call is atomic, and a failed one has no effect. `EveryCallEnds`: no path keeps the lock. |
| `cancelled_writes` | 2 addresses, 2 calls, no fault but cancellation | a counterexample, see below |
| `npm_reconcile` | 3 hosts, 2 transactions, 2 policies, 1 edit, every fault | `SuccessIsComplete`: a reported success left the block with current rules on the protected hosts and on no other, whatever an earlier transaction left. `OthersPutBack`: an error puts back every host none of whose own requests failed. `ListOutlivesReferences`: no host points at a deleted list. `EveryTransactionEnds`. |
| `npm_rollback` | 2 hosts, only the deletion fails | a counterexample, see below |
| `npm_sync` | 2 hosts, 2 commands, 3 policies, 1 reload or crash, every fault | `QuietMeansSynced`: with nothing running or scheduled and the last transaction a success, the proxy holds the policy in force. `ChangesArrive`: while transactions succeed, it gets there. `EveryCommandEnds`: nothing keeps the policy lock. |
| `npm_select` | 2 hosts, 2 commands, no faults | a counterexample, see below |
| `allowlist` | set-up and 2 commands, one of them cancellable; a container on its subnet and on Docker's bridge, both of which can be shut out; one phone's host name; interval 2, timeout 1, grace 3 ticks | `LocalPathKept`: no order of commands and refreshes locks the local networks out, unless one wrote over a list it had not checked. `TrustExpires`: a resolved address is trusted no longer than grace, interval and timeouts add up to. `SettledAllowlist`: with nothing queued, what is enforced is what is saved. `EdgeHearsOfChanges`: the proxy is told. `TrustFollowsNames`: once the resolver's answers settle, so does the list. |
| `trust_within_grace` | set-up and the timer; interval 2, timeout 1, grace 4 ticks | a counterexample, see below |
| `configuration` | 2 calls out of 8 requests and the region edits, 1 edit of a list or unchecked removal of a blocked network, 1 change of the database, 2 starting configurations, failure in every await and in every await of the undo | `LiveFollowsOptions`: with the lock free, the lookup enforces what is saved. `NoLockout`: neither default deny nor a block of the local network without a local path. `RegionLockUsable`: a region lock has GeoIP and its reader. `SequentialRegions`: acknowledged region edits add up. `EdgeHearsOfOptions`: the proxy is told. `ListsKept`: saving other options leaves the lists alone. `TransactionsEnd`. |
| `configure_reaches_edge` | the same | a counterexample, see below |
| `service` | Lifecycle: 2 addresses, 2 set-ups, 3 calls. ActivityHistory: 2 events, 2 sessions, 2 saves, 1 clear. LoginFlow: 2 sources, 2 failures in flight, 6 settings, 1 change of them. AccessPolicy: a public and an internal address, the policies over them, 2 edits, cache and limiter of one | `HooksFollowLife`: an unload or a failed set-up gives everything back. `TrustedNotBanned`: after set-up no trusted address is banned but those it could not see (`slipped`). `BansSurviveReloads`: with nothing in flight, the enforced bans are those of the file, over failed and cancelled rewrites. `LifecycleEnds`. `ClearedStaysCleared`, `FlushKeepsHistory`: what is cleared stays away, what was accepted outside a load is there after a flush. `FailuresAnswered`: counts, bans, escalations and the notice fit. `EdgeAgrees`: proxy and lookup refuse the same, but exactly where their rules come in different orders. `AnswersAreFresh`: the region check repeats nothing older than its lifetime. |
| `startup_bans` | Lifecycle: 2 trusted addresses, 1 set-up, 2 calls | a counterexample, see below |

Each property of a passing run has a mutant: the same definition with a plausible
bug (a rollback forgotten, a lock kept, a check dropped, hosts taken in the wrong
order), written next to the definition it mutates, under which TLC finds the
property violated.

The properties name what the code lets happen. Those exceptions are history
variables (`unsaved`, `overtaken`, `raced`, `late`, `slipped`, the `marks` of
Configuration, Lifecycle and ActivityHistory, the `excused` sources of LoginFlow): each
records one kind of event, and a property mentions exactly those it needs. Most of them
are traces TLC found first. Where a document says that such a thing does not happen, the
disagreement is a run of its own or is listed below; the others are in section 6.

The bounds. Two calls show every race for one lock: one inside and one that waits, writes
behind it or comes after. Two addresses distinguish the one a call names from one it does
not. Three hosts give a host before and after the failing one; two transactions let one
clean up after another; two policies let the second differ. Two commands and the task are
three parties for the policy lock: one inside and two waiting. In `allowlist` interval,
timeout and grace keep the order they have in the code (60 s, 10 s, 300 s) as far as small
numbers can: an expiry takes two refreshes. `trust_within_grace` takes a grace of two
intervals; smaller ones give the same counterexample. In `configuration` the second call
waits while the first fails, and the one edit and the one change of the database fall
anywhere between. In `service` two set-ups are the least that make a second lock and a
second history session, three calls let an add and a load meet a removal; `EscalateAt` is
1 where the code has ten, so that counts below, at and above it are within two failures; a
cache and a limiter of one entry evict at once. `MaxOps`, `MaxEdits`, `MaxPolicy`,
`MaxReloads`, `MaxSetUps`, `MaxCalls`, `MaxSessions`, `MaxSaves`, `MaxCount`,
`MaxRuleEdits`, `MaxTime`, `MaxPolicyEdits` and `MaxFiles` bound counters the code does
not have; they stop the environment and never the code. CHECK_DEADLOCK is off where the
calls or transactions of the instance are used up.

`Service` puts four modules side by side. They share no variable, so `focus` picks the
one that moves, and the state spaces add up. The history is followed up to the first
event its properties excuse; the lifecycle further, but after such an event only what
is in flight ends. What the properties claim of states beyond those points is proved
(`HistoryByItself` and the theorems of Lifecycle_proofs, which are about all steps).

No run uses symmetry.

Fairness. `EveryCallEnds` assumes that the event loop resumes a ready coroutine
and that an executor job ends (`Enter`, `ExecutorStep`, `Resume`), per call:
asyncio runs every ready callback, and the lock is first come first served. Nothing
obliges anyone to call, cancel or crash. Weak fairness of `Enter` suffices because
each call is made once, so a waiter can be overtaken only finitely often.
`EveryTransactionEnds` assumes that each request is answered or times out
(`NPM_REQUEST_TIMEOUT`, 15 s); which of the two is not assumed. `npm_sync` assumes
the same, that the one-second sleep ends, that a free lock is given to a waiter, and
that an unload goes on when the task it awaits has ended. It assumes no retry: the
code has none, so `ChangesArrive` speaks of behaviours in which the transactions
succeed from some point on. `allowlist` assumes that ready code runs, that a resolution
answers or times out, and that time passes; that answers come in time is a hypothesis
of `TrustFollowsNames` itself. `configuration` and `service` assume weak fairness of
their steps under way (`Run`): an await ends, in whatever way. Neither assumes that
anyone calls, edits or reloads, nor that an await succeeds.

### Disagreements with the documentation

Six of them are runs, each of which TLC finds violated.

* `CancelledWritesAgree`: the first CancelledError during a write is swallowed and the
  lock kept, but the second await of the write is not shielded. A second CancelledError
  cancels it, and the lock is released while the executor is still writing. The comment at
  `ban_ops.py:137-138`, `tests/ip_ban_manager/test_audit_regressions.py:62` and
  `CHANGELOG.md:39` and `:193` say that a cancelled write leaves nothing behind a released
  lock and does not part bans and file.
* `TrustWithinGrace`: the grace is compared only when a refresh ends, so the last
  addresses of a name that no longer resolves stay trusted for up to an interval and a
  timeout longer, with the code's numbers about 370 s, and 10 s more per cancelled command
  ahead of the refresh. `README.md:182-184` and `CHANGELOG.md:46` say at most five
  minutes.
* `StartupBansRemoved`: set-up looks for bans of trusted addresses, awaits the write of
  their removal, and only then installs the add hook. A ban that Home Assistant makes of
  another trusted address during that write stays, although `README.md:367` says a trusted
  address banned before the integration finishes loading is unbanned after set-up
  (`CHANGELOG.md:356` speaks of closing this race).
* `RollsBackEveryHost`: a host is entered in `changed` only after its whole policy
  step returned. When the update landed and the deletion of the legacy list fails,
  or the update's answer is lost, the host keeps the new block, although
  `CHANGELOG.md:187` says every affected host is rolled back.
* `DisabledIsClean`: a selection reads the stored connection, awaits the host list and
  writes the connection back as disabled. When protection was enabled during that
  await, the connection is disabled while the block stays on the proxy, although
  `README.md:234` says disabling removes the marked blocks from every managed host.
  (The next transaction finds the block by its marker and removes it.)
* `ConfigureReachesEdge`: the options form saves default deny, the lists and the bans
  and nothing schedules a synchronization, although `README.md:230` says policy changes
  synchronize automatically. The proxy keeps the old policy until some other change.

The others have no run of their own; the properties state them or name them. The passing
runs reach them, but for the second: the class it needs is in the theorems about ExactBans
and not in the instance of `exact_bans`.

* Precedence at the proxy (`EdgeAgrees`, `OrdersDiffer`). `README.md:187-189` says that
  allowed entries override blocked networks and that exact bans take precedence, and
  `README.md:228` that edge protection mirrors the lists. The lookup does the first. The
  proxy has one order for all lists: with **Bans inside Allowed IPs** on, bans and blocked
  networks both come before trust, and it refuses a trusted address of a blocked network
  that Home Assistant admits; with it off, both come after, and it admits a trusted
  address with an exact ban that Home Assistant refuses, unless a region lock has it ask.
  `EdgeAgrees` says that the two differ in these cases and in no other.
* `README.md:333` says that adding a ban updates the live bans and the file. The add hook
  takes `address in lookup` for "already banned", and the network-aware lookup says yes to
  every address that a region lock or default deny rejects: such an add succeeds and bans
  nothing (`EnterNoAdd`).
* `README.md:344` says the event fires after a ban is removed. Clearing all bans announces
  the list it took before it waited for the lock, with what another call has removed or
  announced meanwhile (`Announced`; `RemovalEventIsOwn` is about single removals).
* `README.md:146` says the history retains up to 1,000 events. An event recorded while the
  history is being loaded is dropped when the load ends. `FlushKeepsHistory` is about
  the events accepted outside a load.
* `README.md:347` says the escalation event fires when repeated failures of a trusted
  source cross the threshold. It fires on one exact count: a tenth failure counted on the
  standard path, or while notices are off, passes it without an event, and with automatic
  bans off each further failure fires it again (`offpath`, `muted`, `frozen` in
  `EscalatedOnce`).
* `README.md:209` says that local access paths are checked before changes are applied. They
  are, against lists and switches that another edit may replace before the write (`raced`
  in `LocalPathKept`, `crossed` in `NoLockout`); the same sentence grants that the checks
  guarantee nothing.
* `README.md:230` says policy changes synchronize automatically. A failed synchronization
  is not retried, and a change waits for the next one (the hypothesis of `ChangesArrive`).
  A command whose transaction outlives an unload and set-up can enable protection with
  rules from before the unload, and a change made in between was not heard (`overtaken` in
  `QuietMeansSynced`).

## 5. What is proved

Every theorem below is for all values of the constants under the module's named
assumption (`ConstantsAssumption`, `ConfigurationAssumption`, `ServiceAssumption`, ...;
LoginFlow states its own in the theorem). Each follows the same argument: an
inductive invariant that is a conjunction of named parts, one lemma per action or group
of actions, a lemma that splits `Next`, and the properties as consequences. The
invariants were checked by TLC on the instances of section 4 before they were proved.

| Module | Theorem | States |
| --- | --- | --- |
| ExactBans_proofs | `TypeCorrect`, `Invariance`, `WorkInvariance` | `TypeOK`, the two invariants |
| | `LiveAndFileAgree` | `LiveMatchesFile` |
| | `TrustedStayUnbanned` | `TrustedNotNewlyBanned` |
| | `RemovalsAnnounceTheirOwn` | `RemovalEventIsOwn` |
| | `BansAreAtomic` | `ImplementsAbstractBans` |
| NpmSync_proofs | `TypeCorrect`, `Invariance` | `TypeOK`, the invariant |
| | `NoChangeIsLost` | `QuietMeansSynced` |
| NpmReconcile_proofs | `TypesHold` | `TypeOK` |
| | `ListIsDeletedLast` | `ListOutlivesReferences` |
| | `SuccessLeavesPlan` | `SuccessIsComplete` |
| | `ErrorPutsBack` | `OthersPutBack` |
| Allowlist_proofs | `TypeCorrect`, `SavedAndEnforced`, `AgesAreBounded` | `TypeOK`, the two invariants |
| | `PathStaysOpen` | `LocalPathKept` |
| | `ListSettles` | `SettledAllowlist` |
| | `EdgeHears` | `EdgeHearsOfChanges` |
| | `NamesExpire` | `TrustExpires` |
| Configuration_proofs | `TypesHold`, `InvHolds` | `TypeOK`, the invariant |
| | `EnforcedIsSaved` | `LiveFollowsOptions` |
| | `LocalPathStays` | `NoLockout` |
| | `LockTellsRegions` | `RegionLockUsable` |
| | `RegionsAddUp` | `SequentialRegions` |
| | `EdgeIsTold` | `EdgeHearsOfOptions` |
| | `ListsStay` | `ListsKept` |
| LoginFlow_proofs | `TypesHold`, `AnswersHold` | `TypeOK`, `FailuresAnswered` |
| Lifecycle_proofs | `TypesHold`, `PhasesHold` | `TypeOK`, the first invariant |
| | `UnloadRestores` | `HooksFollowLife` |
| | `TrustedStayFree` | `TrustedNotBanned` |
| | `ReloadsKeepBans` | `BansSurviveReloads` |
| Service_proofs | `PartsAreImplemented` | the service implements its four parts |
| | `TypesHoldThroughout` | `ServiceTypeOK` |
| | `ClearedEventsStayAway` | `ClearedStaysCleared` |
| | `FlushLeavesEverything` | `FlushKeepsHistory` |
| | `HistoryByItself` | both and `TypeOK`, of `ActivityHistory!Spec` |
| | `FailuresAreAnswered` | `FailuresAnswered` |
| | `EdgeDecidesAlike` | `EdgeAgrees` |
| | `CachedAnswersAreFresh` | `AnswersAreFresh` |

Every invariant and every action property that a passing run checks is stated by one of
these theorems, and so is the refinement of AbstractBans.

**ExactBans.** `LiveMatchesFile` speaks only of states in which the lock is free and is
not inductive. `IInv` adds what holds while it is taken. `HolderIsInside`: exactly the
holder of the lock is between its entry and its end. `FileFollowsLive`: while a write is
on its way or has failed, the file agrees with `prev`; while an append is on its way,
with the live bans less the new one; once the job has landed, with the live bans; and
what a load has read agrees with the file for as long as its coroutine has not resumed.
`OrphansAreUnsaved`: a job without a coroutine can only touch addresses already in
`unsaved`, so its landing late disturbs nothing that was promised, also between the read of
a load and its end. The exception is exact: the only steps that put anything into `unsaved`
are a failed or cut-off append and a second CancelledError during a write; the last puts
every address there if the write may still land. What the documents say of cancelled writes
is `CancelledWritesAgree`, which TLC refutes.

The second invariant, `WorkFitsRequest`, says that from its entry to its return a call's
live bans are its own request applied to the bans it found. With it, a removal announces
what it took out itself (a fact about two states of one call), and the refinement is a
case per step: a call invokes in its first step and takes effect in the step that lands
its job, since the abstract `store` is the live set less the holder's uncommitted change;
one that is refused, has nothing to do or fails replies without effect, the roll-back
included; waits and the first cancellation of a write stutter; a call cut off between
memory and file is `Interrupt`; a load takes effect when its coroutine resumes, with what
its job read earlier, which agrees with the store but for weak addresses; a restart is the
abstract restart. `TrustedNotNewlyBanned` is an action property that needs types only:
every step that makes a ban live either asks for trust in that step or is one of those the
property names.

**NpmSync.** The invariant says where a change is while it is under way. `HolderIsBusy`
ties the policy lock to the actor with a request out. `RulesAreCurrent`: the rules the
task is writing are those in force or the flag is set; the rules a command is writing
are those in force or the task is scheduled behind it. `SyncedOrComing`: an enabled,
unbroken connection is synchronized or the task is on its way. `LoopShape` and
`NotOvertaken` tie the task and the transactions to the stages of an unload. Together
they close the argument at `Written`: whoever finishes, either its rules are current or
another round is already certain.

**NpmReconcile.** `Shape` says that the selected host comes last and is never among the
changed ones (the hosts left are a set of numbers, and a finite one has a least
element); `References` that only it refers to the list, which exists while anything
could put the reference back; `Untouched` and `Complete` say of each host nobody else
touched whether it is still as fetched, or already as planned.

**Allowlist.** `CallsFit`: a call in its check will change one list, and set-up only
adds. `SavedIsSafe`: what is saved passed the lockout check, and the saved networks are
enforced at once. `LastRefresh`: the last refresh in the queue resolves the names that
are saved. `SafeMonotone` is the fact the lockout check rests on: it stays passed when
the allowlist grows or the blocked networks shrink.

`TrustExpires` needs an invariant about time, `TimeInv`. What is cached was kept by a
refresh within the grace. While the timer runs down (`due`), a name's age grows as fast,
so their sum stays within grace and interval; once the timer waits at the DNS lock, the
refresh in front of it ends within what is left of its timeout (`TimeLeft`), or is cut
off and followed by another, which the bound counts: each command can be cancelled
once (`CutsCounted`). Nobody in the queue needs to be counted beyond that, because a
refresh that ends renews or drops every name.

**Configuration.** The invariant says, by kind and stage of the transaction, which of
snapshot, plan and options are in the entry (`SwitchesFit`), where the lookup may be
behind them (`LevelFits`), which pair of list and switch passed the lockout check
(`SafeFits`): removing a blocked network keeps a checked pair safe without a check, but
not the form's new switches beside its old allowlist, which is `NoLockout`'s window; where
the reader is open (`ReaderFits`), and that the region rules are those that were
acknowledged (`RegionFits`). The types follow from it, the bounds on edits included.

**LoginFlow.** `PathsFit`: a failure in flight took the path and read the threshold the
settings in force still call for, unless they were edited. `BansFit`: a source is banned,
or its ban is being added, exactly if its count has reached its threshold. `Bounds`
bounds a counter together with the failures of its source that will still be counted,
a cardinality that a failure enters and its count leaves (`OneCounted`).

**Lifecycle.** Two invariants. `Inv` ties hooks, registrations and the policy to the phase
of set-up and unload, and says which trusted addresses may still be banned: those in
`slipped`, and while set-up waits for the lock those it is about to remove. `slipped`
excuses exactly the bans set-up could not see, and is emptied by the next set-up.
`BansInv` is about the bans: whoever is at work under a lock holds it in its generation
(`LocksFit`), without a mark no two generations are held (`OneHolder`), a set-up makes at
most one lock (`GenFits`), and `BansFit` says what the file and the live bans owe each
other while a load, an append or a rewrite is on its way. A rewrite that fails is undone
in the lookup it began with and one that is cancelled lands all the same, so neither needs
a mark; one cancelled twice, a lost append, and an undo in a lookup that was replaced do.
`KindsFit` adds how far each kind of call gets, for the types.

**Service.** Each part keeps an invariant of its own. A step of the service is a step of
the part or leaves its variables alone (`AccessMoves`, `LoginMoves`, `HistoryMoves`,
`LifeMoves`), so the service implements each part (`PartsAreImplemented`) and the
theorems of Lifecycle_proofs hold of it; those of LoginFlow_proofs come in through an
INSTANCE.

*Access.* `EdgeAgrees` compares two decisions about one policy, for every address that is
not internal: the first of the ordered rules that matches (`FirstDecides`, `NoneGrants`;
`RulesAre` says which rules there are, in which order) and the membership test. They
differ if and only if `OrdersDiffer`, by cases over the setting for trusted sources and
the region lock. It needs no invariant but that the policy in force is one of the
policies. `AnswersAreFresh` needs one about the cache (`CacheFits`): an entry of this
lookup that has not expired is something the lookup said then. Its types are the harder
part: that the two maps stay within their limits and their places within 1 to the limit,
over insertions and evictions (`PutMap`, `OnlyMap`, `RoomMap`, which count older entries),
and that the misses of a client stay within theirs (`RecentTyped`).

*History.* What the properties of ActivityHistory excuse is collected in `excuses` and
never taken back, so `HistoryInv` has layers. The types and `HistoryShape` always hold:
which stage of the flush goes with which phase, and who may have a write in the queue.
`LoadsFit`, while no load was missed: a load under way is the session's, and every clear
or flush at work waits for it. `ClearsFit`, while also no write was lost, overtaken or
begun during a load: what was cleared is in no file, no queued write and no load, and the
time of the clear is in all of them; of a clear at work the same holds from its own write
on, and of the file once that has landed (`ClearFits`). `FlushFits`, without any mark:
what was accepted outside a load and has not aged is in memory or, while a load is under
way, in the file or in what the load has read, since what memory holds then is dropped;
and from the flush's work on it is in the flush's write, which is the last one, since no
save is active then. `MarksStay` lets each action be proved layer by layer. Steps that
clears and the flush share are proved once: each is a `Turn` that waits for the load,
cancels the save, or does the work (`DrainTurns`, `WaitsKeep`, `CancelsKeep`,
`WorksKeep`), and queues of any length need `WriteRemoved` and `WriteSubmitted`.

Three assumptions choose a representation and say nothing about the code: addresses
and networks of Allowlist are different values (`Net \cap Addr = {}`), so are the clears,
the flush and the saves of ActivityHistory (`Drain \cap Save = {}`), and the failed logins
of LoginFlow are finitely many (`IsFiniteSet(Request)`), which TypeOK's counts need.

Only model-checked:

* liveness, which is out of the prover's reach: `EveryCallEnds`, `EveryTransactionEnds`,
  `ChangesArrive`, `EveryCommandEnds`, `TrustFollowsNames`, `TransactionsEnd`,
  `LifecycleEnds`;
* the six statements of the documentation that the code does not keep (section 4): a
  counterexample refutes them.

## 6. What is not modelled, and why

Left out for good: status, health and sensors (read-only views); the migration of an
older installation (one-off file moves); panel assets, texts and constants; `panel.js`
(browser code, a form over the HTTP API); reverse DNS (names shown to people: the await
is in LoginFlow, the name is not); the vendored MaxMind reader (third party).

Left out of components that are modelled in part:

* proxy: token refresh, connecting and disconnecting, protection of all domains under
  the debounce loop (NpmReconcile has it in a transaction);
* backup and panel: the export, the payload of the panel's status, link and text of
  notifications; of the options flow the form that first makes the entry;
* history: the list of the last minutes and the grouping for display;
* lifecycle: platforms, repair issues, clean-up of an older integration;
* GeoIP: the download itself, the database's content, region lookups for the panel;
* HTTP: handlers that only start a call modelled elsewhere, the log of blocked requests;
* ExactBans assumes both hooks installed throughout; what happens while they are not is
  in Lifecycle.

### What the models show beside the properties

Each of these is a behaviour of the code that the properties name as an exception or state
as a bound, and that TLC reaches. What a document contradicts is in section 4.

* Lifecycle: a managed add or load that waits for the lock over an unload finds no saved
  original method and is lost. A command, or a load, that ends during the last stretch of
  an unload or after it installs its lookup or reader again (`crossed`); a native load
  that ends after set-up drops the managed lookup (`lateload`). Unloading drops the lock
  under its holder, so the next set-up makes a second one (`twolocks`). A rewrite that
  fails after Home Assistant got another lookup is undone in the old one (`parted`), and a
  trusted ban that it puts back, or that a load brings, after set-up has looked for such
  bans stays until the next set-up (`slipped`).
* Allowlist: after an edit, the addresses of host names are not trusted until the refresh,
  up to 10 s. A Docker gateway counts as a local path in the lockout check of default
  deny.
* Configuration: the options form writes its lists again after its awaits, over an edit
  made meanwhile (`overwrote`), and can turn GeoIP off under a region lock (`darkened`),
  which then refuses every public address. New default deny and a list edit may each be
  checked before the other is written (`crossed`). While the form registers the panel, the
  removal of a blocked network enforces its new switches beside the old allowlist
  (`early`). The undo of a transaction writes back the lists it found. Between the write
  and the apply of a restore or an undo the DNS timer may enforce the new lists under the
  old switches for a moment.
* ActivityHistory: an event recorded while a save is writing waits for the next event or
  flush to be saved. A save scheduled during the flush of an unload writes an empty
  history afterwards. The write of a cancelled save may land after that of the clear or
  the flush that cancelled it.
* LoginFlow: all sources share one notice, and the next failure
  of any of them replaces it.
* AccessPolicy: edits change the lookup in place, so the region check's cache sees only a
  reload of the ban file; after any other edit an answer may be as old as its lifetime,
  five seconds. The proxy cannot know which addresses are internal.
