# A formal model of 轻舟面板 (qing-zhou)

qing-zhou is a Go panel (SQLite, one process) that sells proxy plans for points,
meters their traffic on remote sing-box nodes, and deploys configuration to those
nodes. This directory models the panel in TLA+: its money and entitlements, its
metering, its deployments, the network it draws and describes, and its own upkeep.
TLC checks the models on small instances; TLAPS proves for every instance that the shop's
money and renewal queue, the traffic ledger, the controller's answers and thirteen of
the fifteen other parts keep their promises (section 7).

Run everything from this directory:

    tlc -config BillingShop.cfg MCBillingShop      # any MC module and its cfg
    tlapm QueueProofs.tla          # any module named ...Proofs, and Sums

## 1. The system and its parts

| Part (source under `internal/`) | State it keeps | Operations | How it interacts | What makes it correct |
|---|---|---|---|---|
| Plan buckets and renewal queue (`store/userplans.go`, `api/queue_advance.go`) | `user_plans`, `users.traffic_limit/used/expiry_at` | enqueue, hand over, reverse, adjust, remove, meter | called by shop, refund, sweep and page reads, in their transactions | one bucket of a line serves, in order; none is given up early; the aggregate agrees |
| Shop and orders (`store/purchase.go`, `refund.go`, `api/shop.go`) | `orders`, `packages.stock` | purchase, grant, refund | charges points, enqueues buckets | one charge per intent, refunds once and at most the price, stock conserved |
| Automatic renewal, periods, catalogue (`store/autorenew.go`, `periods.go`, `packages.go`) | columns of `user_plans`, `packages` | switch, renew, roll over, borrow, edit, retire | in the sweep, on page reads, by administrators | borrowing is repaid, lines follow packages, a retirement reaches everybody |
| Points and codes (`store/points.go`, `point_codes.go`) | `users.points`, `point_transactions`, `point_codes`, attempts | adjust, print, disable, redeem | ledger rows also posted by shop | the ledger explains balances; a code pays once; the lockout holds |
| Traffic ledger and collector (`store/traffic_ledger*.go`, `sbctl/traffic_snapshot.go`) | polls, bindings, cursors, gaps, metering state, leases | read, store, charge, retry, switch mode | charges buckets; reads the proxy's counters | each byte billed at most once, to the owner it was stored with; losses leave a gap |
| Configuration controller (`sbctl/controller.go`, `schedule.go`, `restartcircuit.go`) | queue, statuses, circuit, alerts | schedule, drain, pass, trip | after every change of entitlement or drawing | what is reported deployed is; every request is answered |
| Inventory (`api/sb_admin.go`, `server_admin.go`, `store/singbox.go`) | servers, inbounds, nodes, egresses | save, delete | requests deployments | metered traffic never loops or ends in nothing |
| External sources (`store/nodes.go`, `api/nodes_admin.go`) | sources and their nodes | fetch, edit, delete | feeds subscriptions | a source offers what its last answer held |
| Access (`store/singbox.go`, `relay.go`, `singbox/generate.go`) | derived | build users, rules, links | read by controller, subscription, meter | what a page lists, a node accepts, and somebody pays |
| Relay metering (`store/relay_*.go`) | link and user generations | prepare, acknowledge, retire, restore | around every deployment pass | a relay dials with what its landing accepts |
| Certificates (`acmesh`, `api/certs_*.go`) | files by domain, certificates, profiles | issue, renew, edit, delete | requests deployments | a machine has matching halves, and gets renewals |
| Subscription rendering (`subconv`, `singbox/link.go`, `api/user.go`) | blocklist, templates, 30 s cache | render, parse, hide | downloads by clients | a profile loads, and its nodes connect |
| Node software (`sshctl`, `api/probe_admin.go`, `nodever_admin.go`) | row, caches, jobs | install, upgrade, test, edit | over SSH | an installed probe goes on reporting |
| Accounts (`api/user.go`, `oauth.go`, `email.go`, `store/users.go`) | users, invite codes, links, identities | register, log in by provider, verify, delete | provisions buckets | codes admit as many as they say, accounts are complete |
| Credentials (`store/users.go`, `proxyaccount.go`, `sessions.go`, `apitokens.go`) | node secrets, proxy logins, sessions, tokens | reset, rename, log in, ban | what nodes and pages accept | what was revoked stays so, and nothing else is |
| Monitoring (`api/monitor*.go`, `device_notify.go`, `store/alerts.go`) | samples, alerts, streaks, cursors | report, sweep, calibrate | Telegram messages to operators | alerts follow conditions; a budget message is sent once |
| Notifications (`api/telegram*.go`, `email_notifications.go`, `manual_notifications.go`) | binds, claims, recipients | bind, remind, broadcast | mail and Telegram | heard once per episode, but for answers lost; bookkeeping true |
| Self-update (`updater`), remote backup (`backup`), migrations (`store/migrat*.go`) | binaries, snapshots, records, marks | update, roll back, back up, adopt | at start and in the background | a way back that is whole; records true; nothing lost on adoption |

What is hard in it:

* **Concurrency between transactions.** The database is opened with
  `_txlock=immediate`, so write transactions are serialised. What interleaves is
  everything *between* them: a handler reads a row, checks it, and writes it back
  whole later; the sweep takes one timestamp and one work list per phase; a
  retirement is a loop of transactions over lists read earlier; a check for loops or
  names precedes the save it is for.
* **Work that takes long**: passes over SSH, fetches, issues, backups, updates. Rows
  are edited or deleted meanwhile.
* **Readings that destroy what they read**, process restarts, replayed and late
  snapshots, leases that expire under their holder.
* **Stops**: files replaced by renames, messages claimed and then sent, accounts made
  in steps, migrations cut off.
* **Two readers of the same rows** that must agree: configuration, links, meter; six
  writers and parsers of a node.
* **Long histories**: renewal lines, credential generations, billing cycles, codes.

Everything hard to test is listed with its line in `PROJECT.json` under `hazards`.

## 2. Modules

    Buckets, Refund    pure operators on the user_plans table, on refunds
      ^
    Billing            the shop's state machine: transactions, jobs, the clock
      ^
    BillingProperties  (INSTANCEs PointsBook)
      ^            ^
      |            BillingProofs <- TableProofs <- QueueProofs      theorems
      |
    MCBillingQueue, -Shop, -Retirement, -Liveness, -Scenarios

    TrafficLedger <- TrafficProperties (INSTANCEs QuotaBook) <- MCTraffic, TrafficProofs
    Deploy        <- DeployProperties                        <- MCDeploy, DeployProofs
    Links         <- Subscriptions                           <- MCTemplates

    Network  INSTANCEs Inventory, NodeSources, Access, RelayMetering, Certificates,
             Subscriptions, NodeSoftware                     <- MCNetwork, NetworkProofs
    Panel    INSTANCEs Accounts, Credentials, PointCodes, Monitoring, Upgrades,
             RemoteBackup, Migrations, Notifications         <- MCPanel, PanelProofs

    Sums     what folds over finite sets add up to, for the proofs

`Network` and `Panel` play one part per behaviour: the variable `scenario` says
which, the variables are those of the parts, and a property asks its question of one
part. The constants stay open: `MCNetwork` and `MCPanel` give them the values of a small
instance, `NetworkProofs` and `PanelProofs` reason about any. The parts do not interact in the code except through what they share with
`Deploy` (requests for a deployment) and through rows another module owns, which each
module lets change on its own. The compositions that matter are inside modules: the
collector with the ledger and the proxy's process in `TrafficLedger`; the queue, the
passes, the machines, the circuit and the watcher in `Deploy`; the landing, the relay,
the pass and the accounts in `RelayMetering`; the configuration, the links and the meter
in `Access`; every writer and parser in `Links`.

### Billing

A table is a function from row ids to rows. `Buckets` has one operator per SQL statement
or helper of `userplans.go` and `periods.go`: `QueuedPlan` (`enqueuePlanBucket`),
`Advance` (`advanceUserQueues`, made of `NextInLine`, `SlotFree`, `Promote`, `HandOver`),
`ReverseOrder`/`ReversePlan`/`ReversePool`, `ResetPeriods`, `WithConverted`, `Aggregate`
(`recomputeUserAggregate`), `Metered` (the row a reading is attributed to). `Refund` is
`computeRefundQuote` with exact fractions. `PointsBook` is the abstract promise about
points: covered charges, one refund per receipt, adjustments, nothing else.

| Variable of `Billing` | Code |
|---|---|
| `now` | the wall clock, in days |
| `pkgs` | `packages` rows that change: enabled, stock, price, queue key |
| `points`, `orders`, `ledger` | `users.points`, `orders`, `point_transactions` |
| `buckets`, `nextBucket`, `mirror` | `user_plans`, its AUTOINCREMENT, the `users.*` aggregate |
| `reqs`, `answer` | purchase requests between the handler's read and the transaction; the last answer of each user |
| `grant`, `edit` | an administrator's grant and edit form holding a copy of a package |
| `sweep` | the goroutine of `queue_advance.go`: phase, timestamp, work list |
| `retire` | `handleAdminRetirePackage` in progress: holders left, orders left |
| `visit` | an `AdvanceQueueFor` between its reads and its transactions |

| Actions | Code |
|---|---|
| `ShopOpen`; `PurchaseRefused`, `PurchaseReplayed`, `PurchaseSold` | `handlePurchase`; the three ways `PurchaseDuration` ends |
| `AssignOpen`, `AssignPackage` | `handleAdminAssignPlan`, `AssignPackageDuration` |
| `AdjustPoints`, `RefundOrder`, `DeleteBucket`, `AdjustBucketTraffic`, `SetPlanAutoRenew`, `SetLineAdvance`, `SetLineMonthlyQuota`, `ConvertLineToPeriodic` | the same names |
| `AddBucketUsage` | `resolveStatsIdentity` and `applyBucketUsage` of one identity |
| `VisitOpen`, `VisitReset`, `VisitAdvance` | `AdvanceQueueFor`, called before a page or subscription is answered |
| `EditOpen`, `EditSave`, `EnablePackage` | `handleAdminUpdatePackage` with `UpdatePackage`, `handleAdminEnablePackage` |
| `RetireStart` ... `RetireFinish` | `handleAdminRetirePackage`, a step per read or transaction |
| `SweepBegin`, `SweepNextPhase`, `SweepAdvance`, `SweepRenew`, `SweepRenewSkipped`, `SweepReset`, `SweepFailed` | `sweepQueues`: `AdvanceAllQueues`, `AutoRenewDuePlans`, `ResetDuePeriods` |

A transaction is written in two halves that mirror the code: the book (`Post`,
`PlaceOrder`) and the entitlement (`Entitle`, `Recompute`). A transaction that
fails rolls back, so failure is only an action where a loop swallows it
(accounts in `MayFail`).

### The other modules

| Module | One step is | Left out or simplified |
|---|---|---|
| `TrafficLedger` | a statement or call of `collectTrafficSnapshot`, a transaction of the journal, a reset executed by the proxy after its caller gave up | up and down are one number; one machine; a poll is its sequence |
| `QuotaBook` | bytes moved, or put on a bucket's account | abstract |
| `Deploy` | a step of the queue's goroutine, of a pass on one machine (compare, install, restart), of the watcher; a panel restart; a machine's death | each machine has a file of its own; the repeated passes of `rebuildUntilStable` are one pass; a failing `rememberDesired` does not occur; the run has relay metering off |
| `Inventory` | the checks of a save, its write, a deletion, a switch of metering | ports, order, protocol options |
| `NodeSources` | the start of a fetch, its end or failure, an edit, a deletion | the content of nodes |
| `Access` | a change of one row; the three readers are operators | one user, metering off, addresses and text |
| `RelayMetering` | preparation, the compilation of one machine, its application or failure, its record, a collection | one link; a clock of "two traffic-free passes" |
| `Certificates` | a read of one file, a write of a row, an issue, a push | domains, expiry, key types; the path-based profile of `handleAdminAcmeCert` |
| `Links`, `Subscriptions` | a download, a click on a node, a change of a node, a cache filled or dropped | an option is present or not; node-key aliases of shared legacy keys, the information page, telemetry |
| `NodeSoftware` | a call over SSH, a write of the row, a click | one row; credentials always there; the read, mint, claim and write of a click are one step; temporary files |
| `Accounts` | a statement of a handler; a panel restart ends handlers | password reset, expiry of links, rate limits, errors of deletions that the code ignores |
| `Credentials` | a statement of a handler | deletions of sessions succeed; minted names never collide; expiry of logins, rate limits |
| `PointCodes` | an immediate transaction | rate limits, notes; a small largest balance stands for MaxInt64 |
| `Monitoring` | a report, the check of one type in the sweep, an edit, a restart | one machine, half days, one direction of traffic, no resolved alerts |
| `Notifications` | a claim, a send, a mark; a restart | one broadcast; a private chat is its account; recipients that are operators or banned |
| `Upgrades` | a rename, a snapshot, a restart, a stop | progress, listing, damaged snapshots |
| `RemoteBackup` | a call to the object store, a write of the setting | writes of the setting succeed; file names are unique; one deletion at a time |
| `Migrations` | one migration with its mark, a failure, a start of an older or newer binary | only the baseline and the monthly version change data; rebuilt notification tables, folded alerts, seeded rollups, the relay hash upgrade |

Names of actions are those of the functions they stand for wherever the code has one.
Definitions marked `Mutant` stand next to the definition they corrupt. None of
them is used by the model; each is a plausible bug (a dropped check, a wrong
column, a missing predicate) that makes one property fail when it replaces the
original.

### Abstractions of Billing

* Time is in days, traffic in an arbitrary unit. `expiry = 0` means "never" as in
  the code, hence `StartTime = 10`: no computed expiry is 0 by accident.
* `used_up` and `used_down` are one counter.
* The catalogue's type, traffic, duration and monthly flags are constant; price,
  stock, queue key and the enabled flag change. Custom grant durations and
  several durations per package are one choice of `Catalog`.
* An administrator's edit changes the price and the queue key to values of
  `NewPrices` and `NewLines` and writes back everything else it read.
* Proxy credentials, names, notes, daily rollups and the node synchronisation
  that follows a change are left out.

## 3. Bounds

Every bound is a CONSTANT, used in a guard of its module. In `Billing`: `MaxTime`
(clock), `MaxOrders`, `MaxLedger` (balance adjustments), `MaxInFlight` (open requests),
`MaxOverrun` (how far a bucket may run past its limit), `MaxFreeUse` (usage of a free
bucket, which has no limit), `MaxLate` (how long after its expiry a bucket may be
charged), `MaxSweepLag` (how old the timestamp of a sweep phase or a visit may get).
`Exercised` names the optional operations an instance uses, so that each run spends its
states on the interleavings it is about. In `TrafficLedger`: `MaxSequence` (readings),
`MaxEpoch` (processes), `MaxBytes`, `MaxFaults`; in `Deploy`: `MaxEdits`, `MaxPasses`
(requests), `MaxFaults`, `QueueSize`; elsewhere `MaxOps` (requests, edits, failures),
`Horizon` (time) and bounds on what is created (`MaxGen`, `MaxIssues`, `MaxTokens`,
`MaxUses`, `MaxReports`, `MaxRecords`, `MaxBackups`).

Because every model stops at its bounds, the runs `traffic`, `deploy`, `network`,
`panel` and `subscription_templates` do not check deadlock; the `Billing` runs do.

Why the bounds are enough.

* *Billing.* A line needs three buckets to have a retired, an active and a queued one at
  once, hence 3 orders where the queue is concerned; a duration of 1 day against 2 days
  of clock makes every bucket expire in service and in the hands of a stale sweep. Prices
  and quotas of 2 leave a partial refund and a partly used bucket between the extremes.
  In `billing_queue` and `billing_shop` a
  `Focus` looks at administration (an edit, a retirement, a conversion, a top-up) beside one
  order only; `billing_scenarios` gives it room. Two requests with one key and a stock of 2 cover a retry before, during and after its
  first attempt and a race for the last unit. Borrowing is followed through both periods
  of the first bucket, the handover, and the refill of the second. Accounts share only
  stock, the sweep and the retirement loop, so only those instances have two.
* *Traffic.* Three readings, two processes, two bytes and two faults allow a failed
  reading, its retry and a later one across a restart. `Focus` splits the run into three:
  two panels at once, two names at once, or a longer history of one name whose owner,
  bucket or plan changes. The second name is an account, a shared relay, or a line that
  names its bucket.
* *Deploy.* Two machines, two requests, one edit and one fault of any kind reach every
  order of request, pass, edit and failure; the circuit opens at one restart.
* *Network.* Two requests in flight with three operations give every read-check-write
  race; a relay pair with two generations covers rotation, retirement and restoration.
  The first place on offer runs through every protocol, transport, origin and full or
  empty set of options; the second makes groups and duplicate names.
* *Panel.* One place of an invite code with two applicants; three releases with two
  snapshots kept; two records kept of three backups; two accounts in every older shape of
  the data; a lockout of two guesses; a member whose chat is bound from the start (one of
  the three operations), so that a plan that turns low and an answer of Telegram that is
  lost fit into the run and a reminder is heard twice.

## 4. Runs

| Run | Properties | Distinct states |
|---|---|---|
| `billing_queue` | `ServedInOrder`, `PaidTimeIsServed`, `RefundRevokes`, `RenewalChoiceIsUniform` | 276 thousand |
| `billing_shop` | `TypeOK`, `LedgerExplainsBalance`, `RefundsReconcile`, `OneOrderPerKey`, `StockConserved`, `PointsAreKept` | 141 thousand |
| `billing_scenarios` | `BorrowingIsRepaid`, `LineFollowsPackage`, `MirrorAgrees`, `RetireReachesEveryHolder`, `UsageIsKept` | 510 thousand |
| `billing_liveness` | `PaidPlanEntersService` | 82 thousand |
| `traffic` | `ChargesOnce`, `EarlierReadingKeepsItsBytes`, `OneBucketPerReading`, `LossIsAnnounced` | 653 thousand |
| `deploy` | `OkMeansDeployed`, `OkMeansRunning`, `OpenIsOnRecord`, `EveryRequestIsServed` | 209 thousand |
| `network` | `MeteredTrafficLeaves`, `OffersLastAnswer`, `ListedIsServed`, `DialsAreAccepted`, `RenewalsArrive`, `ProfilesWork`, `InstalledProbesReport` | 628 thousand |
| `panel` | `AdmissionIsSettled`, `CredentialsAreSettled`, `CodesPayOnce`, `EpisodesFollowConditions`, `TellsOnce`, `RollbackIsWhole`, `BackupsAreAccountedFor`, `AdoptionKeepsAccounts`, `MessagesAreAccountedFor` | 1.9 million |
| `billing_replay`, `billing_cleared`, `billing_refund`, `subscription_templates` | one each, violated | see section 5 |

What they show, beyond the shop:

* `ChargesOnce` is a refinement: the journal, with its leases, resets, cursors and
  retries, implements `QuotaBook`, under the mapping that reads the bytes of an interval
  as `<<name, process, number>>`. `LossIsAnnounced` is its complement: with no gap on
  record and nothing under way, every byte that passed is observed, still in the counter,
  or was lost with a process in reset mode. Both are proved for every instance.
* `MirrorAgrees` is asked of all four shops of `billing_scenarios`: it is the property every
  operation on buckets may break. `RenewalChoiceIsUniform` is asked of the line of
  `billing_queue`, which grows, shrinks, is granted to, converted and refunded.
* `OkMeansDeployed` relates a status to the edits that preceded the request it answers;
  `EveryRequestIsServed` says every request gets such an answer, under the fairness of
  section 6.
* `MeteredTrafficLeaves` holds although every save checks outside its transaction,
  because with metering on the transaction checks the drawing again. Without metering
  two overlapping saves do draw a loop.
* `ProfilesWork` asks of each of three writers that the node they write is the one its
  source describes, whichever of three ways it came in by. Its transport is asked for where
  the writer carries it, and where it does not, plain TCP is what must come out: `Carries`
  and `CarriesOptions` list what is lost (section 5), so that a further loss, and a mended
  one, break the property.
* `OneBucketPerReading` asks two things, as the journal binds names in two ways: a line's
  name names its bucket, which is frozen with the reading; the names of a customer's
  account name only the customer, whose bucket is frozen for all of them when the reading
  is first processed.
* `MessagesAreAccountedFor` counts, for each reminder and episode, the deliveries and those
  among them whose answer was lost. Telegram's reminders may be heard once more for each
  lost answer, because `notifyExpiry` and `notifyTraffic` forget the claim on any error;
  those by mail never, because `sendBusinessReminder` keeps it.
* The properties of `panel` are about chains of statements that other handlers or a
  stop may cut: what was given, told, charged or taken away once stays consistent with
  what is on record.

Each of the properties is broken by at least one mutant (`PROJECT.json`, `mutants`).

## 5. What the runs found

* `billing_replay`: a purchase's retry is refused when the package has meanwhile
  sold out or been disabled, because `PurchaseDuration` checks the handler's copy
  before it looks for the order of the key. The buyer who took the last unit and
  lost the response is told "out of stock". No second charge is possible
  (`OneOrderPerKey` is proved); the promised answer is not given.
* `billing_cleared`: `handleAdminRetirePackage` lists a holder's orders and clears
  the holder's buckets in separate steps and disables the package only at the end.
  A bucket bought or granted in between is cleared while its order stays
  `success` and unrefunded.
* `billing_refund`: `DeleteBucket` leaves the order refundable. Its refund then
  falls back to the reversal by package, which shrinks or deletes the bucket of
  another order.
* `subscription_templates`: `expandAllPlaceholder` turns a template's old automatic
  group into the fallback group, which is generated only for two nodes or more; a user
  with one node gets a profile that names a group it does not contain. The same holds of
  the sing-box writer, and a custom group left with no node at all stays empty.
  `ProfilesWork` therefore leaves profiles of fewer than two nodes to this run.

### Behaviour seen while modelling that no run reports

The models contain the following, and the properties are stated around it: either no
text says what is meant, or the exemption is named in the property (`Carries`, `unanswered`,
`raced`, `late`,
`reverted`, `excused`, `adrift`, `unsure`, `unlisted`, `lost`, `cut`, `Straggled`).

*Billing.* A line that merges two packages can have two heads in service
(`UpdatePackage` says so itself; `ServedInOrder` is checked without moves between lines). A merged line
renews one expired head while the other is usable. A grant in flight across an edit keeps
the old queue key, and the edit form writes back the stock it read. An administrator's
top-up survives the refund of its order; a bucket adjusted to a limit of zero makes the
two writers of `users.used_*` differ (`Emptied` in `MirrorAgrees`). `ClearPlanBucket` does
not advance the queue; the next sweep does. A claw-back from a running monthly bucket, and
the removal or relocation of the waiting bucket it borrows from, leave its limit as it was
until `advanceUserQueues` refreshes it (`userplans.go:191`), which does not recompute the
aggregate: `users.traffic_limit` then differs from the buckets until something else does.
`borrowedFromLine` (`periods.go:48`) reads the clock itself, while the handover is dated by
its caller's timestamp: where a duration is no whole number of periods and the clock passes
the end of the grace between the two, a debt is forgiven a period too early, and the line
gets two quotas ahead (TLC shows it with 3 days of two-day periods and a visit that acts a
day late). The run's buckets last whole periods. `RetireReachesEveryHolder` is about who is
reached, not about what is bought while the retirement runs.

*Metering.* A panel that has the answer of the reset that switches its machine to cumulative
counters stores it with no deadline and without looking at its lease. If that takes longer
than the lease lasts, the next collector still reads mode `reset` and, when it cannot verify
the process or the opt-in was withdrawn, resets as well; its reading is stored after the
switch (`store/traffic_ledger.go:99`), although `sbctl/traffic_snapshot.go:128` says the
handover closes that race. No byte is billed twice: `ChargesOnce` is proved with such panels.
But processing that reading leaves the machine without a known process, so that the next
restart of the proxy is not announced. It is the one loss without a gap; the proof of
`LossIsAnnounced` failed there, and the property now names it. (TLC shows it in seconds: ask
for `~Straggled` with two panels, one name, two readings and three faults.)

*Deployment.* With relay metering on, `RebuildServer` returns the result of `Rebuild` and
never calls `closeRestartCircuit` (`sbctl/controller.go:849`), so a manual deployment does
not close the circuit as `frontend/src/views/AdminSettings.vue:349` says; the run has
metering off. A failing `ListServers` ends a pass that is reported done. A panel that dies
between installation and restart leaves the old process on the new file, and the next pass
finds nothing to do. Saving a landing's port, or moving an inbound, does not ask for the
machines that dial it.

*Drawing and access.* Without metering, if a relay's outbound cannot be built, its rule is
skipped while credentials and links remain, so the traffic leaves by the entry. A save in
flight writes a landing, an egress or a TLS profile back that was deleted meanwhile; an
inbound whose profile is gone is rendered without TLS.

*Relay metering.* A link that was `active` before metering was switched off is `active`
when it is switched on again, although the relay has since been redeployed with the shared
secret: two traffic-free passes then allow the shared secret to be retired while it is
dialled. Switching metering off while the relay's inbound is disabled, after the shared
secret was retired, has the same end. Restoring an older generation zeroes its acceptance,
so switching off before the landing is deployed drops it. An edit there and back between
preparation and acknowledgement is acknowledged.

*Certificates.* An edit form writes back the pair it read, and a renewal the auto-renew
switch it read. `DeleteCert` counts references and deletes in two statements.

*Nodes.* `UpdateServer` writes the whole row: it takes back a probe token minted since the
form was read. `SetServerHostKey` is unconditional, so a first dial that ends after the row
moved pins the former machine's key. A positive capability, and the place of the binary,
stay cached when the binary is replaced by hand; a probe of the old binary in flight across
an upgrade writes its result after `RefreshVersions`. A remote script may outlive its
timed-out job.

*Subscriptions.* The Clash writer drops trojan's grpc and httpupgrade transports
(`clash.go:485`) and writes others without their options (`clash.go:647`); sing-box drops
vmess transports other than ws (`singbox.go:537`); Surge writes grpc and httpupgrade as TCP
(`surge.go:234`). Such a node is dialled and never answers, which comments of the sing-box
writer (`singbox.go:555`, `725`) call a bug for the protocols where it was mended. `Carries`
and `CarriesOptions` name these losses in `ProfilesWork`. Importing an old Clash file loses hysteria2's obfuscation and grpc service
names. A vmess node's key depends on its whole text, so a rename or a changed option shows
a hidden node again.

*Accounts.* `handleVerify` uses up the link and marks the address in separate steps, and a
resend may have read the old address. A failing provision is answered "try again" though
the link is gone. A password change under way overwrites an administrator's reset; a login
under way during a ban opens a session that survives it, and the status is not looked at
afterwards; an edit under way across a ban lifts it. Two requests may take one proxy name
in two tables. A renewal bought after a reset has no pinned password, because `bucketCols`
reads the line's password only for lines with a name.

*Monitoring and messages.* A device message is sent before its cursor is saved, so a stop
between repeats it. Alerts of a deleted machine stay open. A machine whose probe is off has
its traffic alert closed and raised again by each sweep. A lost answer from Telegram repeats
a reminder (`telegram_notify.go:128`, `149`, `176`, `195`: every error forgets the claim),
while mail keeps its claim; the histories `told` and `unanswered` count both. A stop between claim and send loses the reminder.
`FailInterruptedManualNotifications` may run while a broadcast created since is delivered.

*Upkeep.* After a rollback whose restart failed, the next install labels the kept binary by
the running process. A failed restart of an update leaves the hosted probes at the new
release, and its undo consumes the rollback target. Deleting a remote backup writes back the
list it read before the remote call; a deleted pending record, a failed upload that stored
its object, and truncation of the list leave objects behind; records do not name their
bucket. The baseline merges duplicate lines with the later expiry, of which 0 ("never") is
the smallest, and the finite migration deletes an empty welcome row with its usage.

## 6. Fairness

* `billing_liveness` assumes `WF_vars(SweepStep)`. `StartQueueAdvance` is a goroutine with
  a ticker that runs `sweepQueues` for as long as the panel runs, each phase walks a finite
  list, and a failing account is logged and passed over; so a sweep step that stays possible
  is eventually taken.
* `deploy` assumes weak fairness of the queue's goroutine (`DrainTake`, `DrainStart`,
  `DrainFinish`), of the step a pass takes on each machine (`Apply(n)`: every SSH call has a
  deadline) and of its end, and strong fairness of `BeginQueued`: the pass of the queue waits
  for the controller's mutex, which other passes take in turn, and Go's mutex hands over to a
  waiter that starves. Failures, restarts of the panel and the watcher are not fair.

Nothing is assumed about users, administrators, page visits, machines or time, and the other
runs state no liveness.

## 7. Proofs

TLAPS checks every statement below for all values of the constants that satisfy the named
assumptions (the `ASSUME`s of the modules, which TLC evaluates in the runs): any accounts,
packages, prices, panels, machines, names, and any bounds. Where a theorem has a hypothesis
of its own, the code breaks the property without it, and the sentence says how.

### The shop: `BillingProofs`, `TableProofs`, `QueueProofs`

| Theorem | States | Under |
|---|---|---|
| `BookIsTyped` | balances are naturals (never negative); orders, ledger, requests, answers and the retirement's work list are well formed | |
| `LedgerIsSound`, `RefundsAreSound`, `IntentsAreChargedOnce` | `LedgerExplainsBalance`, `RefundsReconcile`, `OneOrderPerKey` | |
| `PointsAreSafe` | `PointsAreKept`: Billing implements PointsBook | |
| `StockIsConserved` | `StockConserved` | no edit forms, which write back the stock they read |
| `TableIsRight` | `TableInv` | |
| `UsageIsNeverLost`, `RetirementsAreComplete` | `UsageIsKept`, `RetireReachesEveryHolder` | |
| `EverythingIsTyped` | `TypeOK` | |
| `LinesServeInOrder`, `RenewalChoiceHolds` | `ServedInOrder`, `RenewalChoiceIsUniform` | `LinesStay`: merged lines can have two heads |
| `BucketsFollowPackages` | `LineFollowsPackage` | no grants, which may straddle an edit |
| `RefundsRevoke` | `RefundRevokes` | `NoTopUps`: a topped-up bucket survives its refund by design |
| `PaidTimeIsHonoured` | `PaidTimeIsServed` | `NoClawback`: a reversal by package may meet a waiting bucket that has no expiry to take from |
| `AggregateAgrees` | `MirrorAgrees` | `LimitsStand`: section 5 tells when a limit goes stale |

*The book.* `BookMoves` goes through all actions of `Next` once and shows that a step does
one of four things to `points`, `orders` and `ledger`: nothing; `Charged` (the balance
covers the price, one order and one row are appended, and the order's key is fresh);
`Refunded` (a `success` order, at most its price, to its owner); `Adjusted`. It needs only
types and `RefundIsBounded`, that `RefundPoints` stays within the price whatever the ratio.
Each theorem is then an induction over four moves rather than thirty actions. `Typed` has to
include the requests in flight and the retirement's list of orders, because a request's key
and a listed order reach the book from there; `RefundsReconcile` is strengthened by
`RefundsNameOrders` (no row refunds an order that does not exist yet), without which a new
order could be born refunded. `StockIsConserved` counts: the sale of a unit adds one ledger
row to a finite set.

*The table.* `TableInv` says that ids are below the next one, that every row agrees with its
package (`RowOK`: an owner, a quota, an overrun within the bound, periods only where the
catalogue has them) and that no job holds a timestamp of the future. As with the book,
`TableMoves` first reduces all actions to a few moves of the table (rows kept, one inserted,
some removed), each with what it may change of a row; `UsageIsNeverLost` follows from the
moves, `RetirementsAreComplete` from the work list containing every holder not yet visited.

*The queue.* Each operation is a chain of rewritings of the table, and the lemmas say what
each link keeps: `Steady` rows keep place, expiry and switch; a `HandOver` retires the head
and promotes the next; an `Enqueue` adds the newest. `Ordered`, `Uniform`, `Honoured` and
`Shares` (no bucket holds more than its order paid for) are kept by every link and so by
`Advance`, refunds, renewals and edits, whatever timestamp they carry. `LinesInv` keeps
forms and grants in the line they were opened with.

*The aggregate* is a sum over the owner's serving buckets. `AggregateAgrees` shows that after
`recomputeUserAggregate` both sides are one sum, that one metered reading adds to both the
same, and that a step which recomputes nobody leaves every owner's sum alone. Its invariant
adds `UpToDate`: the limit a refresh would write is the one the row has.

### The traffic ledger: `TrafficProofs`

| Theorem | States |
|---|---|
| `AlwaysIInv` | the inductive invariant `IInv` |
| `EveryByteOnce` | `ChargesOnce`: the journal implements QuotaBook |
| `OneBucket`, `EarlierFirst` | `OneBucketPerReading`, `EarlierReadingKeepsItsBytes` |
| `LossesAreAnnounced` | `LossIsAnnounced` |

`IInv` orders the readings, stored or still in a panel's hands: a number belongs to one
panel (`Reserved`), only the lease's holder may talk to the machine (`Leased`), its reading
is the newest (`Newest`), each lies above what earlier ones took (`InSequence`, which needs
`Measured` and `Verified`: what a reading says of the process it came from), and no panel
that may still talk resets once a cumulative reading exists (`Switched`). On it stands
`ChargeInv`: every charge is the interval of one committed observation, charges of a counter
lie apart, `used` counts their bytes, and the names of a reading that have no bucket of their
own are frozen together, the others not at all (`FrozenTogether`). Charges lie apart although a reading may be
charged long after later ones, because a cumulative reading waits for the earlier pending
ones of its counter, and a reset reading's interval was nobody else's from the start.

`LossesAreAnnounced` balances the books: `Balance` says that as long as nothing is announced
and the running process is the known one, what was charged, what waits in stored readings,
what panels hold as answers, what the counters show beyond their cursor and what processes
took with them in reset mode is all that passed. Every step that takes from one term adds to
another or announces itself: `Announced` ties each reset from before it is sent until its
answer is stored to its gap, `Metered` and `SinceSwitch` the meter's process to its last
reading, and `Tidy` fixes rows that have not begun. The hypothesis `~Straggled` is in the
property (section 5).

### The controller: `DeployProofs`

`AlwaysIInv` is the inductive invariant; `DoneMeansDeployed` and `DoneMachinesRun` state
`OkMeansDeployed` and `OkMeansRunning`. A request is answered by a drain that took the queue
after it was made, a pass under the drain began after it and holds the lock, and each
machine's file is at least as new as what the pass found (`base`) at every place of its
work; so a pass that ends well has deployed the edits of every request it answers. Machines
left aside (`unsure`, `unlisted`) are those the property names.

`OpenCircuitsAreOnRecord` states `OpenIsOnRecord` of runs in which the queue of events keeps
two places free (`Roomy`), what one restart announces at most. The hypothesis is the code's
own: it drops events when the queue is full and makes the queue "deliberately larger than any
plausible burst" (`api/restartalert.go:43`). With one place TLC finds a circuit opened whose
sample is dropped and whose alert cannot be written.

The controller and the watcher count restarts each for itself, joined only by the queue, so
the property alone is not inductive. `OpenInv` ties the two counts through the queue, for
each machine (`Watched`): what the controller counted is at most what the watcher will have
counted once it has read the queue (`Seen`), where an event that closes the circuit starts
the watcher's count anew; a decision is followed by the sample it was made from (`Paired`);
and the record of an open circuit is a decision that nothing queued after it closes, or,
with no closing queued, the alert itself or, once a write has failed, samples enough for the
watcher to decide by itself (`OnRecord`). `TailNews` says what the queue still tells after
its first event is read; the samples left are counted through a bijection.

### The network: `NetworkProofs`

A theorem says of one part of `Network` what `Spec` keeps in that part's scenario. All of
them assume `NetworkIsSane`: `None` is no id, drawings a run may start from pass the check of
link metering, an owner's id is positive, buckets have numbers, and one is free at most.

| Theorem | Property | Strengthening |
|---|---|---|
| `MeteredLinksLeave` | `MeteredTrafficLeaves` | `InventoryInv` |
| `SourcesOfferTheirLastAnswer` | `OffersLastAnswer` | `OfferInv` |
| `WhatIsListedIsServed` | `ListedIsServed` | `AccessInv` |
| `RelaysAreAccepted` | `DialsAreAccepted` | `RelayInv` |
| `CertificatesArrive` | `RenewalsArrive` | `CertsInv` |
| `ProbesReport` | `InstalledProbesReport` | `SoftwareInv` |

*Drawing.* `Sound`, what a save with metering on checks in its transaction, is kept by every
operation that checks nothing: deletions, renames, edits of machines. That it makes traffic
leave is an argument of its own: `Sound` leaves every inbound that serves a next one that
serves or an exit, and no machine is met twice; a chain longer than the number of inbounds
would repeat one (the pigeonhole principle), so following the chain ends at an exit.

*Sources.* A replacement looks its row up in the transaction that writes; once every row is
known to belong to a source the property is inductive.

*Access.* The property relates two operators of one state, so the invariant is only typing;
the proof shows that the choice `BuildUsersByTag` makes for an inbound (the bucket that ends
first, by number) and the choice of the pages agree, case by case of a bucket's kind.

*Relay metering.* What a landing accepts must cover what the relay dials, while either's
next configuration may be on its way. `ConfigsOk` therefore speaks of the running and of the
travelling configuration of both: a landing's accepts every generation and user acknowledged
so far, a relay's dials the newest generation only once acknowledged, and one on its way
dials nothing older. `LinkOk` ties the relay to the newest generation once the link or one
of its users is active, which is what makes retiring the older ones safe.

*Certificates.* `Paired` (every pair stored, presented or held by a form matches) needs
`Unnamed`: a certificate being made is named by its own request alone. Without it an edit
could overtake the first save. `Awaited` is the second half of the property for one inbound.

*Node software.* `Installing` says of an installation under way that its token is the row's
as long as a success stands; later failures and clicks cannot take the probe's token away.

### The panel itself: `PanelProofs`

The theorems assume `PanelIsSane`: users and members are finitely many, places, worths,
limit, lock and cooldown are numbers (the first ones positive where the settings make them
so), the first release is one of the releases, and `None` is no user, row or password.

| Theorem | Property | Strengthening |
|---|---|---|
| `AdmissionsSettle` | `AdmissionIsSettled` | `AccountsInv` |
| `AlertsFollow`, `OneMessageEach` | `EpisodesFollowConditions`, `TellsOnce` | `MonitoringInv` |
| `RollbacksAreWhole` | `RollbackIsWhole` | `UpgradeInv` |
| `BackupsAgree` | `BackupsAreAccountedFor` | `BackupInv` |
| `CodesAreSafe` | `CodesPayOnce` | `CodesInv` |
| `WhatIsTakenStaysAway` | `CredentialsAreSettled` | `CredsInv` |
| `MessagesAddUp` | `MessagesAreAccountedFor` | `NoticesInv` |

*Accounts.* `PlacesKept` counts the accounts a code let in, less those whose handler has not
come to `FinalizeRegCode` yet, against the places used; a place is paid by one handler, for
one account. An account of the identity provider is complete before its identity counts as
provisioned: `IdentitiesLead` and `CallbacksFollow` follow the callback from statement to
statement while administrators delete accounts and a second callback races the first.

*Monitoring.* `Covered` is the property about alerts, with `judged`, what the last check of
each type found. A condition waits for several hot checks in a row, counted in memory:
`StreaksCount` says the count in memory is never below the number of checks in a row; both
start over where a sweep finds the machine gone, or the panel's own without any sample. `OpenTidy` keeps one unread alert
per type. For messages, `MessagesOnRecord` says every message sent is covered by a cursor,
and the one a sweep is about to send by none, so that a slot is filled once.

*Upgrades.* The pair kept for a rollback is backed at every place of a job, also by what the
job would put back if it fails there (`Upgrading`).

*Backup.* `Stored` is the property but for the step under way; `JobInOrder` and
`DeletionInOrder` say what a backup and a deletion hold in their hands, each knowing that
the other's record is not its own. Retention keeps a page of records, so `Fits` counts.

*Codes.* `CodesBooked` adds to the property that a row's code exists, without which a batch
printed later could collide with it. `Guarded` says what the property cannot: the stored
number counts the guesses since the last lock, and the first of them came after that lock
had passed. That is the fact by which a guess judged now is a whole lock later than the one
`Limit` places back; `GuessIsCounted` proves it of `Fail` for one member.

*Credentials.* `SecretsMove` orders a member's secrets in time: aliases and revoked ones are
older than the current one. `NamesFree` says a request that found a name free is the only one
that can have taken it, but for the pairs the property names (`raced`). `SessionsFair` allows
a session opened under an older password only while the request that ends it is under way.

*Notifications.* What was told is still claimed or of a condition that has passed, so that no
later sweep tells it again, unless every time it was heard the answer was lost on Telegram's
side (`ToldRight`): `HeardAgain` shows that a further hearing keeps the account. A claim
without delivery is the one being sent or was cut off (`NoticesKept`). A worker's row is in no other's hands, and what it will record of the row is
what happened (`RowsKept`).

### `Sums`

The aggregate and the balance of bytes are folds (`MapThenSumSet`), recursive functions on
the subsets of a finite set. The library's induction theorems take an operator, which the
provers at hand cannot instantiate; `Induction` states the principle for a set and follows
from the well-foundedness of `<`. With it `Sums` shows that the fold exists, that it is
`SumOver`, does not depend on the order of its elements, is a natural number, and what
adding, removing or changing one element does to it.

### Assumptions worth a word

Sets that a fold or a count ranges over are finite (`Users`, `Names`, `Panels`, `Nodes`), ids
are positive, `NoKey`, `None` and `NoEpoch` are none of the values they stand beside,
amounts of traffic are naturals, and the clock starts before it ends. No assumption restricts
prices, quotas or lengths.

### What is only model-checked

* `BorrowingIsRepaid`: it divides time by the length of a period and bounds a sum over a
  line by a product, beyond the solver's linear arithmetic. Nor does it hold of every
  instance: section 5 says what late timestamps do to durations of broken periods.
* `EveryRequestIsServed` and `PaidPlanEntersService` are liveness, which the prover does not
  handle.
* `ProfilesWork` and `AdoptionKeepsAccounts`: names are made unique by a fold over the nodes
  written so far, duplicate lines are merged by a fold over packages, and what such a fold
  yields for every input is an induction over data. Both enumerate inputs rather than evolve,
  and TLC covers every input of the instance.
* `MirrorAgrees`, `LineFollowsPackage`, `UsageIsKept` and `RetireReachesEveryHolder` are asked by
  `billing_scenarios` of named instances of `BillingProperties`; the theorems are about any.

## 8. Not modelled

* **Reports and dashboards** (`api/stats.go`, `usage.go`, `store/stats.go`,
  `machine_usage.go`, `server_traffic_analysis.go`, `health_timeline.go`,
  `traffic_ledger_report.go`): queries that change nothing.
* **Announcements, help, settings pages, user groups, audiences**: single-statement writes
  read by pages.
* **Compliance and official usage**: calls to providers and the storage of their answers.
* **Relay previews and preflights**: they run the modelled preparation and roll it back.
* **The probe agent and the front end**: sampling and presentation.
* **Text**: generated configuration beyond what decides access, routes and credentials,
  messages, pages, YAML and JSON layout; cryptography, JWT, the S3 client, TLS handshakes.
* In modelled components, what the tables of section 2 leave out. The largest are password
  reset by mail, several links through one landing, a metered controller with its repeated
  passes, and node-key aliases of older releases.
