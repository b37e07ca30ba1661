# CrawlPact in TLA+

CrawlPact audits the crawler policy of web sites (robots.txt, headers, meta
tags), keeps watching the domains its users save, tells them about changes, and
sells plans through Paddle. It is one Cloudflare Worker (`apps/web`) over one D1
database. This directory holds TLA+ models of the parts whose correctness
depends on the order in which things happen, the TLC configurations that check
them on small instances, and theorems about them that TLAPS checks for every
value of the constants.

The program never opens a transaction across statements: D1 offers atomic SQL
statements and atomic batches, and everything else interleaves. Requests, the
daily cron, admin actions and webhook deliveries overlap freely; each reads
rows, awaits a network call, and writes on the strength of what it read. Worker
invocations may be killed at any `await`, a cron may be delivered twice, and
Paddle delivers at least once in any order. That is what the models are about.

## Inventory

Paths are relative to `src/`, and to `src/apps/web/src/` where they start with
`lib/`, `pages/` or `worker.ts`.

| component | state | operations | hard behaviour | correct when |
| --- | --- | --- | --- | --- |
| Monitoring sweep (`lib/monitoring.ts`, `lib/scan-scheduling.ts`) | `domains`: next_scan_at, failure count, episode | select, claim, audit, record success or failure, back off, pause | overlapping sweeps, stale snapshots, killed half-way | one claim per domain, the pause comes at the threshold, nobody starves |
| Manual rescan and scan lock (`pages/api/domains/[domainId]/scan.ts`, `lib/scan-lock.ts`) | `domains.scan_lock_until`, `scans` | quota, lock, audit, record, release | check-then-act, a lock left by a killed request | rescans exclude each other, the quota is kept |
| Admin domain operations (`lib/admin/domains.ts`) | the same row | audit at once, pause, resume | writes a date it read long before | a claim is not undone |
| Saved domains (`lib/domains.ts`, `lib/bulk-actions.ts`, `lib/portfolio-import.ts`) | `domains`, `portfolio_import_jobs` | create, import, update, delete, bulk | the plan's limit is counted before the insert, by an import once for all its rows | the overrun is bounded, one live row per account and origin |
| Timeline and attribution (`lib/domain-timeline.ts`, `lib/change-attribution.ts`) | `domain_change_events` | compare two scans, insert once | two comparisons of one scan | one event per scan, from the right pair |
| Notifications (`lib/notifications.ts`, `lib/notification-intents.ts`) | `notifications` | create once, group by episode, read, purge | duplicates, late writers | one notice per change |
| Reconciliation (`lib/notification-reconciliation.ts`) | none of its own | find events without notice, create them | races the sweep, looks back a bounded time | a missing notice is made up for |
| Billing webhook (`lib/billing/webhook-processor.ts`, `pages/api/billing/webhook.ts`) | `webhook_events`, `billing_customers`, `subscriptions`, `transactions`, `users.plan_id` | register, handle by kind, compare-and-swap, grant, mark, give up | duplicates, reordering, overlap, partial failure | rows hold the newest event, the plan follows the row |
| Webhook retries (`lib/admin/webhooks.ts`) | the same | run a stored event again | the stored event has lost its custom_data | as above |
| Plan changes and scheduled downgrades (`lib/billing/plan-change.ts`, `lib/billing/scheduled-downgrades.ts`) | scheduled-change columns of `subscriptions` | preview, change now, schedule, execute daily | a Paddle call between read and clear | no change lost or made twice |
| Entitlements, subscription administration (`lib/admin/subscriptions.ts`) | `users.plan_id`, `entitlement_overrides` | grant for a time, expire, resync | two more writers of plan_id and of the row | never below what is paid for |
| Data retention (`lib/data-retention.ts`, `lib/r2-orphan-cleanup.ts`, `lib/account.ts`) | every aged table, the bucket of logos | chunked purges of eleven categories, account deletion | select then delete by id; a category that throws; an invocation killed | nothing restored is purged, backlogs are worked off |
| Registry releases (`lib/admin/registry.ts`, `lib/registry-data.ts`, `lib/registry-semantic-diff.ts`) | crawlers, releases and their frozen entries, the active pointer | draft, verify, deprecate, release, publish, roll back, schedule re-evaluation | an activation is five steps; audits run with the release they read | only verified crawlers are evaluated; domains with outdated results are due |
| Sign-in (`lib/auth/*.ts`, `pages/api/auth/**`, `lib/admin/users.ts`) | `users.status`, credentials, recovery codes, Google links, sessions | register, sign in, add, remove, redeem, regenerate, link, disconnect, suspend | a count or a status read before a write | a code works once, one method remains, a suspension ends sessions |
| Audit continuation (`lib/audit-continuation.ts`, `pages/api/audit/continuation/[continuationId].ts`) | `audit_continuations`, the anonymous scan | create, consume, save the domain, adopt the scan | consumed before anything is saved; two accounts at one scan | consumed once, not lost; the baseline is the domain's own |
| Worker jobs and alerts (`worker.ts`, `lib/admin/scheduler.ts`, `lib/admin/health.ts`, `lib/admin/operational-alerts.ts`) | `scheduled_job_runs`, `operational_alerts` | cron, run, record, evaluate, open, update, resolve | overlapping evaluations, killed jobs | an alert lasts as long as its cause; a killed run is reported |
| Audit engine: fetching (`packages/scanner`) | none outside an audit | fetch six resources, vet each hop, follow redirects, time out | what the site answers and how long it takes | the scan is bounded in time and in calls of fetch() |
| Audit engine: rules (`packages/robots`) | none | group lines, pick groups and rules | ties, repeated groups, empty values | agrees with RFC 9309 |
| Audit engine: policy (`packages/policy`, `lib/run-audit.ts`) | `domains.preset` | compare with a preset, propose lines | proposals are appended to what is there | advice works, for its crawlers only |
| The rest: groups, sharing, saved views, agency branding, analytics, research, pages, scripts | own rows, or none | single-statement edits, queries, rendering | none to speak of | not modelled |

How they interact: the daily cron in `worker.ts` starts the sweep, the
reconciliation, the retention, the scheduled downgrades, the evaluation of alerts
and the growth collection side by side, each leaving a row in
`scheduled_job_runs` that the evaluation reads. The sweep, the rescan and the
admin scan meet in the row of `domains`; each audits (fetch, rules, policy), leaves
a row in `scans` with a result for each crawler of the active release, the first two
compare it and leave an event in the timeline, and only the sweep turns an event
into a notice. The reconciliation reads the timeline and writes the notices the
sweep failed to write. A publication of a release makes domains due. An anonymous
audit's scan becomes the baseline of the domain its continuation saves. Webhook
requests, plan changes, entitlements and resync meet in `subscriptions` and in
`users.plan_id`, and the plan decides a domain's monitoring frequency and the limits.

`PROJECT.json` lists the hazards of all these parts at the line where they bite,
with the properties that cover them.

## Modules

| module | what it is |
| --- | --- |
| `DomainMonitoring` | sweeps, rescans, admin scans and owners around the row of `domains` |
| `SubscriptionRegister` | abstract: what the webhook processor promises of `subscriptions` |
| `BillingWebhook` | the webhook receiver, statement by statement; implements the register |
| `PolicyChangeNotice` | from a changed policy to its notice, with reconciliation and purge |
| `PlanChanges` | the other writers of the plan and of the subscription's row, and Paddle |
| `SignInMethods` | passkeys, Google links, recovery codes, sessions, suspension |
| `SavedDomains` | how domains come into an account: by hand, by import, by handoff |
| `DataRetention` | the daily purge, category by category and chunk by chunk |
| `OperationalAlerts` | job runs, their evaluation, and the alerts |
| `CrawlerRegistry` | crawlers, releases, activations, and the audits that read them |
| `AuditFetch` | one scan: resources, hops, redirects, time-outs |
| `RobotsRules` | operators: the robots.txt parser and evaluator, and RFC 9309 beside them |
| `PolicyAudit` | `RobotsRules` in use: audits, presets, proposals appended to the file |
| `MC…` | small instances of the module they extend |
| `…_proofs` | theorems about the modules they extend: `WorkerJobs_proofs` has the two jobs, `Audit_proofs` the registry, the scan and the policy |

An operator whose comment calls it a faulty variant (`ClaimWinsUnchecked`,
`AfterBeatenIgnored`, …) belongs to no behaviour: it is a faulty variant of the
definition below it, and the property paired with it in `PROJECT.json` fails when
it takes that definition's place.

### DomainMonitoring

`domain[d]` is the row of a domain as far as scheduling goes; `sweep[s]`,
`rescan[r]`, `adminScan[a]` are invocations with a program counter and what they
read. An action is one SQL statement and the code up to the next `await`:

| action | code |
| --- | --- |
| `SelectDueDomains` | the SELECT of `claimDueDomains`: ORDER BY next_scan_at with NULLs first, LIMIT, then the filter on the frequency |
| `ClaimNext` | one claim UPDATE; it re-checks next_scan_at, and nothing else |
| `AuditSucceeds`, `AuditFails`, `AuditThrows` | runAudit's outcome; a failure computes its consequences from the snapshot |
| `RecordSuccess`, `RecordTargetFailure`, `RecordPlatformFailure` | `recordScheduledScanOutcome`; the count goes up in SQL, or to zero |
| `NotifyTargetFailure` | `safeNotifyTargetFailure`: the grouped notice and the pause notice, or an error swallowed |
| `FinishDomain`, `SweepDies` | the next domain of the batch; a killed Worker |
| `AdmitRescan`, `TryClaimScanLock`, `PersistRescan`, `RecordRescan`, `RescanThrows`, `ReleaseScanLock`, `RescanDies` | the POST handler of a rescan |
| `ReadForAdminScan`, `RecordAdminScan` | `triggerAdminScan`, which writes the next_scan_at it read back |
| `ScheduleReEvaluation`, `SetMonitoringState`, `SoftDeleteDomain`, `NewMonth` | a registry publication, the owner or an admin, the calendar |
| `Tick` | the clock, the daily cron, and the budgets |

Timestamps are kept relative to now, so that the model has no unbounded clock; a
date more than `MaxLate` ticks overdue is not told apart from an older one.
`DurationAssumption` says that a rescan ends within its lock of 5 minutes and a
sweep within its claim of 15, and exclusion rests on it. The code does not
guarantee it: a site that redirects and stalls can stretch an audit of the default
30 s to (5 + 1) · (5 + 30) = 210 s and the time of a body (`ScanTimeBounded` of
`AuditFetch`), which is under the lock, but to 750 s at the largest time-out an
admin may set, 120 s, which is not; 20 audits of such sites exceed the claim; and the
body has no limit at all. The assumption leaves those sites out.

Properties: `ManualRescansExclusive`, `ScheduledScansExclusive`,
`QuotaOverrunBounded`, `NoticeWithinEpisode`, `PausesExactlyAtThreshold`,
`EpisodeIdentifiesStreak`, `MonitoredDomainsKeepBeingScanned`; and
`NeverScannedTwiceAtOnce`, which a comment claims and the code does not keep.

### SubscriptionRegister and BillingWebhook

`row[e]` is the row of `webhook_events`, `subscription[b]` that of
`subscriptions`, with `at` for last_applied_occurred_at and 0 for no row;
`account` is `users.plan_id`. `worker[w]` is a request with a program counter and
what it read: `Deliver`, `DeliverAgain` and `RetryWebhookEvent` start one with
the look-up of `processPaddleWebhookEvent`; `Register` inserts the row as pending
or marks it retrying; `FindOrCreateBillingCustomer`, `ReadSubscription`,
`ApplySubscription` (the compare-and-swap UPDATE, or the INSERT that may lose
to another) and `ApplyPlanFromStatus` are `handleSubscriptionEvent` cut along its
statements; `IgnoreDraft`, `ReadTransaction`, `ApplyTransaction` and
`ApplyAdjustment` are the payment handlers; `MarkOutcome` writes the outcome, and
the answer is 200 even of a failure: only a killed request, or one that lost the
INSERT of its row to another delivery, is not answered and delivered again. `HandlerThrows` is the catch block, `RequestDies` a
killed request, `DeleteAccount` the purge of an account, which orphans the
customer. `MaxRepeats` bounds the needless deliveries and the admin's retries
together; deliveries Paddle owes are not bounded.

An event carries what the handlers look at (kind, occurred_at, status, plan of
its price, whether custom_data names the user). `applied` and `runs` are history
variables: no action reads them.

`SubscriptionRegister` says that a row only ever moves to a strictly newer event
of its subscription, in one step, and takes that event's content.
`RowsAreRegisters` is the refinement, with the mapping of `Rows`.

### PolicyChangeNotice

One domain. `scans[i]` is the row of a scan, `lastScan` is last_scan_id,
`timeline` the events, `notices` those that have a notice. The sweep, the rescan
and the admin scan each read `lastScan` before their audit and compare with it
after. The catch block of the sweep is modelled to the end: a throw writes a
failed scan record over nothing, compares again (`SweepComparesAgain`) and
records a platform failure. Reconciliation jobs take the candidates of one SELECT
and go through them one statement at a time. An event's attention score is
reduced to the relation `HighAttention` between contents. `sent` and `resent` are
history variables.

The lookback is shorter than the retention of read notices
(`DurationsAssumption`, 3 hours and 90 days in the code): `NeverNoticedTwice`
rests on it.

### PlanChanges

One customer with one subscription. `paddle` is the subscription at Paddle and
`mail` the events not delivered yet; both are external, modelled by what the code
asks of Paddle and hears from it (`PaddleChanges`, `TakesPrice`). `row` is the row
of `subscriptions` with the columns of a scheduled change, `planId` is
`users.plan_id`, `grant[g]` a row of `temporary_entitlements`, `request[r]` any
request or job.

| action | code |
| --- | --- |
| `ConfirmPlanChange` | `confirmPlanChange` up to the direction of the change, taken from the row |
| `ScheduleChange` | a downgrade: the markers are written |
| `SubmitUpgrade`, `ClearMarkers` | an upgrade: Paddle is asked, then the markers are cleared |
| `CancelScheduledPlanChange` | the function of that name |
| `SelectDue`, `SubmitDue`, `SubmitDueFails`, `ClearMarkers` | `applyDueScheduledDowngrades` for one row |
| `ApplyEvent`, `GrantPlan` | `handleSubscriptionEvent`; its inner steps are `BillingWebhook`'s business |
| `FetchSubscription`, `ResyncSubscription` | an admin's `resyncSubscription` |
| `InsertEntitlement`, `OverridePlan` | `grantTemporaryEntitlement` |
| `RevokeTemporaryEntitlement`, `RevertExpiredEntitlement`, `ResolvePlan`, `RevertPlan` | the end of a grant: revoked_at, the real plan read, users.plan_id |
| `EntitlementExpires`, `RequestDies` | the clock; a killed invocation |

`wish` is what the customer last asked for, `excused` what overlapping or killed
requests have broken, both history. `PlanSettles` and `WishIsKept` are claims about
quiet states: as soon as nothing runs, the plan is the one paid for and the wish is
at Paddle or scheduled, unless a request wrote on the strength of something that
had changed since it read it. A marker is set on exactly those requests
(`Overtaking`), so that the properties still fail for every other mistake.
`PaidPeriodIsKept` says the same of every step that lowers the price.

Two of the overlaps only came to light with the inductive invariant, because they
need more changes at Paddle than the first runs had: the daily sweep that selects
markers another request is just about to clear, asks for the old price once more
and so undoes the new one (three changes after the purchase), and the sweep that changes the price
under a change at once whose direction was taken from the old price, so that the
"upgrade" is a downgrade in a paid period (four changes). In the code, nothing
between the SELECT of `applyDueScheduledDowngrades` and the clearing of the markers
looks at the row again; `SelectDue` and `SubmitDue` mark these requests as
overtaken. The run now has three changes where nothing is granted; the second overlap
needs four prices too, and is left to the theorem.

### SignInMethods

`user`, `admins`, `passkey`, `link`, `code` and `sessions` are the rows of `users`,
`admin_role_assignments`, `passkey_credentials`, `oauth_accounts`,
`recovery_codes` and `sessions`. Ids are used again once nothing refers to them,
which keeps the instance finite without bounding a history.

| action | code |
| --- | --- |
| `InsertUser`, `InsertFirstCredential`, `InsertCodes`, `CreateSession` | `pages/api/auth/register/finish.ts` |
| `FindCredential`, `ReadUser` | `login/finish.ts` |
| `InsertCredential` | `passkeys/finish.ts` |
| `ListActiveCredentials`, `RemoveCredential` | `removeCredential`: the count, and the UPDATE that trusts it |
| `LookUpCode`, `MarkCodeUsed` | `redeemRecoveryCode`: the SELECT, and the UPDATE by id |
| `StartRegeneration`, `InsertCodes` | `generateRecoveryCodes`: the DELETE and the INSERT |
| `ConsumeOAuthIntent`, `FindGoogleAccount`, `CheckGoogleUser` | the callback and `resolveGoogleSignIn` |
| `LookForAccount`, `CreateAccount` | `resolveOrCreateGoogleSignUp`, one batch |
| `CheckLink`, `InsertLink` | `linkGoogleAccount` |
| `StartDisconnect`, `DeleteLink` | `disconnectGoogleAccount` |
| `SuspendUser`, `RevokeSessionsOfSuspended`, `RestoreUser`, `AssignRole` | `lib/admin/users.ts` |
| `RequestOrCancelDeletion` | `lib/account.ts`, which writes the status whatever it is |
| `RevokeSession`, `RevokeAllSessions`, `RequestDies` | logout, sign out everywhere, a killed request |

`redeemed` counts the sessions a code made, `excused` names the accounts that an
overlap or a kill has harmed. A passkey ceremony and Google's answer either succeed
or end the request; what they verify is not modelled.

### SavedDomains

`domain[d]` is a row, `jobs` the stored import jobs, `continuation[c]` a row of
`audit_continuations`, `scan` the anonymous scan that continuations hand over.

| action | code |
| --- | --- |
| `SaveDomain`, `ConfirmImport`, `ConsumeContinuation` | the three callers of `createDomain`, up to it |
| `FindExisting`, `CountActive`, `InsertDomain` | `createDomain`; the unique index refuses a second live row |
| `PauseCreated`, `StoreJob` | what an import and a handoff do afterwards |
| `CreateContinuation`, `ContinuationLapses`, `PurgeScan` | `lib/audit-continuation.ts` and the retention |
| `FindOwned`, `ReadScan`, `ClaimScan`, `Rerun`, `RecordScan` | the handoff: the domain, and `establishBaseline` |
| `SoftDeleteDomain`, `RequestDies` | the owner; a killed request |

The SELECTs an import begins with (the groups and rows of `buildImportContext`, the job
of its key) are one action, `ConfirmImport`: what it plans from them is written row by
row afterwards, each behind its own look-up and count.

`LimitOverrunBounded` is about what is saved and what requests may still save
together: without the second part it would not survive a step.

### DataRetention

A run walks `Categories` in order. Each has one of four kinds, by the way the code
purges it: `chunks` (DELETE … LIMIT until a chunk is not full), `accounts` (SELECT
ids, DELETE by id), `rows` (a bounded SELECT, statements for each row) and `logos`
(a page of the bucket).

| action | code |
| --- | --- |
| `StartPurge`, `FinishPurge` | `runDataRetentionPurge` |
| `DeleteChunk`, `CountRemaining` | `purgeAnonymousScans` and its like, `hasRowsMatching` |
| `SelectAccounts`, `RemoveAccounts` | `purgeDeletedAccounts`, and the rows that go with an account (`Owned`) |
| `SelectRows`, `UpdateRow` | `purgeExpiredPilotFeedbackComments`, `revertExpiredEntitlements` |
| `RevertPlan` | the plan an expired entitlement's user goes back to |
| `ListLogos`, `DeleteLogos` | `findAndCleanupOrphanedLogos` |
| `StatementFails`, `PurgeDies` | a category that throws; a killed run |
| `RowJoins`, `RowLeaves` | the clock, and requests that change plans, last scans and rows |
| `RequestAccountDeletion`, `CancelAccountDeletion`, `GraceEnds` | the users and the clock |
| `UploadLogo`, `UnlinkLogo`, `RelinkLogo` | the requests of `pages/api/agency-branding` |

`eligible` counts the rows of each pass: a category is one pass, except `domain_scans`,
which goes through the plans one after the other. Categories are not independent of one
another, nor of what happens beside the run. The WHERE of `domain_scans` reads the plan of
the owner and the last scan of the domain (`lib/data-retention.ts:167-187`), so that its rows
come and go at any time (`PlanBound`): by requests, and by a later category of the same
run, the expired entitlements, whose users get another plan (`RevertPlan`, lines 357-361). Deleted
accounts take their domains, scans and entitlements along (line 302, ON DELETE CASCADE).
So a report can only be about the moment its pass ended, and `ResultsAreTruthful` is an
action property of that step.

`raced` is history: the accounts whose user asked for something else after the run
had selected them.

### OperationalAlerts

`runs` are the rows of `scheduled_job_runs` the evaluation reads, newest first,
`open` the keys with an open row in `operational_alerts`.

| action | code |
| --- | --- |
| `CronFires`, `StartJobRun`, `FinishJobRun`, `JobDies` | `worker.ts` and `lib/admin/scheduler.ts` |
| `AdminEvaluates` | `POST /api/admin/operations/evaluate` |
| `ReadRuns`, `ReadSignals` | `computeAlertCandidates`: `detectSchedulerAnomalies`, `getComponentHealth` |
| `ReadOpen`, `WriteCandidates`, `ResolveGone` | `evaluateOperationalAlerts` |
| `EvaluationFails`, `Tick` | a killed evaluation; time |

`held` is history: open keys whose condition never lapsed since they were opened.

### CrawlerRegistry

`crawler[c]` is the live row, `release[v]` a release with its frozen entries,
`active` the release with `is_active`.

| action | code |
| --- | --- |
| `CreateCrawlerDraft`, `VerifyCrawler`, `DeprecateCrawler`, `CreateRegistryRelease` | `lib/admin/registry.ts` |
| `StartActivation` | the route, which reads the active release first |
| `CheckActivation`, `Activate` | `publishRegistryVersion`, `rollbackRegistryVersion`: validation, then the batch |
| `GetAffectedDomains`, `ScheduleReEvaluation` | the difference of the two releases, and the domains it touches |
| `RequestDies` | a killed activation |
| `StartSweep`, `ClaimDueDomains`, `StartRescan`, `RecordScan`, `ScanDies`, `BecomesDue` | the audits, which evaluate the release they read when they started |

`missed` is history: the domains that an overlap, a kill or an error has kept from being
rescheduled. The error is that of a statement with more bound parameters than D1 takes
(`MaxParameters`, 100): `getAffectedDomains` has one for each changed crawler, the UPDATE
of `scheduleReEvaluation` one for each affected domain and two it sets (`FitsStatement`).
It comes after the release has become active, and the request ends.

### AuditFetch

One scan. `runScan` is `Attempt` and `GiveUpOn`; `safeFetch` is `Refuse`,
`DetectLoop`, `SendRequest`, `TimesOut`, `ConnectionFails`, `FollowRedirect`,
`RefuseRedirect`, `ReceiveHeaders`, `ReadBody` and `Throw`; `AuditStatus` is what
`runAudit` makes of it. `now` is the time since the scan began, and every step that
waits chooses how long within its limit: the resolver's time-out, the fetch's, or
for a body, which has none, `MaxBodyTime`, an assumption about sites. What the site
answers is its choice. `subrequests` is history: the calls of fetch() so far, of which a
hop makes three, two by the resolver (`Lookups`) and one to the site.

### RobotsRules and PolicyAudit

`RobotsRules` has no state: `ParseRobotsTxt`, `FindApplicableGroups` and
`EvaluateRobots` are the code's fold over lines, its choice of groups and of the
best rule. Beside them, `RFCResult` says of the file as a whole what RFC 9309 says,
without groups or folds. A group is known by its index among the groups, as the code
knows it by the object, and each fold is a function defined by recursion on how far it
has come (`Readings`, `RulesUpTo`, `BestUpTo`, `GroupsUpTo`), which is what the proofs
reason about. `PolicyAudit` is the life of a site's file: its owner
writes lines (`SiteChanges`), it is audited (`RunAudit`: evaluation, alignment with
the preset, conflicts, proposed lines), and the owner appends the proposal
(`ApplyProposal`). `former` is history: the report whose proposal was appended.

## What the runs show

| run | instance | distinct states |
| --- | --- | --- |
| `monitoring_scans` | a domain, two sweeps, two rescans, cron delivered twice, one crash, two streaks of failures, a threshold of 3 | 2.0 million |
| `monitoring_liveness` | two weekly domains, a batch of one, a sweep, an admin scan, publications, one crash | 0.5 million |
| `webhook_ordering` | a purchase, an update of unknown price, a payment, its refund and a draft; two requests, a repeat, a fault | 2.1 million |
| `notice_delivery` | a sweep, a rescan, an admin scan, two reconciliations, the purge, one fault | 3.0 million |
| `sign_in` | one account, two passkeys, one identity, two codes, two requests | 0.7 million |
| `plan_changes` | three prices, one grant, two requests, three further changes at Paddle | 3.6 million |
| `saved_domains` | two accounts with limits 2 and 1, two origins, one import key, two continuations, two requests | 2.7 million |
| `data_retention` | a category of each kind, two plans, two accounts of which one cannot be deleted, a logo, one fault | 0.2 million |
| `operational_alerts` | the cron's evaluation and an admin's, three rows, one failed evaluation | 0.2 million |
| `policy_audit` | all files of at most four lines, four presets, two crawlers, two proposals | 0.3 million |
| `audit_fetch` | three resources, four URLs of which one is blocked, two redirects | 0.2 million |
| `crawler_registry` | two crawlers of one token, two releases, two requests, two domains of which a statement takes one, a scan | 2.0 million |

All of them pass. What they show:

- **monitoring_scans**: the claim and the lock exclude what they are meant to
  exclude, also after pauses, deletions and kills. The rescan quota can be overrun,
  by at most the requests already past the check. Although the pause, the backoff
  and the episode are decided on snapshots and the count is incremented in SQL, they
  agree with the row; the claim is what makes the snapshots good enough. That includes a
  resume at the threshold, a second streak, and a sweep whose snapshot is older than the
  first failure of a streak and would draw a second id for it, had it not to claim the
  row first.
- **monitoring_liveness**: each monitored domain keeps being scanned.
- **webhook_ordering**: the row implements the register, no event is settled
  without being in it, nobody gets a plan nobody granted, a processed refund stays,
  and nothing is given up on early.
- **notice_delivery**: one event per scan, one notice per change, none of a failed
  scan, and none missing without a fault.
- **plan_changes**: the writers of the plan (webhook, grant, expiry), of the row
  (customer, sweep, webhook, resync) and of the price at Paddle (customer, sweep) undo
  each other's writes only where one of them was overtaken or killed.
- **sign_in**: who is locked out, which code is spent twice and which session
  outlives a suspension can all be told from an overlap or a kill; a recovery code
  signs a suspended user in, because nothing reads the status there.
- **saved_domains**: the limit is overrun by at most what each request was allowed
  on its own; of two accounts that continue one audit, one adopts its scan.
- **data_retention**: each pass reports what is so when it ends, also when the rows divide
  evenly into chunks or come and go meanwhile; backlogs are worked off whatever other categories throw; an account goes
  only when overdue, or by a race with its user's change of mind.
- **operational_alerts**: an alert is resolved only if its condition lapsed or two
  evaluations overlapped; a killed run is reported before its row is out of sight.
- **policy_audit**: results agree with RFC 9309 but for an empty Disallow, and
  proposals take effect, for their crawlers only, but for the files named below.
- **audit_fetch**: a scan's time is bounded, although not by its budget, and so are the
  calls of fetch() it makes, although not by the requests it counts.
- **crawler_registry**: only crawlers that had been verified are evaluated, once per
  token, and domains with outdated results are due unless `missed` says why not.

Where a property has exceptions, each names the overlap, the kill or the error it is
about: they are what the code's missing transactions cost. What is excused does happen,
and the run does not show that it is harmless; anything else that breaks the property is
still found. The notes of the hazards in `PROJECT.json` say which of them are excused.

### Further configurations

They belong to no run; `tlc -config X.cfg M` checks them by hand. These pass:

| configuration | module | what it adds |
| --- | --- | --- |
| `WebhookPayments` | `MCBillingWebhook` | a customer's own event beside payments; a pending event is taken up again |
| `WebhookSerial` | `MCBillingWebhook` | seven events, one request at a time: the plan follows the row |

In these TLC finds a violation, and the program differs from its text:

| configuration | property | what happens |
| --- | --- | --- |
| `MonitoringStarvation` | `MonitoredDomainsKeepBeingScanned` | the LIMIT of `lib/monitoring.ts:66` comes before the filter on the frequency, so domains of frequency none stay at the head of every batch, which its comment calls fair (45–46) |
| `MonitoringScanOverlap` | `NeverScannedTwiceAtOnce` | a rescan and the sweep scan one domain at once (`lib/scan-lock.ts:27`, and the comment in `scan.ts:68-69`) |
| `MonitoringClaimUndone` | `ScheduledScansExclusive` | an admin scan writes a stale next_scan_at over a claim (`lib/admin/domains.ts:129`), and a second sweep claims the domain again (`lib/monitoring.ts:31-34` says it cannot) |
| `WebhookPlanOvertaken` | `PlanFollowsSubscription` | users.plan_id is written after the compare-and-swap, and two requests write it in the wrong order (`lib/billing/webhook-processor.ts:298`; `docs/billing/PADDLE_WEBHOOK_EVENT_MATRIX.md:34-35`); one request killed between the two statements has the same effect, since its retry is refused as out of order |
| `NoticeMissed` | `MissedNoticesHealWithinADay` | a notice that failed to be written is 24 hours old at the next reconciliation, which looks back 3 (`lib/notification-reconciliation.ts:44`) |
| `AlertsDegradedUnseen` | `DegradedStaysOpen` | the daily evaluation runs beside the purge and sees its new row, "running", instead of the last failure: the alert is resolved |
| `AccountsNeverPurged` | `OverdueAccountsAreDeleted` | an account that `registry_version_activations.performed_by_user_id` refers to (no ON DELETE, migrations 0034 and 0035) makes the DELETE of its whole chunk fail every day (`lib/data-retention.ts:302`; `docs/data/DATA_RETENTION.md:19`) |
| `PolicyEmptyDisallow` | `EmptyDisallowAllowsAll` | `Disallow:` without a value blocks everything (`packages/robots/src/evaluator.ts:53`), while `parser.test.ts:138` calls it allow-all |
| `AuditOverrunsBudget` | `ScanEndsInTime` | each hop has the remaining time again, and neither the resolver nor the body is under it, while `packages/scanner/src/orchestrator.ts:37-43` speaks of a budget for the whole sequence |
| `AuditSubrequests` | `SubrequestsAsDocumented` | each hop is also two calls of the resolver (`packages/scanner/src/dns-resolve.ts:45-50`): 6 × (1 + 5) × 3 = 108 calls of fetch() in the worst case, while `docs/operations/SCAN_CAPACITY_BUDGET.md:50-58` counts 36, "comfortably under" the limit of 50 (`docs/deployment/CLOUDFLARE_RESOURCE_LIMITS.md:32`) |
| `AuditThrows` | `TargetsEndNoScan` | a Location that is no URL, or a body that breaks off, is caught nowhere in the scanner; `lib/monitoring.ts:464-473` takes what throws for "unambiguously platform-side" |
| `AuditRefused` | `RefusedTargetsAreUnavailable` | `lib/run-audit.ts:133-137` can never answer target_unavailable: a refused target is a failed fetch, hence "incomplete" |

### What else differs

Seen while modelling, with no configuration of its own:

- `detectSchedulerAnomalies` expects a run every hour of each job
  (`lib/admin/scheduler.ts:8-11`), but the cron is daily (`wrangler.jsonc:59`): the
  evaluation of an admin more than two hours later takes a healthy job for missed.
- Two stuck or two long runs of one job are two candidates of one key; the unique
  index refuses the second and ends the evaluation before it resolves anything.
- A handoff killed between its INSERT and its UPDATE to paused leaves the domain
  monitored (`pages/api/audit/continuation/[continuationId].ts:72`).
- `redeemRecoveryCode` does not read the user's status, and a suspension or a
  cancelled deletion writes the status over whatever it is.
- `packages/policy/src/recommendations.ts:15-21` calls appended lines reliable; they
  lose to longer rules of the crawler's own group, and after a file that ends in
  agents without rules they bind these too (`OutweighsAdvice`, `TrailingAgents`).
- `docs/registry/REGISTRY_RELEASE_PUBLICATION_RUNBOOK.md:53-58` calls a repeated
  publication safe, but one killed after the batch finds its release active when
  repeated and schedules nothing. A crawler that becomes eligible schedules no domain
  either, having no results yet.
- `scheduleReEvaluation` (`lib/admin/registry.ts:448-456`) puts all affected domains into
  one UPDATE. From 99 of them on, it has more bound parameters than the 100 D1 takes and
  throws; the routes (`publish.ts:56-83`, `rollback.ts`) then answer with an error although
  the release is active, and when repeated find it active and schedule nothing. A changed
  crawler affects nearly every domain that was scanned.
- `releaseScanLock` (`lib/scan-lock.ts:35-40`) clears the lock whoever holds it. A rescan
  that outlasts its lock, as `DurationAssumption` excludes and the code does not, frees
  the lock of the next one.
- `publishRulesetVersion` and `rollbackRulesetVersion` with an id that does not exist
  leave no ruleset active (`lib/admin/registry.ts:479-482`).
- `docs/operations/PHASE_10_NOTIFICATION_RECONCILIATION_RUNBOOK.md:36` says of the
  reconciliation "Not exposed as an admin action", while
  `pages/api/admin/operations/reconcile-notifications.ts` starts it.

### Bounds

| bound | value | why it is enough |
| --- | --- | --- |
| `Domains` | 1 in `monitoring_scans`, 2 for liveness | the safety of a row involves one row; competition for a batch of 1 needs two |
| `Sweeps`, `Rescans`, `AdminScans`, `Reconciliations`, `Workers`, `Requests`, `Evaluations` | at most 2 | each property relates two actors that overlap, and the theorems say the same of any number |
| `Day` 1–2, `Weekly` +1, `ClaimLock`, `ScanLock` 1–2 | ticks | only the order of the durations matters: a claim and a lock end before the next cron, and a run may last as long as it may |
| `MaxLate` | 1 where only "due" matters, 3 where the order of overdue rows does | older dates compare alike |
| `MaxDeliveries`, `MaxCrashes` | 2, 1 (1 delivery for liveness) | one duplicate and one kill; a second kill only repeats the first |
| `MaxEpisodes`, `MaxFailures`, threshold | 2, 4, 3 | a streak passes the threshold, is resumed and goes beyond it, ends, and another starts; a second id is at hand wherever a sweep would draw one |
| `MaxAttempts` | 2 | an attempt that is not the last, and one that is |
| `MaxRepeats` | 1 (2 in two configurations) | a needless delivery or a retry at every place |
| events | 5 (2 to 7 in the configurations) | older, newer, equal and unresolved; all statuses in `WebhookSerial` |
| `MaxFaults`, `MaxKills` | 1 | one at every place; kills of `CrawlerRegistry` are not bounded |
| `Lookback` 1, `Retention` 2, `MaxAge` 2, `Day` 2 | ticks | lookback < period, lookback < retention; `NoticeMissed` has the code's proportions (8 ticks of 3 h) |
| `MaxScans` | 3 (2 in `NoticeMissed`) | a baseline, a change, and one more by any actor |
| `MaxVersion` 4, `MaxPeriod` 2, `Prices` 3 | | three changes at Paddle after the purchase, the third for a sweep beside a change that is about to clear the markers; a period paid for and the next; a price that is lower in rank by plan and one by interval |
| `MaxDomains` | 2 rows ever inserted | the limits are 2 and 1: a row in each of two accounts, or an overrun of the smaller limit |
| `CodeCount` 1, `Passkeys` 2, `Subjects` 1, `Links` 1 | | two methods that are removed at once; a code and the one that replaces it |
| `ChunkSize` 1, `MaxChunks` 2, `MaxRows` 2 of each pass | | less than a chunk, full chunks with and without a rest; a backlog where a row joins while a run is on. An entitlement's backlog and a listing that is cut do not occur in the run; the theorem has any sizes |
| `MaxParameters` of `DataRetention` 1 | | a chunk fits: more ids than a statement takes do not occur in the run, though they do in the code (chunks of 500 accounts, 100 parameters); the theorems have any limit |
| `Window` 3 | rows | a stuck row is two runs from being out of sight |
| `MaxLines` 4, `MaxApplied` 2 | | two groups, or one of two agents and two rules; the proposal made again after it was taken over |
| `TotalTimeout` 3, `ResolveTimeout` 1, `MaxRedirects` 2, `MaxBodyTime` 1 | ticks | redirects between the first and the last; `MaxExternalRequests` 12 as in the code |
| `Resources` 3 of the 6 | | the first, the one that robots.txt places, and one more |
| `MaxEdits` 2, `MaxActivations` 2 | | a crawler that comes and one that goes; two publications that overlap |
| `MaxParameters` 3, `Domains` 2, `Statuses` active and retired | | the statement that schedules takes one domain, and fails of two; a status that is evaluated and one that is not |

Every bound stands in a guard and is declared under "bounds of the model". The one
constraint is `GrantsOrMarkers` in `MCPlanChanges`: scheduled changes and the third
change at Paddle are only explored while nothing was granted, because no step that
writes or reads the markers looks at a grant, or the other way round; the theorems
know no such limit.
Interchangeable actors are declared symmetric where a run checks safety only.
`CHECK_DEADLOCK FALSE` stands in the configurations where histories really end: the
scans, faults and retries are used up, or the scan is over.

### Fairness

`DomainMonitoring`: time passes (`WF(Tick)`; the cron is delivered at least once
per tick it falls in, which is a guard of `Tick`), and a running sweep goes on
unless it is killed (`WF(SweepStep)`). Nothing is assumed of users, admins or the
outcome of an audit. `MonitoredDomainsKeepBeingScanned` excepts domains that
publications reschedule for ever, since each one moves an overdue domain to the
end; and its run has no manual rescans, because a user who rescans without end
postpones the scheduled scan without end, which is intended.

`DataRetention`: the cron starts a run once the last is over (`WF(StartPurge)`), and
a run goes on (`WF(PurgeStep)`); errors and kills are not fair, and bounded.

`OperationalAlerts`: time passes (`SF(Tick)`: an admin's evaluations, which take no
time worth the name, interrupt it but do not stop it), the cron comes
(`WF(CronFires)`), a job starts and ends or is killed, and an evaluation goes on.

`BillingWebhook` (`WebhookPayments` only): a request that is not killed comes to its
end, and Paddle goes on sending an event until it is answered 200, which is its
documented retry policy. Admin retries, repeats and faults are not fair.

The other modules have no liveness property: what their texts promise are time
limits, which are invariants over ages, or states after everything has come to rest.

## What is proved

TLAPS checks the theorems below with no bound on the sets or the counters, from the
assumptions named in the modules and nothing else. Every safety invariant and every
action property that a run checks is among them; what the runs alone show is liveness.

**`DomainMonitoring_proofs`**

- `TypeCorrect`: the type invariant is not inductive by itself: a sweep that is
  auditing has a non-empty batch (`SweepShape`), or `Head` of its batch would mean
  nothing. `TInv` is the two.
- `RescansExclusive`: `LockInv` relates two clocks: while a rescan is in its lock, the
  row's scan_lock_until has lost exactly the rescan's age, and so is still ahead. A
  second one therefore finds the lock taken, and the holder's release cannot free
  another's lock, because there is none. It rests on `MaxRescanAge < ScanLock`.
- `SweepsExclusive`: a domain that a sweep holds has its next_scan_at further ahead
  than what is left of the sweep's budget, since all sweeps that run were started by
  the last cron and have one age. It rests on `MaxSweepAge < ClaimLock`, and has a
  hypothesis, `NoOverrides`: no admin scan and no publication, both of which write
  next_scan_at over a claim and do undo it (`MonitoringClaimUndone`).
- `NoticesTruthful`, `PauseAtThreshold`, `OneEpisodePerStreak`: while a domain is held,
  the count and the episode in the sweep's snapshot are those of the row, unless an
  owner resumed it meanwhile, which is why the exclusion of sweeps comes first. They
  have its hypothesis, and `FailurePauseThreshold > 1` (the code's is 5): at 1, the
  first failure of a snapshot taken before a resume would draw a second episode.
- `QuotaOverrun`: the rescans counted and the requests past the check that are not
  counted yet (`Unwritten`) stay together below the quota and the number of requests.

**`BillingWebhook_proofs`**

- `WebhookTypeCorrect`, `SettledEventsKept`, `PlansAreEarned`, `PatientRetries`,
  `AdjustmentsStayRecorded`: the inductive invariant `IInv` is `TypeOK` with
  `RequestsInv`, which says of each program counter what the request's local values
  still mean (an outcome "processed" is only carried when the row is not older; a
  request that is granting has an applied event of the plan it grants; the attempts
  seen never exceed the runs started), and `TablesInv`, which says it of the tables.
  Since rows only grow newer, and `applied` and `runs` only grow (`Grows`), what a
  request knows stays true while others act (`OthersKept`). Adjustments are never
  taken out of a transaction (`AdjustmentsKept`).
- `WebhookImplementsRegisters`: every step is an `Apply` of the register or leaves
  `subscription` alone.

**`PolicyChangeNotice_proofs`**: `TypeCorrect`, `NoticesTellRealChangesHolds`,
`OneEventPerScanHolds`, `NeverNoticedTwiceHolds`, `OnlyFaultsLeaveNoticesMissingHolds`.
The invariant follows an event through its life. Until a scan under way is compared
it has no event, and a second comparison finds the one that the first has left
(`EventsOfScans`); a notice that is gone was purged, and then its event is older than
the retention, thus than the lookback of every candidate a reconciliation holds
(`AgesOK`); without a fault the sweep still holds the event it has left
(`SweepHoldsEvent`).

**`SignInMethods_proofs`**: `TypeCorrect`, `OnlyOverlapsLockOutHolds`,
`CodesAreSpentOnceHolds`, `SuspensionEndsSessionsHolds`. Each of the three adds to the
invariant what the requests under way have read: a request about to remove a method
and not overtaken leaves another one (`Keeps`); a code looked up while unused has made
no session and is about to make none (`Untouched`); a request on its way to a session
has read a status that is still so, or was overtaken (`Cleared`).

**`PlanChanges_proofs`**: `PlanInvariant`, `PlanSettlesHolds`, `WishInvariant`,
`WishIsKeptHolds`, `PaidPeriodIsKeptHolds`. The properties speak of quiet states, so
the invariant has to say what the others come to. The newest event is in the row or in
the mail (`Versions`); once it is in the row, the row has what Paddle has (`RowFits`),
requests that are not overtaken write what Paddle has (`Writers`), and a plan that is
wrong is a grant's or will be written again (`PlanFollows`). The markers tell the wish
until a request is to clear them, and a request that is not overtaken acts on the wish
(`WishInv`); a scheduled change waits for the end of the period it was asked for in,
and a change at once raises the price (`PeriodInv`).

**`SavedDomains_proofs`**: `SavedDomainsInvariant`, `BaselineIsOwnHolds`,
`UsedContinuationsSaveHolds`, `LimitOverrunBoundedHolds`. `SInv` says what a request
knows at each of its steps; a scan that is claimed is claimed for one row (`ClaimOf`).
The limit is a count over sets: each request that passed its check may write at most
what the check left (`GrantsWithinLimit`), and a row that is written moves from what
its request may write to what is saved, so that the sum does not grow (`Limits`).

**`WorkerJobs_proofs`**, the purge: `RetentionInvariant`, `ResultsAreTruthfulHolds`,
`OnlyRacesDeleteKeptAccountsHolds`. `TInv` adds to the types what a run has in hand at
each kind of category (`AtCategory`), and that a bounded SELECT which was not full has
all the rows there were (`SelectionsAreWhole`, a comparison of cardinalities), less those
withdrawn since. What is due is measured from the run's start, so that rows fall due between
runs; but plans, cascades and requests move rows while a run is on, in any number, and the
theorem is about the step that ends a pass (`PassEnds`): at that moment the report is so.
It is not claimed, and is not so in the code, that it still is when the run ends.
Of the accounts a run has selected, those whose user has not
cancelled or asked again since are still overdue (`ChosenAreOverdue`).

**`WorkerJobs_proofs`**, the alerts: `AlertsInvariant`, `AlertsOutlastTheirCauseHolds`.
Evaluations that are under way together know of it (`OverlapsAreKnown`), and what one
that is alone has read is still so when it writes (`ReadsAreCurrent`), so that it never
closes an alert whose condition has held since it was opened.

**`Audit_proofs`**, the scan: `ScanInvariant`, `ScanTypeCorrect`, `ScanTimeBoundedHolds`,
`SubrequestsBoundedHolds`. A fetch begins only while the budget is not spent, and each hop
so far has cost at most one resolution and one time-out (`WithinHops`), so that the bound
of the last fetch is that of the scan. The calls are counted in the same way
(`WithinFetches`): those of the hops of this fetch on top of those of the fetches before.

**`Audit_proofs`**, the registry: `RegistryInvariant`,
`EvaluatedCrawlersAreVerifiedHolds`, `OutdatedDomainsAreDueHolds`. A release is validated
before it is activated, and frozen (`ActivationsAreValid`); validity travels with it to
the pointer, to audits under way and to results (`RInv`). A result out of date is one
that an activation under way will find, or has found and will schedule
(`OutdatedAreAwaited`), or that is in `missed`: the theorem has any number of domains and
crawlers and any limit of parameters, and so says for which activations domains are due,
not that they always are.

**`Audit_proofs`**, the policy: `EvaluationIsRFC`, `PolicyInvariant`, `PolicyTypeCorrect`,
`ResultsFollowTheFileHolds`, `AdviceTakesEffectHolds`,
`AdviceBindsOnlyItsCrawlersHolds`, for every robots.txt, registry and preset.

- The parser keeps `ReadFaithfully` from line to line: the groups read so far name the
  agents that the file names, each rule is in the groups of just the agents it governs,
  the agents of the open group are those the next rule will bind, and `hasRules` says
  whether that group has a rule already. At the last line the groups are those of the
  RFC (`ParsedFaithfully`); what the code selects from them are the rules that govern the
  agent (`RulesForFacts`), its best rule is one that none beats (`BestRuleFacts`), and so
  `EvaluateRobots` is `RFCResult` (`EvaluationIsRFC`), but where rules without a value are
  all there is (`PolicyEmptyDisallow`).
- A proposal adds to the file one group for each crawler it is about (`Extends`). A rule
  of the file governs whom it did before; a rule of the addition governs the agent of its
  own group and, when the file ended in user-agent lines, perhaps these
  (`AppendedGoverns`). So each crawler addressed is evaluated as proposed unless a longer
  rule of its own outweighs that (`AdvisedFollows`), and every other as before
  (`OthersUnchanged`).
- A report is about the file as it was audited (`ReportsAreCurrent`).

The library's induction theorems take an operator as a parameter, which no installed
prover instantiates. `Smallest` derives from the well-foundedness of < that a non-empty
set of numbers has a least one; `CountingUp` and `Recursion` restate it for sets and for
functions, and a proof by induction then names the set of counterexamples.

Two faults of the models were found by these proofs and not by TLC, which takes the first
arm of a CASE that applies where TLA+ leaves open which: arms of the alignment with the
preset, of the proposed lines and of `AuditStatus` overlapped. They are exclusive now,
in the order of the code's early returns.

The inductive invariants were first checked by TLC on the instances of the runs, and
some were not invariants at first: the two overlaps described under PlanChanges were
found that way.

### Assumptions

Besides types, the assumptions on constants are those the code justifies: durations
(`DurationAssumption`, `DurationsAssumption`, discussed above); the initial release has
one crawler per token (`RegistryAssumption`, the seed of `packages/registry`); a
scan has at least one resource, and the limit of requests is no smaller than their
number (`FetchAssumption`). That what a Worker serves at one time and a user may ask
for is finite (`RescansAssumption`, `SavedDomainsAssumption`) is needed where
cardinalities are compared. That there is a policy content at all (`Contents # {}`) is
needed for the type of a draft row. The categories of the purge are distinct
(`RetentionAssumption`; the code lists each once), those whose rows depend on plans are
purged in chunks, and those that change plans row by row. Of the patterns that match the page
asked for, only the empty one has length 0 (`RobotsAssumption`), "/" is one of them and
has length 1, and no token occurs twice in the registry an audit reads
(`AuditAssumption`; for the registry, that is what `CrawlerRegistry` shows of a release).

### What is only model-checked

- Liveness, which TLAPS does not reason about: `MonitoredDomainsKeepBeingScanned`,
  `BacklogsAreWorkedOff`, `OnlyOddAccountsBlock`, `KilledRunsAreReported`, and whatever
  else rests on fairness in the further configurations.
- What the further configurations show to fail: TLC's counterexamples are the evidence.

## Not modelled

In the modules:

- `DomainMonitoring`: what an audit finds, `scan_diffs`, presets, the
  plan's change (the frequency of a domain is constant), and the feature flags
  that skip a sweep (a skipped cron is a sweep that selects nothing).
- `BillingWebhook`: amounts, and the signature check, which comes before any state.
- `PolicyChangeNotice`: the "uncertain" comparison, the LIMIT of 200
  candidates over all domains, and the point between a reconciliation's re-read
  of the domain and its insert, which are one action.
- `PlanChanges`: the preview, which writes nothing; "trialing", which is treated as
  "active" everywhere.
- `SignInMethods`: challenges and cryptography, the step-up state of sessions, and
  what the security log records.
- `SavedDomains`: groups, presets and notes of a domain; bulk actions, which are the
  single ones in turn; the preview of an import.
- `DataRetention`: dry runs; categories beyond one of each kind.
- `OperationalAlerts`: acknowledgement and incidents (single writes by an admin); the
  conditions that are decided as one of the three modelled ones is.
- `CrawlerRegistry`: rulesets, replacement ids, checksums and editorial fields.
- `AuditFetch`: what a response says, the parsers of signals other than robots.txt.
- `PolicyAudit`: the conflicts that lead to no proposal, the wording of findings, and
  the score, which nothing reads back.

Whole components, each with its reason in `PROJECT.json`:

- Groups, sharing, saved views, agency branding: single statements of one owner on
  rows of his own. `deleteGroupIfEmpty` counts before it deletes, and the limit of
  saved views is counted before the insert, as that of saved domains is.
- Rate limiting: a count over recorded events and an insert, approximate by design.
- Research publications, pilots, analytics, growth: `lib/admin/research.ts` reads a
  status and writes the next one unguarded, so that a correction and a withdrawal
  that overlap end in either; the rest is append-only, or one admin's lost update.
- Pages and client components, nearly half of the lines of `apps/web`: they render what
  the queries return and call the endpoints, whose overlap the modules cover; no
  state of the service lives in them.
- Portfolio views, comparison, public status, observatory: queries.
- Contracts, cryptography, configuration, scripts: pure conversions, or tooling
  outside the running system.

## Plan

Built, in this order: `DomainMonitoring` (the core, on which every user depends),
`SubscriptionRegister` and `BillingWebhook` (what money depends on),
`PolicyChangeNotice` (what the product promises); then the other writers of the plan
(`PlanChanges`), access (`SignInMethods`), creation and handoff (`SavedDomains`), the
jobs (`DataRetention`, `OperationalAlerts`), the rules and the fetch of an audit
(`RobotsRules`, `PolicyAudit`, `AuditFetch`) and the registry (`CrawlerRegistry`).

Proved, in this order: exclusion of rescans and the register (the core), then the
claim of the sweeps and what rests on it, the payments, the sign-in, the notices, the
registry, the saved domains, the fetch, and the writers of the plan; last the jobs of the
worker (the purge, the alerts) and the policy audit with its parser.

No safety property of a run is left without a theorem. What else is worth having: a common
statement of the pattern all these proofs share, a request that has read a value and is
overtaken when it changes; and models of the components listed above as not modelled, of
which research publications and groups come first.
