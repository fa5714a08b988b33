# A TLA+ model of aws_explorer

aws_explorer is a Go program that reads AWS accounts concurrently and shows what it
finds in tables, JSON and some fifteen terminal screens.  This directory holds TLA+
modules that model the parts where order, concurrency and failed calls decide whether
it is right, TLC configurations that check them on small instances, and TLAPS proofs
about the scan, from the engine to the table, and about screens, for every instance.

There are three families of modules:

* the *scan*: the engine, its consumers, the resource table and the event loop of the
  Summary TUI (sections 3.1 and 3.2);
* the *screens*: the dashboards, explorers and feeds as Bubble Tea programs, a model
  and a bag of commands whose answers come when they like (3.3);
* the *reads*: everything that reads an account call by call, each of which may fail,
  and then says something about it: collectors, audits, references, reports, details
  and the VPC explorer's analyses (3.4).

## 1. The system

Paths are relative to `src/internal/`.

| Part | State it keeps | Operations | Talks to |
|---|---|---|---|
| `engine` | resolved regions, registry of collectors, `sweepCfgs` (account name → credentials, behind a mutex) | `StreamRun`, `Run`, `buildSweeps`, `PlannedTaskKeys`, `EffectiveRegions`, `AWSConfigFor`, `AccountSweeps` | collectors (calls), one consumer per scan (a channel of chunks it closes) |
| `services/*` (29 collectors) | none | `Collect`, which may call `Emit` with pages and then returns rows and an error | AWS, the engine |
| `model` | – | `Resource`, `ResultChunk`, `ExploreError`, `TaskProgress` | everyone |
| `summary` | – | `Dedupe`, `Richness`, `Render` | CLI, Summary TUI |
| `tui` | table (`sorted`, `searchText`, `byARN`, `svcSet`), scan (`scanGen`, `chunks`, `done`, meter), watch mode (`watchMode`, `watchTimerID`, `watchSeen`, `prevStates`, `changedRows`), overlays | `Update` (one message at a time), `mergeResources`, `applyChunk`, `restartScan`, `watchRefreshCmd`, `finishWatchSweep`, `applySwitcher`, finder | engine (channel, `PlannedTaskKeys`, `AWSConfigFor`), AWS (detail panes) |
| `fuzzy` | – | `Score`, `Rank` | finder |
| `gluetui`, `emrtui`, `lambdatui`, `sqstui`, `tagstui` | inventory on display, load generation, sub-views, caches by key | `Update` on keys and on answers; loads by region, details, peeks, counts | AWS |
| `cwtui` | groups, streams, events, watch mode, viewer with a timer | the same, and a tick every three seconds | AWS |
| `s3tui` | buckets with regions, listing of a folder with its cache and token, preview, archive, Parquet window | the same, deletes | AWS |
| `vpctui` | VPCs by region, resources by type, client of one region, snapshot cache, overlays | scans, browsing, path trace, diff, references, reachability analysis, export | AWS (the analysis creates and removes a path) |
| `billtui`, `trailtui`, `laketui`, `audittui` | what was fetched, timer, channel of answers | fetch, drain, sort | `billing`, `trail`, `traillake`, `audit` |
| `audit`, `findings` | one snapshot per region | a collector per service in a bounded pool, checks over snapshots | AWS |
| `xref`, `relatedtui` | edges of references, cache of a sweep | collectors by service, index, walk by depth | AWS |
| `discovery`, `expiry`, `quotas`, `ecstriage`, `billing`, `trail`, `traillake` | – | paged reads, one query that is polled | AWS |
| `acctsnap`, `awsutil` | baseline files | save, diff | scans |
| `emrconn`, `emrdoctor` | SSH clients by host, behind a mutex | dial, tunnel, check | clusters |
| `output`, `config`, `auth`, `awserr`, `authzmsg`, `costs`, `iamsim`, `loggroup`, `consolelink`, `display`, `ui`, `table`, `sparkline`, `debuglog`, `debugpane`, `clilog`, `csvexport`, `downloads`, `docsgen`, `cmd` | files, theme, ring buffer | parsing, wiring, rendering | – |

### What is hard, and what makes each part correct

*Engine.*  A launcher, a pool of workers, a bounded channel, a shared `errOnce`, two
contexts (the scan's, and one per collector with a deadline) and a consumer that may
go away.  Correct: the channel is closed exactly once after the last send; nothing a
worker sent is lost, repeated or reordered unless the scan is cancelled; every task
ends in one progress marker; a failed account is reported once; the `Partial` flag
tells the truth; no scan blocks forever.

*The plan of a scan.*  The keys of the progress meter are computed in one place
(`PlannedTaskKeys`) and used in another (the markers of `StreamRun`); credentials are
found again by the label of a row.  Correct: the same keys, the same credentials.

*Summary TUI, table.*  An incremental merge keeps four structures in step instead of
recomputing them.  Correct: it gives what a full dedupe and sort would give, whatever
the chunks are.

*Summary TUI, event loop.*  Commands run concurrently and answer by messages; a scan
is a pull loop (each chunk's handler issues the next `waitForChunk`); scans are
replaced while their messages are still under way; a timer chain drives watch mode;
overlays intercept messages.  Correct: one pull loop and one timer chain, no data of
an old scan, no lost message, and a watch sweep that drops what is gone and nothing else.

*The other screens.*  The same event loop with more questions under way: a load in two
stages from several regions, details, sub-views, previews.  Some answers carry a
generation or a key that is compared, some carry one that is not, some carry nothing;
lists that arrive move the selection; pages are flags that drawing and keys look at in
an order of their own.  Correct: what is on display is of one load and of the resource
in the title, a spinner has a command that ends it, timers run on and only once, keys
go where the user looks, and a bounded feed says when it is not all.

*Reads.*  A read is tens of calls, each paged, each of which may be denied, throttled or
cut off by a cap, and each package has a policy of its own for it: keep the pages, drop
the row, record the error, show a sentinel, stay silent.  Correct: nothing is
concluded from what was not read, and what was not read is said.

## 2. Modules

| Module | Models | State | Actions |
|---|---|---|---|
| `ScanStream` | abstract: what a consumer of `StreamRun` is promised | chunks received by task, failed accounts | `Fail`, `Deliver`, `Cancel`, `Leave`, `End` |
| `ScanEngine` | `StreamRun`, `buildSweeps`, the reading loops | launcher, workers, channel, contexts, consumer | one per step of a goroutine, see 3.1 |
| `ScanEngineProofs` | theorems about `ScanEngine` and `ScanPlan` | | |
| `ScanPlan` | regions, accounts, task keys, `sweepCfgs`, the meter, labels | plan, `sweepCfgs`, sweeps, meter, rows | `BuildSweeps`, `TaskEnds`, `ScanEnds`, `StartScan` |
| `Inventory` | abstract: the table as a map from keys to descriptions | entries, running sweep | `Merge`, `StartSweep`, `FinishSweep`, `Restart` |
| `InventoryView` | `mergeResources` and watch bookkeeping | `sorted` (with `searchText`), `byARN`, `svcSet`, `watchSeen`, `prevStates`, `changedRows` | `mergeResources`, `EnableWatch`, `WatchTick`, `finishWatchSweep`, `FlagExpires`, `restartScan` |
| `InventoryFinder` | the Ctrl+P palette over it | `finderHits`, `finderSel` | one per key, `Update` for messages |
| `InventoryDedupe` | `InventoryView` beside `summary.Dedupe` | `received` | `Receive`, `restartScan` |
| `SummaryTUI` | `Update` around a scan | generations, channel, pull commands, inbox, watch mode, overlays; AWS | handlers, commands, user keys, AWS |
| `InventoryProofs` | theorems about `InventoryView`, the finder and `InventoryDedupe` | | |
| `SummaryTUIProofs` | theorems about `SummaryTUI` | | |
| `MCScanEngine`, `MCInventory` | constants, and the uses of the table, for TLC | | |
| `Tea` | what the screens share: Bubble Tea's loop | `m` (the model struct), `cmds` (bag of commands under way) | |
| `GlueTUI`, `EMRTUI`, `LambdaTUI`, `SqsTUI`, `TagsTUI` | the dashboards | `m` | one per key and per message |
| `CwTUI` | the CloudWatch explorer with its viewer | `m` | the same |
| `S3Buckets`, `S3Objects`, `S3Preview` | the S3 explorer in three parts: bucket list, listing, previews | `m` | the same |
| `VpcTUI` | the VPC explorer: scan and browser; overlays with the snapshot cache | `m` | the same, and the steps of fetches and analyses |
| `FeedTUI` | the feeds (bill, CloudTrail, Lake query, audit), and the producers behind them (`traillake.Run`, `audit.Stream`) | `m` | the same, and the steps of the producers |
| `SummaryPanes` | what the Summary TUI shows over and beside its table: overlays, forms, detail panel with its debug panes; the table's groups, filters, order, cache of rows and cursor | `m` | the same |
| `SharedUI` | what screens share: settings panel with themes, table widget, pages of results (audit, trail, Lake), reference explorer | `m` | the same |
| `Screens` | a terminal that runs one of the screens | `app` and theirs | theirs |
| `ScreensProofs` | theorems about `Screens`; the invariants of `CwTUI`, `VpcTUI` and `FeedTUI` are at the end of these modules, the lemmas on commands in `Tea` | | |
| `Collect` | what the reads share | `acct` (what there is), `snap` (what was read), `errs` (what was recorded), `pc`, `found` (what is said) | `Step`, `Report` |
| `CostAudit`, `SecurityAudit`, `GlueAudit` (Glue and messaging), `EMRAudit` (EMR and Lambda), `IAMAudit` (IAM and CloudTrail) | a collector of `audit` with the analyzer of `findings` it feeds | Collect's | one per collector function |
| `Collectors` | the collectors of `services` | Collect's, `snap.left` | `PageFails`, pages, detail calls |
| `XrefCollect`, `Related` | the sweep behind `related`; index, walk, paths, cache | Collect's | pages, calls per row; lookup, `Walk` |
| `Clients` | lists loaded from several regions: Glue, EMR, Lambda, SQS, CloudWatch groups, discovery, expiry, quotas, ECS triage | Collect's | one per page and per region |
| `Details` | the card of one resource: S3 bucket and object, queue, function, VPC, Glue and EMR details, the figures of a cluster's daemons | Collect's, `snap.answers` | `Read` one answer, `Stage` |
| `Lists` | windows, tails and samples of long lists: objects, log streams and events, downloads, trail lookups, bills, peeks, previews | Collect's, `snap.state` | `Page`, `Merge`, `PeekMessages`, `Preview`, `DownloadObject` |
| `OnCluster` | what reaches into a cluster: doctor checks, SSH tunnel, user interface address, row counts | Collect's | one per check and per step of a caller |
| `Snapshots` | a baseline and the difference of a later scan, the difference of two saved scans | Collect's | `Save`, `Diff`, `DiffScans` |
| `VpcPaths`, `VpcFindings` | path trace, effective rules, exposure; findings, diff, references of a snapshot and the full report | Collect's | one per read, one for the computation |
| `Reads` | an account, and one of the reads over it | `app` and theirs | theirs |

How they fit: `ScanEngine` implements `ScanStream` (`ImplementsStream`), and
`SummaryTUI` is written over that stream, one chunk per collector; `Collectors` says
what a collector puts into it.  `InventoryView` implements `Inventory`
(`ImplementsInventory`), and `SummaryTUI` uses the table as such a map, by rows.
`InventoryFinder` and `InventoryDedupe` extend `InventoryView` with another actor
each.  A screen's module has the commands a call of `Clients`, `Details`, `Lists` or an
audit answers, and takes any answer, also a failed one; what these answers may say is the
business of the reads.

## 3. Correspondence and abstraction

### 3.1 The scan engine

*ScanEngine.*  A task is one iteration of the innermost loop of `StreamRun`; `Owner`
gives its sweep.  `ResolveAccount` is a goroutine of `buildSweeps`; `Launch` is
`g.Go`, which waits for `wg.Wait` before and for a free slot of the pool; `EmitPage`,
`CollectSucceeds`, `CollectFails`, `SkipFailedAccount` build a chunk and block in
`send`, whose two cases are `Send` and `Drop`; `Close` is `g.Wait` and the deferred
close.  The launcher goes on launching after a cancel, as the code does.  Of the four
error codes only "an error" is left.  Pages the filter empties are not sent (in the
code as in the model).  A consumer stops reading only a scan that it has cancelled:
`Run` and the CLI streams read to the end, the TUI drops a channel only in
`restartScan` and `watchRefreshCmd`, after `scanCancel`.

*ScanPlan.*  A plan is configuration plus resolved regions.  An account fails when its
profile cannot be loaded; an assumed role fails later, in the collectors.  Task keys
are tuples instead of joined strings.  A list that the code only walks (services,
regions, tasks) is the set of its positions, so that twins of a name stay two.

### 3.2 The Summary TUI

*InventoryView.* The loop over a batch is a recursive function of the number of entries
done (`Folding`, `Inserting`), one step operator for its body. Names and services are
numbers (the order is all that matters), the richness is a field (`Richness` is a sum of
counts), `searchTextFor` is the tuple of the fields it joins. `InsertRow` stands for the
stable sort of the new entries and their merge: both put an entry behind its equals.
`Reindex` keeps keys the slice does not hold, since the loop only writes; that no such
key exists is `IndexExact`. Flags expire one at a time, whenever; the code deletes them
by time at the next merge and stops showing them after ten seconds.

*InventoryFinder.*  Positions count from 1.  `Score` is a constant operator; `Rank`
is the code's (score, then table order, cut at `MaxHits`), stated as the one ranking of
the matches that is best first, which a stable sort gives.  With `Streaming` false,
no scan runs while the palette is open.

*MCInventory* lets TLC look at the table's uses one at a time: one scan from the first
chunk to the last ("scan"), watch mode without end ("table"), the palette over any
table these can leave ("finder"), and the plan of a scan ("plan").

*SummaryTUI.*  A collector reports one resource, standing for its rows, in one chunk.
`waits` holds the blocked `waitForChunk` commands with the generation they carry and the
engine whose channel they read; the channel of a cancelled scan is not kept: its
command gets any chunk or the end (`StaleWaitEnds`), which is more than can happen.
Generations are compared for equality, so a number that nothing refers to is used
again: two suffice, and the code's counter needs no bound.  `Tick` handles one tick of
a timer chain.  "settings", "filter" and "switcher" are the overlays that get every
message, "passive" those that only take keys.  `alive` is AWS itself.  `lost` is
history: it records that an overlay swallowed a message of the current scan, the
current timer chain or the switcher; properties mention it only where the code loses
the message for good.

### 3.3 The screens

Each module has two variables (`Tea`): `m`, a record of the fields of the Go struct
that matter, and `cmds`, the bag of commands under way.  An action is one call of
`Update`: a key (with the guards of the key's case) or the answer of a command, which
leaves the bag and may bring new ones (`tea.Cmd`, `tea.Batch`).  Answers come in any
order, may be errors, and never have to come: the modules state no fairness, and what
one would call "the spinner ends" is the invariant that a command is under way which
will end it (`SpinnerEnds`).

A command carries what the code's message carries and compares: a generation, a key,
both or neither.  Where a message carries a key that the handler does not look at, the
model's command still has it, because the properties do: `sub.shown` is what arrived,
`sub.subject` what the title says.  Fields named `overtaken`, `late`, `moved`, `deaf` and
the like are history: they record that an answer to an older question was still under way,
or that the selection moved without its load, where the code has no defence.
Properties mention them only there, so they still say that this is the *only* way to
see the wrong thing; section 6 lists these ways.

Lists are sets, or numbers of rows where the position of the selection matters.  A
search or a filter is a subset of what there is to match.  Texts, tables, the layout of
a page, exports, the clipboard and overlays that only draw are left out; an overlay
that changes who gets a key or a message is a field of `m`.  In `LambdaTUI`, `SqsTUI`
and the VPC explorer the order in which `View` looks at the page flags and the order
in which `handleKey` does are separate operators (`Drawn`, `Routed`).

`SummaryPanes` is the rest of the Summary TUI.  The scan behind the overlays is a chain
of chunks (`SummaryTUI` has it in full); what they have to do with it is that some take
its messages.  `Listener`, `Drawn` and `statusHints` are the three orders in which
`Update`, `View` and the status bar look at the overlays' flags.  Two resources may have
one ID (`IdOf`), because the panes match late answers by it.  The second half is the
table between the rows and the user: `Group` is what `rowsFor` computes from scratch,
`allRows` its cache by service, and `updateTableRows` is called where the code calls it.

`SharedUI` has four parts that do not meet.  Colors are numbers, 0 one that has a name
and `None` "auto"; a save is a command with a copy of the panel, so it may be overtaken
by a theme chosen since, and the next process is `InitFromConfig`.  The table widget
computes start, end and offset as `MoveUp`, `MoveDown` and `UpdateViewport` do, a column
is the width it takes.  Of a page of results, the module has what `rebuild` makes of
them; the explorer walks along any references there may be (`Edge`).

The producers behind a feed are in its module: the regions of the CloudTrail feed with
their bounded lookups, start, poll and pages of a Lake query, and `audit.Stream` with its pool,
buffer and closer (`FeedTUI`); the singleflight and cache behind the VPC overlays and the
analysis that must remove what it created (`VpcTUI`).

### 3.4 The reads

Each module has the variables of `Collect`.  `acct` is chosen once, from a set of small
accounts, and does not change; an action is one function of the code (or one call, where
the order of calls matters): it takes what a `Listing` or a `Call` may return
(everything, or a failure with the pages before it), applies the code's policy to the
failure (kept pages, dropped row, sentinel, recorded or silent) and goes on to the next
function; the last one computes `found` from `snap` alone.  A resource is a record of
the attributes the checks tell apart; ages, sizes and rates are old or not, above the
threshold or not.

*Audits.*  `Sound`: what is reported is true of the whole account, so it would be
reported, too, if nothing had failed.  `Accounted`: a scan that recorded no error
reports what the whole account would.

*Collectors.*  A collector is a sequence of families (a listing, and per row nothing,
further calls, or a second listing), each with what a failure costs; the 29 collectors
are instances of these shapes and share the steps.

*XrefCollect, Related.*  An edge is named by the call it was read in.  The walk is the
code's breadth-first walk with its visited set; the reference definition beside it is
by distance.

*VpcPaths, VpcFindings.*  A CIDR is the set of addresses in it, a port range the set of
its ports, a route knows how long its prefix is.  The code's verdicts (longest prefix,
first matching rule, stateful groups, probed return ports) are compared with what the
tables do to a packet.

*Clients, Details, Lists.*  Loads, cards and queries are data (which calls in which
order, what a failed one costs, who is told), run by the same few actions; a loader of
the code is the operator of its name that gives this data.

*OnCluster, Snapshots.*  The checks are the lines of a report, layer by layer, with the
early ends of `Run`; the callers of a tunnel take its mutex, dial and store or close.  A
snapshot keeps of the entries of one key one, the richest if the scan was deduped, and a
diff compares the facts the code compares (state, tags, summary), under its keys.

## 4. Runs

All runs exhaust their state space.

| Run | Shows |
|---|---|
| `scan_engine` | `TypeOK`, `CloseIsLast`, `NothingLost`, `EveryTaskEnds`, `AccountErrorOnce`, `PartialIsHonest`, `ImplementsStream`, and under fairness `ScanCloses`, `ConsumerSeesEnd` |
| `inventory` | the table: `TypeOK`, `IndexExact`, `SortedWithText`, `TransitionsFlagged`, `ImplementsInventory`, `RichestThenNewest`; one scan: `SameAsDedupe`; the palette: `FinderHitsInRange`, `FinderHitsMatch`, `SelectionStays`, `JumpLandsOnRow`; the plan: `MeterExact`, `CredsMatchAccount` |
| `summary_tui` | `TypeOK`, `OnePull`, `OneTimer`, `OnlyCurrentEngine`, `DeletedDropOut`, `OnlyDeletedDropOut`, and under fairness `ScanCompletes` |
| `screens` | of every screen: `TypeOK`; `OneLoad` (what is on display is of one load, and counters of a load count its answers); `SpinnerEnds`; `ShowsSubject` (a view shows the resource in its title); `TableCurrent` (the table is the list under the filter); `KeysReachDrawn`; `KeepsTicking`; `FeedComplete` (a feed is whole or says that it is not) |
| `reads` | of every read: `Sound`, `Accounted` |
| `finder_range` | violates `FinderHitsInRange`: the palette with a scan running |
| `tui_freeze` | violates `KeepsPulling`: the settings panel |
| `tui_sweep_starves` | violates `DeletedRowsGo`: watch mode alone |
| `tui_failed_dropped` | violates `OnlyDeletedDropOut`: collectors that may fail |
| `vpc_region` | violates `ReadInItsRegion`: VPCs of two regions |
| `audit_guesses` | violates `UnderWarns`: EMR and CloudTrail checks of what was not read |
| `related_merges` | violates `FullArnIsOne`: two resources of one name |

### Bounds, and why they are enough

*scan_engine*: 3 tasks of 2 accounts, 2 slots, 1 buffered chunk, 1 page (`N`, `Owner`,
`Limit`, `Cap`, `MaxPages`).  A worker's steps depend on its own state, the number of
active workers and the length of the channel, so two workers that compete and a third
that waits show every contention: the pool blocks on the channel, the launcher on the
pool, two tasks share a failed account.

*inventory*: 3 keys, 6 descriptions (poor, typed, other state, renamed past another row, a
row without ARN), chunks of up to 2 (`MaxBatch`): the merge handles an entry by its key,
its neighbours in order and the earlier entries of its chunk, so twins in a chunk and
drop and insert in one merge occur.  One scan: 4 descriptions received (`MaxReceived`).
The palette: 4 descriptions (`FinderRows`), at most 3 rows (`MaxRows`), 4 queries, 2 hits
(`MaxHits`): the cut and a list shorter than the selection happen.  The plan:
configurations without accounts and with two accounts of distinct names, with and
without a broken profile, 1 or 2 regions, with and without a region filter.  One scan
takes resources that have an ARN, because the merge and `Dedupe` differ on the others,
and the plan takes distinct names, because two accounts that give only a role share the
name `default` and their rows each other's credentials.

*summary_tui*: 1 collector, 2 generations, 2 engines, switcher and passive overlays,
watch mode.  It takes collectors that do not fail and a table without rows of the
Tagging API sweep, because with either a watch sweep drops rows of existing resources
(`tui_failed_dropped`).  The event loop distinguishes the current generation from any
other one, so two do.

*screens*: at most `MaxCmds` = 3 commands under way, one more for Glue, whose load
comes in batches, and one fewer for the screens whose state is large (HBase, Lambda, SQS,
tags, CloudWatch, S3, VPC); `Gen` = {1, 2}; two resources of each kind, one matching a
search and one not; two regions, one of which fails; two services; for the trail four
events and a limit of two; for Lake three rows in up to three pages, cut at two or not
at all; for the audit three regions, two slots, one buffered chunk.  A late answer can do
wrong with one older answer beside the current one, and a third command (a timer, a
detail) beside these is the most any property relates.  A screen with parts that hardly
meet runs them apart, so that each can have its commands: EMR's HBase view, tags with
and without a typed query, CloudWatch with and without its viewer, the three parts of
the S3 explorer, the VPC explorer's scan, browser and filter, and its overlays, the
analyzer and the snapshots behind the trace and the diff, the Summary's detail panel
beside the settings, its other overlays and its table, and the settings with two roles of
one theme and with two themes.  The Summary's panes take three resources, two of which share
an ID, its table two resources of different services, the table widget up to six rows in a height
of up to three and columns of three widths, a page of results three results of which any come in
a chunk, the explorer paths of three steps.

*reads*: accounts with at most two resources of a kind (three where a cap is `Max` = 2),
each attribute in its values that the checks tell apart.  Families that no check relates
are filled one group at a time: a check relates two families at most, and a failed call
of an empty family is still a failed call.  `Lists` takes windows of 2 pages, log
queries of 2 pages, downloads of 2 events and peeks of 5 messages in calls of 4, `OnCluster`
counts of 5 rows, 2 polls and 2 callers of a tunnel: each bound is reached, missed by one and
passed.

`ScanEngine` never stops short: its last state is a stuttering `Finished`, and
deadlock is checked.  In `SummaryTUI` the program may stop for good (the scan is done,
nothing is left to delete, no timer runs); a feed of `Screens` that has arrived, or a
screen whose commands are at the bound, waits; and a read of `Reads` ends.  Their runs
say `CHECK_DEADLOCK FALSE`.

### Fairness

Weak fairness of goroutines and commands (the Go scheduler), of `ResolveAccount` and
the collectors' end (SDK calls end; `app.timeoutSeconds` bounds a collector when set),
of the consumer's reads (a range loop, or the event loop with its commands) and of
timers.  Nothing makes the user press a key, cancel a scan or close an overlay.
`ScanCompletes` excludes watch mode and switches, which replace the scan, and
chunks that an overlay swallowed.  Screens and reads have no fairness: their properties
are about states.

### Mutants

Every property of a passing run has mutants in `PROJECT.json`: a definition changed the
way a bug in the code would change it (the operators named `Definition_Change` in the
modules), under which TLC finds the property violated.  `Sound`, `Accounted` and the
screens' properties have one or more per part of the program.

## 5. Proofs

TLC checked every invariant below, the inductive ones too, on the instances of section 4
before it was proved.  What the theorems leave open is at the end.

### `ScanEngineProofs`

For every `N`, `Owner`, `MayFail`, `Limit`, `Cap` and `MaxPages` that satisfy
`EngineAssumption` (numbers are naturals, the pool and the channel are not empty, every
task has a sweep):

* `TypeCorrect`: `Spec => []TypeOK`.
* `NoSendAfterClose`: `Spec => []CloseIsLast`.  `CloseIsLast` alone is not inductive: a
  worker that was never launched could still start.  `CloseInv` adds that exactly the
  tasks from `next` on are idle (`LaunchedInOrder`), and that a closed channel means that
  none is left to launch and none is active (`ClosedBehindBarrier`).
* `DeliveryIsExact`: `Spec => []NothingLost`.  The invariant adds that the chunk in a
  worker's outbox is the last one it made and belongs to it (`OutboxIsLast`), so that
  `Send` appends exactly the next number; `Receive` takes the least number of its task
  because the channel is in order.
* `EveryTaskIsAccounted`, `PartialFlagIsHonest` and `AccountErrorExactlyOnce` state
  `EveryTaskEnds`, `PartialIsHonest` and `AccountErrorOnce`.  They rest on `ScanInv`, all of
  the above with: the order of what arrives also after a cancel (`OrderInv`); for every chunk
  a task has anywhere (`Held`), where it stands among the task's chunks and what its fields
  say of the account and of the pages before it (`ContentInv`); that no two chunks report
  one account and a fired `errOnce` has its chunk on the way (`ReportInv`); and that a
  consumer that saw the end saw a closed, empty channel (`EndedIsDrained`).
* `StreamIsImplemented`: `Spec => ImplementsStream`, the refinement, action by action: a
  `Receive` is a `Deliver`, the last `ReceiveClosed` an `End`, a failing `ResolveAccount` a
  `Fail`; whatever happens between goroutines is a stutter.

### `SummaryTUIProofs`

For every set of collectors, seeds, overlays and generations of `TUIAssumption`:

* `TypeCorrect`; `PullLoopNeverForks` (`OnePull`), from `PullInv`, which says where the one
  pull is: a command on the current channel or a message of the current generation, and
  neither once the scan is done or an overlay has swallowed it; `OneTimerChain` (`OneTimer`).
* `NoRowOfOldEngine` (`OnlyCurrentEngine`) and `SweepDropsDeleted` (`DeletedDropOut`), from
  `RowInv`: a chunk that `Update` will still apply is of the current engine and of a
  resource there was when the scan started, and so is what a sweep has seen.
* `SweepDropsOnlyDeleted` (`OnlyDeletedDropOut`) assumes `MayFail = FALSE` and `Seed = {}`.
  The code needs both: a failed collector's rows and those only the Tagging API knows are
  dropped (run `tui_failed_dropped`).  `SweepInv` says that the end of the stream is behind
  all chunks, and that a sweep has news of every resource, or will have, or it is gone.

### `InventoryProofs`

For every finite or infinite set of resources and every batch size of `ViewAssumption`
(services, names and richness are numbers; entries of one key have one service, which
`awsutil.CanonicalService` provides):

* `TypeCorrect`, `IndexStaysExact` (`IndexExact`) and `OrderAndText` (`SortedWithText`), from
  `ViewInv`: the table is in order, its keys are distinct, the index holds exactly them, the
  sidebar exactly their services.  A merge keeps it by induction over the batch: `FoldInv`
  is the invariant of the loop (rows updated in place, new entries, rows to drop), and
  `Covers` says of the entries so far that each key has its richest and newest.
* `NoTransitionLost` (`TransitionsFlagged`) and `InventoryIsImplemented`
  (`ImplementsInventory`), the refinement of `Inventory`: what the incremental merge leaves
  is what `Merges` asks for, and `finishWatchSweep` drops exactly the unseen.
* `TableIsDedupe` (`SameAsDedupe`) and `MergesAreRichest` (`RichestThenNewest`), about
  `InventoryDedupe`.  `DedupeInv`: every row was received, and every resource received has a
  row of its key that is as rich; of `summary.Dedupe` the same is proved by induction over
  the list, so the two have the same keys and, as neither has a key twice, the same
  length.  They are about resources that have an ARN, as `Receive` says.
* `FinderKeepsTable` (`FinderSpec => Spec`), so all of these hold with the palette open, and
  `SelectionStaysOnList` (`SelectionStays`), from `HitsInv`, for every `Score` and `MaxHits` of
  `FinderAssumption`.  That a ranking exists at all is a lemma, by induction over finite
  sets.
* `HitsAreRows` (`FinderHitsInRange`) and `HitsAreMatches` (`FinderHitsMatch`) assume
  `Streaming = FALSE`: the hits stay those of the table (`HitsCurrent`) only while no scan
  changes it, and with one the property is false (run `finder_range`).
* `JumpLands` (`JumpLandsOnRow`) holds also while a scan streams, but assumes `IdsName`:
  `sameResource` ignores the type, which `resourceKey` has, so of two resources without an
  ARN that share service, region and id the palette could choose the other.

### The plan of a scan

At the end of `ScanEngineProofs`, for every set of configurations:

* `MeterStaysExact` (`MeterExact`): the planned keys are those of the markers (`PlanIsRun`)
  and distinct, so each marker takes exactly its own key away (`MeterInv`).
* `CredsStayMatched` (`CredsMatchAccount`): `sweepCfgs` has, for every account a row is
  labelled with, the credentials of its sweep (`CredsInv`), also while the next scan's
  sweeps replace the last one's.

Both assume `NamesDistinct`: no two accounts, services or regions of one name.  The
registry sees to it for services; of accounts and regions the code checks nothing, and
with twins the meter counts a key once and the rows of one account find the other's
credentials.

### `ScreensProofs`

For every `MaxCmds`, every set of generations, and all resources, regions, rows and
limits that satisfy `ScreensAssumption`.  A screen never turns into another
(`AppStarts`, `AppGoesOn`), so a property of all of them is one invariant per screen.
What a handler does to the commands are the lemmas of `Tea`: the bag stays one, the command
that answered has one copy fewer, a new one has a copy more, any other as many as before.
`Tea` has bag operators of its own, and the screens extend nothing else, because the
provers get the definitions of every library once per instance: what a proof needs of sets
is a hypothesis of the module (`Countable` of `VpcTUI`, `FiniteTimes` of `FeedTUI`), and
`ScreensProofs` derives it from the finiteness of the constants (`RegionsOfVpcs`,
`TimesOfFeeds`), by the library's theorems.

* `KeepsTickingAlways` (`KeepsTicking`).  CloudWatch: from `Ticking`, which adds that a tick
  of the viewer carries no generation, so that an answer which only the generation sorts
  out cannot be that tick.  Bill: from `BillInv`, which adds `OneLoad`: between two fetches
  the timer with the current id is under way once, and neither a key nor a late tick can
  take its place.
* `FeedAlwaysComplete` (`FeedComplete`), from an invariant per feed that says where each
  region is.
  `TrailInv`: a region is looked up once and answers once (`LookedUpOnce`); what has been
  taken in is what the regions that answered sent (`TakenIn`); the table is its window
  (`Windowed`).  That the window over cut lookups is the window over whole ones unless
  "truncated" is shown is `LookupWhole`, by cardinalities of sets of times.
  `LakeInv`: a reader that goes on is below the cap and the total.
  `AuditInv`: each region is not launched, under audit, blocked on or in the channel, or
  shown; the closer waits until the first two are empty, and the account-global sweeps
  are counted where region 1 leaves the second.
  `ScanInv` of the VPC explorer: unless scans mix or an overlay has swallowed an answer,
  the regions that have answered and those with a command under way are all (`Counted`).
* `TableAlwaysCurrent` (`TableCurrent`) and `KeysAlwaysReachDrawn` (`KeysReachDrawn`).
  `LambdaInv` and `SqsInv`: whatever changes tab, filter or list rebuilds the table, and the
  filter's input and the findings, for which drawing and keys look in different orders,
  are never both open.  `BrowserInv` of the VPC explorer: the page and the focus change
  together, and tables, caches and the answers under way are those of the selected VPC,
  which also gives its `ShowsSubject`.  `OverlayInv`: at most one overlay is open.
  `TableInv` of the Summary: the cached groups and the rows on display are what the group,
  the filters and the order make of the resources, through chunks, sweeps, restarts and jumps.
  `DialogInv` of its overlays: never two are open, and the detail panel that has the focus
  exists unless a restart took it away; so the orders of Update, View and status bar agree.
  `ResultsInv`: the rows of an audit, trail or Lake page are `Visible` of what has come in.
  `ExplorerInv`: the links are those of the resource at the end of the path, under the filter.

`ScreensAssumption` says what the constants stand for: the times of events and the counts
are naturals, the regions of an audit are numbered from 1, kinds of objects that a preview
tells apart are disjoint, the results of searches are subsets, and there is a VPC.

### What is left to TLC

* Liveness under fairness (`ScanCloses`, `ConsumerSeesEnd`, `ScanCompletes`), which the prover
  has no rules for, and the runs that expect a violation.
* `TypeOK`, `OneLoad`, `SpinnerEnds` and `ShowsSubject` of `Screens`.  Each is a conjunction
  over up to thirty screens and parts of screens, and needs an invariant for every one of them that says
  which commands may be under way in each state of `m`; those of bill, VPC scan and
  browser above are parts of such a proof.
* `Sound` and `Accounted` of `Reads`: a read is a fixed list of some fifty calls over records
  of its own shape, without a bound that a proof could remove; what could be general,
  the sets of resources, the checks look at one resource at a time.

The induction theorems of the library take an operator as a parameter, so
the inductions above are made over sets: the set of the numbers for which the claim
holds contains 0 and the successor of each of its members.

## 6. Disagreements found

### Shown by a run

`PROJECT.json` quotes the lines.

* `finder_range`: the palette indexes the table with positions of the last key press
  while scan messages pass behind it; when a watch sweep or a switch shortens the table
  the render indexes out of range.
* `tui_freeze`: the settings panel, the filter form and the switcher get every message,
  scan chunks too, which the comment on the debug overlay names as what would freeze
  the inventory.  The answer of a switch and a watch tick are lost the same way.
* `tui_sweep_starves`: a watch tick cancels the running scan even if it has not ended.
* `tui_failed_dropped`: the end of a watch sweep drops the rows of a collector that failed.
* `vpc_region`: the VPC explorer exchanges its client only for a VPC of another region
  than the one it started in, so a VPC of the start region entered after another keeps
  the other's client.
* `audit_guesses`: two checks take a fact nobody could fetch for false.
* `related_merges`: a full ARN does not keep two resources of one name apart.

### Exceptions in the properties

Where the code gives an answer no defence, the property excuses exactly that case (a
history field, a sentinel, a flag of the account) and is checked in all others.

Screens:

* Glue: runs, definitions and details carry no key; an answer to the job opened before
  is shown under the one opened since.  EMR and Lambda compare keys.
* SQS: a peek that answers while the prompt for another queue is open lays its messages
  under the prompt; confirming it exchanges `peekQueue` and leaves them on display, so
  that they stand, and are exported, under the other queue's name until its peek
  answers, for good when that fails, although `sqstui/model.go:79-80` says that
  `peekQueue` "pins which queue the messages view (and any in-flight peek) belongs to".
  The history field `over` of `SqsTUI` marks the case.
* Tags: rows on display can differ from the list Enter, "o" and "y" act on.
* CloudWatch: events carry no key; a failed query leaves the events of the one before;
  a group filter moves the selection without loading its streams; "p" with no group
  spins for ever; watch ticks have no id, so several chains can run.
* S3: bucket details that answer after another bucket was opened; a region written to
  the row it was asked for by number; "L" without asking for the new row's details;
  listings without a key; the fallback of a typed path stays armed; caches keyed
  without the bucket; Parquet pages out of order; an old error ends a new spinner.
* VPC: the answer of another type's load ends the spinner; the list of analyses has no
  key; a finished diff opens its overlay wherever the user is; "t" after a failed diff
  uses the one before, and "b" can then write a baseline without a name; "r" during the
  scan lets old answers count; an answer during a search drops the filter; rows of the
  VPC before stay for "o" and "c" until the load; the settings panel swallows answers;
  a client that cannot be made leaves the VPC selected.  A snapshot dropped while its
  fetch is under way is stored all the same.
* Summary: a form or the settings panel keeps what a pane, a scan or a switch waits for
  (`eaten`); a restart closes the detail panel and leaves it the focus (`stranded`), so
  no panel has the keys until Tab; panes match answers by ID, which two resources may share
  (`mixed`); a switch that fails, or whose answer is swallowed, leaves the configuration
  ahead of the engine (`ahead`); an account diff stays open over another account's scan
  (`moved`); a sidebar whose groups are listed anew selects by position (`drifted`); while
  "About" listens the status bar lists other keys.
* Settings: a late save puts back a theme left since (`late`), and its message closes
  whatever panel is open, tuner included; a role set back to "auto" that `themes.yaml`
  colors has its color again after the next start.  Table widget: after `SetCursor` or a
  change of height the selected row may not be drawn (`lost`).  Audit and trail: an open
  detail, and "y", go over to another result when results come in (`moved`).
* Bill: a breakdown that was left open by a failed fetch (`billtui/model.go:245-247`).
  Trail: "errors only" cuts before it filters (`trailtui/model.go:129-131`,
  `trail/trail.go:325`); a region that fails after some pages is dropped though
  `trail.go:344` says "recorded".  Lake: `Total` is cut with the rows
  (`traillake/lake.go:33-36,145`).

Reads:

* Audits: posture calls of S3 that fail are swallowed; a load balancer whose health was
  not read is reported idle; a cap reached with exactly as many resources is recorded as
  truncation.
* ECS's collector loses recorded failures; EMR steps that cannot be listed are missing in silence.
* `related --scan ec2` without `iam` claims "EC2 instance profiles" as checked;
  `--show-paths` expands each node once; `AssessRisk` counts rows; `ListTargetsByRule`
  is not paginated; VPC endpoints record their errors under "ec2".
* Glue's and Lambda's dashboards never report an error, even when every call of every
  region failed.  VPC scans hide regions that deny them.
* Quotas: a failed `GetMetricData` leaves every quota of the region unknown, records no
  error, and `--threshold` hides them; a failed `GetServiceQuota` shows AWS's default.
* CloudWatch queries stop silently after 20 pages (`cwtui/cw.go:208-210` says "scans the
  lookback window to the end"), recent logs after 10.
* Cards: S3 retention, legal hold, region and uploads (any failure), tags, lifecycle and
  public access block (denied) are shown as not set; EMR's main route table, HBase
  namespaces, regions and schema, Oozie coordinators, YARN metrics and a VPC's DHCP
  options fail in silence; an HBase count ends uncapped when a page cannot be parsed
  (`emrtui/hbase.go:239`).
* Diffs: a resource that either scan has missed looks added or removed; saved scans key
  resources without ARN and ID by type and region, so different ones merge, and do not
  compare names.
* VPC snapshots are best-effort and record nothing (`vpctui/model.go:822-866`), so
  findings and diffs over a partial one are false, and it may be saved as a baseline.
  `exposureReport` ignores ACLs; `tracePath` probes one return port, checks the source's
  return against the primary address of the destination, and with "any port" steps over
  port-specific denials; references are not symmetric; the full report is silent about
  listings that are denied and descriptions that fail.

### Met while reading, not modelled

`SQS.PeekMessages` may receive up to 80 messages though its comment says ten;
`isResourceDataDisabled` matches any validation error that mentions "resource"; an SSH
client whose connection died stays in the tunnel's cache, and the mutex is held while a
host is dialled; `relatedtui`'s "r" adds a spinner chain, and its hint "Esc clear" stands
where Esc goes back and the filter stays; a baseline can be saved from a scan that has
not ended; the tuner turns a named color into amber at Enter; `exposureRisk` flags ICMP
"All"; a resource panel's pending focus survives the VPC it was for.

## 7. What is not modelled

* Rendering, wording, files, flag parsing, configuration, credentials, links: pure I/O or
  layout.
* The AWS field mapping of the collectors: one line per field, which TLC has nothing to
  say about.
* What the Summary TUI's panes draw, its VPC and coverage overlays, and `AccountSweeps`
  beside a running scan.
* In the screens: columns and sorting, except in Summary and result pages, fields
  of forms, exports, the CSV and Parquet viewers' rows.
* Parsers of YARN, HBase, Oozie and Spark answers, the SQL of a Lake query, prices,
  the policy simulator.
* Deaths of connections and durations: a call fails or not, a deadline passes or not.

`PROJECT.json` lists every package with its reason.

## 8. Plan

Done: the scan, the table, the event loop and the plan, with their proofs; all dashboards,
explorers and feeds, the Summary's panes, the settings and the pages of results, with proofs
of timers, feeds, tables and keys; all collectors, audits, references, reports, details,
and the VPC explorer's analyses.

Next, in this order:

1. Theorems of the screens' `OneLoad` and `ShowsSubject`, for every number of generations and
   commands, then of single audits (`Sound`, `Accounted`), for every account.
2. Two scans that overlap in `ScanPlan`, `AccountSweeps` beside a scan, and the overlays of
   the tags dashboard.
