# birdy, modelled in TLA+

birdy is a web interface that owns the configuration of a BIRD routing daemon:
it renders `bird.conf` from a model in SQLite, applies it under BIRD's
auto-revert timer, watches sessions and the file, and alerts. This directory
holds TLA+ modules of the parts where order, time and failure matter, the TLC
configurations that check them on small instances, and theorems about them
proved with TLAPS for every value of the constants. Source paths below are
relative to `src/`.

## 1. Inventory

| Component | State it keeps | Operations | What is hard | What makes it correct |
|---|---|---|---|---|
| **Apply pipeline** `internal/web/apply.go`, `history.go`, `changes.go`, `store/configversions.go`, `birdc/configure.go` | `bird.conf` and `birdy.d/`, backups, the applied hash, the `config_versions` rows; BIRD's running and previous configuration and its revert timer | apply, re-apply, confirm, roll back, adopt, reconcile an expired apply | two clocks (birdy's deadline, BIRD's timer), three stores written one after another, lost replies, crashes between any two writes, an operator with a text editor | one pending version at most; a resolved one is final; hash and version move together; disk, BIRD, routing table and hash agree when settled; hand edits survive; nothing stays pending |
| **Drift watcher** `internal/web/drift.go` | the last drift alerted | check every 30 s, under the same mutex | reading three stores while a handler writes them; standing aside during an apply without missing what follows | no alarm for what birdy does itself; every standing drift reported |
| **Database restore** `internal/snapshot/snapshot.go`, `cmd/birdy/server.go`, `store/store.go` | the database file, its write-ahead log, the staged file, the copies aside | stage, apply at start, open; nightly snapshot, prune, download | a kill between any two file operations, and starting again from there | a restore takes effect once and whole; what it replaced is kept; it is applied in the end |
| **Poller** `internal/poller/poller.go` | the last snapshot of sessions and routes, reachability | poll every 5 s | edges computed from two polls, a poll made of several reads, failed details | an alert per edge, none for a peer switched off or a failed read |
| **Notifier** `internal/notify/notify.go` | a queue of 256, the time of the last delivery per kind and peer | queue, throttle, deliver | overflow, cooldown against order, no retry | order kept, poller never blocked, storms damped |
| **BIRD socket client** `internal/birdc/` | one connection under a mutex | show queries with one reconnect, configure commands on connections of their own, dump streams | framing, half-read replies, cancelled requests | a reply belongs to its question |
| **Instance health** `internal/web/instances.go`, `store/instances.go`, `federation/` | the rows of the remote birdys, their health | refresh (at most 8 checks at once), add, rename, delete | rows deleted or renamed under a check, cancelled batches, two refreshes | one alert per outage and recovery, none for a shutdown, and the last word is what is on record |
| **Peers, templates, policies** `store/peers.go`, `peer_templates.go`, `policies.go`, `web/` of the same | most of the catalog bird.conf is rendered from | save, delete, toggle, attach, capture | nothing locks the catalog: forms check and write in separate steps; a template's columns follow into the peers linked to it | references resolve; linked peers follow their template and keep what is their own; internal sessions carry nothing of external ones |
| **Library** `store/prefixsets.go`, `assets.go`, `communities.go`, `rpki.go`, `bmp.go`, `statics.go`, `symbols.go` | sets, communities, feeds, stations, routes, bogons; one namespace of BIRD symbols over all tables | save, delete, toggle, refresh | references by name that no foreign key sees; names looked up before they are taken | no name means two things, none is dangling, no set is empty |
| **IRR refresh** `internal/web/irr_refresh.go`, `internal/irr/` | the entries of prefix and AS sets | timed and manual expansion | a minute between reading a set and saving it | a mirror's bad day never empties a set; notes survive |
| **Renderer** `internal/render/` | none | render, refuse, lint, diff, mask | filters whose statements' order decides; a lint that foretells them; a diff charged to sections | what it writes loads; vetoes and permissions hold for every route; the lint and the diff say what is so |
| **Login and sessions** `internal/web/auth.go`, `profile.go`, `middleware.go`, `store/sessions.go`, `users.go` | the account, sessions, failures per address | login, logout, expiry, change of name and of password | a slow comparison between reading the user and opening the session; concurrent attempts against one counter | a changed password ends what was opened with the old one; while a lockout is remembered only logins already on their way are compared |
| **Settings and tokens** `store/settings.go`, `instance_tokens.go`, `access.go`, `web/settings.go`, `server.go` | one row of settings, the tokens, a cached access list | forms, applied hash, create and revoke | forms that write back a copy of the row; a cache reloaded after the save | what a form saved another does not undo; a revoked token is refused |
| **Migration and seed** `store/migrate.go`, `schema.go`, `seed.go` | schema version, default rows | run at every open | interrupted or repeated steps | repeating a step changes nothing |
| **Others** `updatecheck`, `peeringdb`, `netdiag`, `doctor`, the remaining web pages | little or none | calls to other programs and services | - | - |

How they meet. Web handlers and background loops are goroutines of one process.
`applyMu` serialises the five handlers of the pipeline and the drift watcher;
everything else shares state through SQLite rows, and no lock covers the catalog
or the settings: what holds there holds by the order of statements, the
transactions, the foreign keys and the unique indexes. Poller, drift watcher,
pipeline and instance health all report through the event log and the notifier.
The pipeline and the poller talk to BIRD through its control socket. The restore
runs before anything else exists, at the next start of the process.

The hazards this leads to are listed in `PROJECT.json` with the line where each
bites and the properties that watch it. Some are real and watched by none: what
the code lets happen, and no comment denies, has a note instead of a property.

## 2. Plan

In the order of importance; a proof follows a module as soon as its runs pass.

1. `Apply`, `ChangeControl`, `Drift` (done): the pipeline, what it promises, and
   the watcher beside it. Proved: every safety property the runs check.
2. `Restore`, `AtomicRestore` (done): the staged restore and its promise.
   Proved: the refinement.
3. `Poller`, `Alerts` (done): the poller, and the poller composed with queue,
   throttle and destinations. Proved: every safety property.
4. `Rows`, `Peering`, `Library`, `Catalog` (done): the catalog and its handlers.
   Proved: every property the run checks, that the file loads among them.
5. `Filters`, `Config`, `Lint`, `Routes` (done): the renderer, and routes through
   what it writes. Proved: the three properties of `Routes`.
6. `Changes` (done): the diff of the Changes page. Proved: all of `DiffIsFaithful`.
7. `Fleet`, `Access`, `Limiter`, `Settings` (done): the rest of the panel that
   keeps state. Proved: the property of each.

Left: `FileSet`, the order in which `writeFileSet`, `restoreConfig` and
`snapshotConfig` touch `bird.conf`, the includes and the backup directories, to
show what `Torn` in `Apply` stands for; `BirdClient`, framing and the one retry;
the migration steps. Every safety property a passing run checks is proved; what is
left to TLC alone is liveness.

## 3. The modules

### Apply

`Apply.tla` is `internal/web/apply.go` with the rows of `store/configversions.go`
and BIRD as `birdc/configure.go` drives it.

| Variable | In the code |
|---|---|
| `disk` | what `readLogicalConfig` returns: a rendered configuration, an operator's text, a half-written set (`Torn`), or no file |
| `bird` | BIRD's running and previous configuration, its revert timer, and the configuration whose filters the routing table has been through |
| `hash` | `settings.applied_config_hash`, as the text it is the hash of (hashes are taken to be injective) |
| `versions` | the `config_versions` table; `left` is the time to the deadline |
| `job` | the handler that holds `applyMu` and its locals |
| `hand` | history: the operator put the text on disk while no handler ran |

A handler is a sequence of steps, one for each thing it does to a file, to BIRD
or to the database; between two steps anything outside birdy may happen: `Tick`,
`TimerFires`, `BirdRestart`, `Edit`, `OperatorConfigure`, `Crash`. Failures are
actions beside the step they belong to: `ArmLost` is a lost reply to
`configure timeout`, `ConfirmLost` and `UndoLost` the same for the others,
`WriteFail`, `RestoreFail`, `RollbackFilesFail`, `RecordFail`, `StampFail` and
`ResolveFail` a file or a row that could not be written. `Refuse` is any early
return that changes nothing, rendering and `bird -p` among its reasons.

Abstracted: the text of configurations, the set of files behind one logical
text, flash messages, the audit log. A `Torn` text is one whose hash birdy has
never recorded, so it is drawn from texts different from `hash`.

`ChangeControl.tla` is the promise: proposals, at most one open, accepted
together with the baseline or withdrawn without it, never reopened.

### Drift

`Drift.tla` extends `Apply` with `checkDrift` and its `lastAlerted`, which a
crash forgets. It runs only when no handler does, because it takes `applyMu`.

### Restore

`Restore.tla` is `StageRestore`, `ApplyPendingRestore` and `store.Open`, with the
file operations of a start one by one. `main` is the database file, `wal` the
write-ahead log beside it (the file it extends, and what replaying it gives),
`marker` the staged file. Opening a file with the log of another gives `Torn`.
`pc` is where birdy is: running, down, or at a step of its start. Faults have
kinds; `Interruptions` are those a restore is meant to survive (a kill while
running, a kill during the start, a failed write), and `hit` records which have
happened. The other kinds are errors the code ignores or leaves behind, and the
properties that promise atomicity say `Sound`, i.e. hold up to them.

`AtomicRestore.tla` is the promise: a staged content takes the database's place
once, in one step, while birdy is down. The refinement maps the switch to the
first byte written over the database: from there on the staged file is what
birdy will open, whichever start gets to finish.

Not in it: `birdy init`, which applies a staged restore too, and would be a second
birdy; two backups with one name (names have a resolution of a second, and
systemd waits five before it starts birdy again).

### Poller and Alerts

`Poller.tla` is `internal/poller/poller.go`. A poll is the steps in which it reads:
`List` (the protocols), `ReadDisabled` (the peers switched off in the model),
then for each protocol `Classify` and, for a session that is up, `Detail` or
`DetailFail`, and last `Publish`. Between them sessions fail and recover, `EditPeer`
changes the model, `ApplyModel` makes BIRD run it, BIRD stops and starts. `model`
is the peers table, `running` the configuration BIRD has, `states`, `first` and
`reach` what the poller keeps; `protos`, `off`, `todo`, `peer` and `next` are locals
of `poll`. `out` is what the step emitted. Ages are in ticks and saturate at
`FlapWindow`, past which the code no longer tells them apart. Histories: `said`
(the last event about a subject), `muted` (a transition since was kept quiet, or
happened while birdy was not there), `cause` and `parked` (sessions listed
down because of the operator), `fetched` (the last count really read).

`Alerts.tla` extends it with `internal/notify/notify.go`: `Offer` is `Notify`, taken
with the step that emits; `Take` and `Suppress` are the head of
`deliverAllSync`, the throttle first; `Deliver` and `DeliverFail` its loop over the
destinations. `lost` marks what was dropped by a full queue, throttled, not
delivered, or in the queue when birdy died, and not made good by a later event.

Two steps of a poll that the code takes together are one step here: the listing
with the reachability event, and the detail with its limit and drop events. All
events of one step are offered at once.

Left out of the poller: the cached status, the count of all routes and the
history samples, which raise no event; protocols other than BGP; a session's
second channel, whose count is added to the first's.

### The catalog

Four modules, each extending the one before. `Rows` is a table: rows keyed by an
id never given twice, a unique name, and what refuses a delete. A transaction is
an operator from a database to the one it commits, or `None`. `Peering` has the
transactions of `store/peers.go` and `peer_templates.go`, and what validation
makes of a form; `Library` those of the other tables, and the expansion of a set.
`Catalog` is the handlers:

| Variable | In the code |
|---|---|
| `db` | the tables; passwords, notes and descriptions left out, columns that go the same way kept as one (`Peering` lists them) |
| `req` | the requests in flight: the form, the row as it was read, the step it is at |
| `irr` | `RunIRRRefresh`: the sets of this tick still to expand, as they were read |
| `disturbed` | history: a write went by a read that somebody had outrun, or a request stopped between two transactions |
| `loose` | history: names of communities nobody vouches for: lost to a rename, or saved in a form that could not look them up |
| `calls`, `requests`, `ticks` | what may be asked, and how often: bounds |

A handler is three steps: it looks its row up, checks the form against the tables,
and writes. Two checks pass when their own reads fail, and so they do here: a field
whose communities cannot be looked up (`ChecksNames`), and the guard of the last RTR
server (`lastEnabledServerGuard`, left out with `unread`). A peer's save writes twice (row, chain), a template captured from a
peer too (row, link), the bogon lists three times; `Torn` is a stop between two
of them. Between any two steps another request or the IRR loop may take one.

Properties that start with `~disturbed` are the promise of checks that are not
part of the transaction. What the constraints of the schema promise
(`ReferencesResolve`, `InternalSessionsStayClean`, entries that are not empty) has no
such exception.

### The renderer

`Filters` extends `Library`. A filter is the sequence of statements that
`render.go` writes, in its order: tests with what to do when they hold. `Run`, a
recursive function, runs it on a route up to the first accept or reject, as BIRD
does; a policy's function falls through to its caller. `Config` is the whole file as
sections, each with the symbols it declares and uses, and the renderer's refusals. `Lint` is `lint.go`: a set of
findings, folded by template. `Catalog` extends it, so `ConfigLoads` asks of every state
of the catalog that if the renderer does not refuse it, BIRD would find every name
once, before its use, or the lint has said which one is missing.

`Routes` meets rendered filters with routes. `fabric` is a catalog from which all
routers of the network are rendered; a route is `Learn`ed from a neighbor or
originated, `Relay`ed over internal sessions any number of times, `Install`ed in the
kernel, `Announce`d to a neighbor. What the properties compare with is not the
filter but what the operator asked for: `Objection` and `Permits` read the policy's
columns, and know where the route truly entered and what its sender truly said. A
session's own settings are the operator's word too: the communities it adds on import
count as what entered (`TrueMarks`) and may ask for a discard (`Honoured`), those it adds on
the way out, a drained session's GRACEFUL_SHUTDOWN among them, as what leaves (`ExitMarks`).

`Changes` is `diff.go` and `mask.go` behind `handleChanges`. A text is a sequence of
words, line ends and passwords. Its reference definitions are `patch` (`Patched`)
and the longest common subsequence as a maximum over all alignments. What the code
collects in passing is here what it collects: the lines of a hunk, and the edits of a
section, are those of the script at some places (`Sifted`); the loop over both texts is a
recursive function of the number of turns (`NextEdit`), and a hunk a run of places kept
(`Starts`, `End`).

### Fleet, Access, Limiter, Settings

`Fleet` is the refresh of `instances.go`: a caller (the loop, an operator) waits for
`refreshMu`, lists, asks at most `MaxPolls` at a time, and writes what came back from
the copy it listed. Rows come, go and are renamed meanwhile. `told` is history, the
last two alerts about an instance.

`Access` splits a login where its slow comparison is: `handleLoginSubmit` reads the
user, `CreateSession` opens the session. `RotatePasswordSession` is one transaction, as
in `users.go`. The password a session was opened with, and whether its login was
overtaken by a change (`late`), are history. `Limiter` is the limiter of `auth.go`,
asked in one step and told in another; its list of records is a function from
addresses to records, each with the addresses recorded before it, which is all that
the order of the list decides. The limiter's memory of a lockout is its record, and that
can go before the lockout is over: at the limit the oldest goes, whatever it says, and a
failure past its window replaces it. So the lockout itself is history kept outside the
record: `lockout` says of each address whether it `lasts` or was `cut` short in one of
these two ways, `early` which logins were on their way when it began.
`FewComparedWhileShutOut` compares with that, and not with the record.

`Settings` is the row, its forms and the tokens. `SaveSettings` writes back a copy but
for the columns the code leaves out; `reloadAccess` is two steps, the read and the swap.

## 4. The runs

| Run | Configuration | Shows |
|---|---|---|
| `apply_drift` | `MCDrift.cfg` | every handler against one fault and one intervention, slow handlers: types, one pending version, no lock-out, no false alarm, finality, hand edits against applies, and `ImplementsChangeControl` |
| `apply_prompt` | `MCDriftPrompt.cfg` | prompt handlers, no faults, one intervention: disk, BIRD, table and hash agree (`ArmedDiskIsRevert`, `SettledAgree`), one timer (`OneArmed`), and the liveness properties |
| `restore` | `MCRestore.cfg` | two faults, two stops, three contents: a restore is atomic, keeps what it replaces, never opens half a database, and is applied in the end |
| `poller` | `MCPoller.cfg` | a peer and BIRD, seven moves of the network or the operator, two faults: the timeline's last word is the snapshot's, no alarm for a peer switched off, drops are real |
| `alerts` | `MCAlerts.cfg` | one peer and BIRD, two destinations, a queue of two: order is kept, and a lasting outage is heard unless its event was lost in a known manner |
| `catalog` | `MCCatalog.cfg` | seven scenarios, each a database and the calls that get in each other's way, two or three requests at a time, the IRR loop and stops between transactions: what stays true of the tables, and that what is rendered from every one of them loads |
| `panel` | `MCPanel.cfg` | the parts of the panel that meet nothing else, one at a time: routes through fifteen networks, texts against layouts, refreshes, logins, the limiter, the settings |
| `confirm_clobbers` | violated: `HandEditsSurvive` | confirm overwrites an edit made while a version is pending |
| `second_arm` | violated: `OneArmed` | the deadline counts from before the work, BIRD's timer from after it |
| `late_confirm` | violated: `ConfirmedIsRunning` | BIRD reverts while the confirm is at work |
| `restore_half_staged` | violated: `AlwaysOpensWhole` | a staging cut short is swapped in |
| `restore_killed` | violated: `ContentKept` | the copy aside is of the file without its log |

The violated runs are findings, quoted against the comment they contradict in
`PROJECT.json`.

Why two pairs of settings for `Apply`. `SlowHandlers = TRUE` lets time pass and
BIRD's timer fire inside a handler. What holds then holds whatever the timing.
`OneArmed`, `SettledAgree` and `ArmedDiskIsRevert` do not (`second_arm` is why),
and are checked with handlers that take no time, which is what they amount to
beside a timeout of a minute or more.

Bounds. `MaxVersions = 2`: a second apply after each outcome of the first, which
is as far as one version can reach into another. `Timeout = 2`: one tick before
the deadline and one at it. `MaxFaults = 1` and `MaxEdits = 1` together: a failure
met by an intervention; every failure action fires. One edit is one
drift: `StandingDriftIsReported` follows it across applies, and not a second one after it. Two configurations and one
foreign text tell "the same" from "another"; two torn texts, since the second
must differ from a torn text that was adopted. For `Restore`, two faults are a
restore interrupted twice, or interrupted after a kill; two stops are two
uploads; three contents are the old, the committed and the uploaded.
Configurations and torn texts are interchangeable in `apply_drift` (symmetry),
which checks safety only.

For `Poller`, seven moves let a peer fail, be deleted by an edit and
its apply, come back by two more and be established; in `Alerts`, three are down, up
and down again, or an edit, its apply and a failure; counts 1 and 4 with a baseline of 3 are a drop, with a
limit of 4 a limit reached. One tick of window and of cooldown is inside, and
past it. `Alerts` has one count, since it is about who hears; its queue of two
overflows. One peer is enough: a poll takes them one at a time, each against
its own entry of the snapshot.

For `Catalog`, three requests are a save between two steps of another, with a third
that outruns its check; two where the IRR loop also runs. Each scenario has one row of
a kind more than its calls name, so that a wrong row would show. Ids are never used up
in a way that hides a call: `Insert` finds none only past the last request.

`MCPanel` puts its six parts in one specification with a variable `part` that never
changes: the parts share no state, so their product would add nothing but
interleavings of steps that do not see each other. What happens in one part is all
of it. `Routes`: the networks of `MCFabrics` are one edge router and variations of it, each
turning on one thing a policy or a session can say; routes cross every kind of net
with every kind of path and community; two internal sessions, walked any number of
times. `Changes`: texts of up to three lines over three words, and those with no line
end, an empty line, CRLF and repeats; layouts of one to three sections, one empty, one
with no line end. `Fleet`: two instances, two names, the loop and an operator.
`Access`: two browsers, three tokens (one more than browsers, for the session
somebody has left behind), three passwords. `Limiter`: three requests, three addresses,
two records kept, two failures to be turned away, so that a locked record may be
crowded out, or replaced after its window, and its address be shut out again. `Settings`: two forms, two tokens, two lists.

No symmetry in these two: rows are told apart by what they hold.

Fairness. `HandlerStep` is weakly fair: handlers run detached from their request
(`context.WithoutCancel`) and every call to BIRD has a deadline. `Tick` is time;
it is strongly fair because prompt handlers suspend it. `TimerFires`: BIRD keeps its timer.
`Begin("changes")` is strongly fair: the Changes page reloads itself when its
countdown ends (`static/apply.js`), a reload reconciles, and Go's mutex does not
starve a waiter. `CheckDrift`: the ticker. In `Restore`, `Start` is weakly fair
because systemd restarts birdy (`Restart=on-failure`) or the operator does, as the
upload's reply asks; the steps of a start are, because nothing in them waits.
In `Alerts`, `PollAndNotify` is weakly fair (the ticker;
every read has a deadline) and so is `Work` (the worker is a goroutine whose requests
time out after 10 s); nothing is assumed of the network or of BIRD.
`catalog` and `panel` state safety only and assume no fairness.
Nothing is assumed of operators: no fairness on apply, confirm, roll back or stop.

## 5. The proofs

`ApplyProofs.tla` proves, for any sets of configurations and texts, any timeout
and any bounds, from `ConfigsAssumption` and `BoundsAssumption`:

- `TypeCorrect`: `Spec => []TypeOK`;
- `OnlyOnePending`: `Spec => []AtMostOnePending`;
- `ResolutionIsFinal`: `Spec => ResolvedIsFinal`;
- `Refinement`: `Spec => ImplementsChangeControl`.

`AtMostOnePending` is not inductive by itself: a handler about to record a
version checked several steps ago that none was pending. `IInv` adds that the
step a handler is at belongs to its operation (`PcFitsOp`), that an apply past
its gate still sees no pending row (`ApplyHoldsGate`), that a confirm past its
load holds the id and configuration of a row that is still pending
(`ConfirmHoldsVersion`), and the same of a roll back (`RollbackHoldsVersion`).
Those are true because the handlers hold `applyMu`, which is what `job` being a
single record says. The refinement needs `ConfirmHoldsVersion` at `Stamp`.

It also proves, on top of `IInv`:

- `ApplyRespectsHandEdits`: `Spec => ApplySparesHandEdits`. `HandShows`: while `hand` is
  true, the text on disk differs from `hash` (so the authorship gate refuses it), and
  no apply is past its gate.
- `FileStaysItsOwn`: `Spec => []NeverLocksItselfOut`, and `NoAlarmOfItsOwn`: `DriftSpec =>
  []NoFalseAlarm`, both for handlers of any speed. `OwnFile`: while nothing failed and
  nobody edited, the file is one birdy knows, or a handler has replaced it and
  holds the backup that is.
- `ArmsOneAtATime` (`OneArmed`), `DiskIsWhatBirdRevertsTo` (`ArmedDiskIsRevert`) and
  `SettledMeansAgreed` (`SettledAgree`), for prompt handlers. `Prompt` says what that
  gives: no handler meets an expired timer. `TimersMatch`: BIRD's timer is off, or what is
  left of the pending version's deadline. `RevertsMatch`: from the arming to the
  resolution, what BIRD would go back to is the backup.

The last three have `~SlowHandlers` as a hypothesis, and `OneArmed` has `MaxFaults = 0` too:
without the first they are false, as `second_arm` shows, and `OneArmed`, unlike the other
two, does not except states after a fault, where a lost reply may have left a timer
behind that birdy does not know of.

`RestoreProofs.tla` proves, for any contents and bounds, `RestoreTypes`,
`ReplacedIsKept` (`FileKept`), `NeverOpensHalf` (`OpensWhole`) and `RestoreIsAtomic`
(`ImplementsAtomicRestore`). Two invariants carry
them. `Kept` adds to `FileKept` that what a start is about to write over is already in
a copy. `Resumable` says of states where the promise is `Sound` that either nothing
was written and the database with its log is whole, or the staged file is whole
and still there, so that the next start can finish (`Stands`): the marker goes
only when the database is the staged file and the old log is gone. The refinement
needs it wherever the mapped database changes.

`PanelProofs.tla` has the other parts of the panel, one after the other. It proves
`AlertsFollowHealth`: `FleetSpec => []AlertsMatchHealth`, for any
sets of instances, names and operators and any number of polls at a time, from
`FleetAssumption`. It is not inductive by itself: a refresh writes and alerts from a
copy. `OneRefresh` says that only the holder of `refreshMu` asks, and `CopyIsTheRow`
that as long as it does, the copy of a row it has not done is what the row says, or the
row is gone for good (its id is not given again). `SilentAtFirst` adds that
nothing was said of an instance that was never checked, without which a
first "down" could follow a "down".

`PollerProofs.tla` proves `TimelineStaysTrue`: `PollerSpec => []TimelineIsTrue`,
`SwitchedOffIsNoAlarm`: `PollerSpec => NoAlarmForSwitchedOff`, `DropsAreReadNotGuessed`:
`PollerSpec => DropsAreReal`, and `LastWordStaysTheTimelines`: `AlertsSpec =>
[]LastWordIsTheTimelines`, from `PollerAssumption` and `AlertsAssumption`, for any peers, counts,
thresholds, destinations and queue. They are about what a poll has looked at so far, so
the invariant says what the poll's locals mean in the middle of it. `Places`: the snapshot being
built has the protocols already looked at, as the listing had them. `SwitchedIsOff`:
a session parked by the operator is off in the model too until he comes back to it, so
that `ReadDisabled`, which runs after the listing, finds it. `TimelineFollows` and
`CountsAreRead`: the last event, and the last count really read, agree with the new
snapshot where the poll has been and with the old one where it has not. For the notifier,
`LastWords`: of the events about a subject on their way to a destination the last
says what the timeline says, and if there is none the destination has heard it.

`PanelProofs.tla` further proves `SessionsFollowThePassword`: `AccessSpec =>
[]SessionsKnowThePassword`, from `AccessAssumption`. `LoginsKnowThePassword` strengthens it: a
login about to open a session has compared the password in force, or a change has
marked it late. It is true because the change and the marks are one
transaction's, and nothing else changes the hash. The module also proves `ShutOutMeansShutOut`:
`LimiterSpec => []FewComparedWhileShutOut`, for any requests, addresses and limits, from
`LimiterAssumption`. `LockoutIsOnRecord` carries it: a lockout that lasts, that is, one that
was not cut short by the two rules named above, has a locked record, so `blocked` turns
away whoever asks; `prune` and `fail` lose no other. The logins being compared are then
among `early`, which loses those that end and gains nobody.

Its last theorem is `SavesOutliveOtherForms`: `SettingsSpec => []SettingsStay`, from
`SettingsAssumption` (ids are positive: 0 stands for the row's own token). `CacheFollows`
says that until two saves meet at most one form reloads the list, and that it holds the
saved one; `RevokedStays` that a revoked token stays so; `KnownWereMade` that the
tokens a form is about to revoke exist, since one made later must not
be reported.

`CatalogProofs.tla` proves what `catalog` checks of the tables for any number of requests
in flight, ids, names and starting tables, from `CatalogAssumption`: behaviours start from
tables that have the properties themselves, the calls are ones the forms can make, and
what stands for an absent row is not a row. There are two layers.

`SafeInv` holds whatever meets. `Sound` tables have rows a form could have saved,
no dangling reference, clean sessions and no empty set. Every transaction
commits sound tables or rolls back (`Kept`): that is where foreign keys, cascades and
the columns that follow a template are. `Held` says that a request carries from step to step
rows of the right kind. It yields `RowsAlwaysFit` (`CatalogTypeOK`), `NothingDangles`
(`ReferencesResolve`) and `SessionsStayClean` (`InternalSessionsStayClean`).

`QuietInv` is about behaviours in which no write went by a stale read. `Quiet` tables
have linked peers that follow their template, except those a save is half way through, names that
resolve but for the `loose` ones, and a name for each template of its own. It is not inductive by
itself, since a handler writes what it checked before: `Sees` says that a request
nobody outran finds the tables as it checked them, and `SeesSets` the same of
the IRR loop's copies. It yields `LinkedPeersFollow`
(`LinkedPeersFollowTheirTemplate`), `NamesResolve` (`CommunityNamesResolve`),
`TemplateNamesStayOwn` (`TemplateNamesAreTheirOwn`) and `SetsStayFilled` (`SetsStayUsable`).
They assume `NoneIsNothing`: the value for a rolled back transaction or an idle request is
neither tables nor a request. TLC's model values are that by definition; an untyped
logic must be told.

`TemplateSparesPeers` is the action property `TemplateSparesWhatPeersOwn`, by going through the
transactions: those that write a template leave of each of its peers what is the peer's
own (`Spares`), the others write no template.

`ConfigProofs.tla` is about the file rendered of given tables. `FileLoads`: if
the tables are `Orderly`, and the renderer refuses them neither before it writes nor in
`checkSymbols`, no symbol is declared twice, and every name that is used without
being declared before is named by the lint in red. `Orderly` is what the rendering rests
on: finitely many rows, of their kinds, chains and sets that exist, and the bogon sets in
place. The argument goes through the file as it is written. `Mentions` bounds the names
a filter uses, statement by statement, for each rule of a policy and each line of a
session; they are the sets, tables and communities of the catalog (`BaseNames`), those
lost (`LostNames`), and the functions of policies. `FileHead` is all
that comes before the policies: it declares the base names and uses none of later sections.
Then policies, templates and peers follow (`PoliciesSay`, `TemplatesSay`, `PeersSay`), each
using what was declared before it. `OnlyOnce`: `checkSymbols` does find whatever is declared
twice, over sections or within one. `LostAreReported`: of each lost name there is a finding,
and folding by template does not lose it.

`CatalogProofs.tla` extends it and proves `ConfigAlwaysLoads`: `Spec => ConfigLoads`, for any
number of requests in flight. `Sound` tables are `Orderly`; that needs of the starting tables
(`Stored`) that they are finite, as a database is, and that no bogon set is switched off,
which no handler does either (`SetPrefixSetDisabled` excepts them); and of the names that there are finitely
many of them, since one has 63 characters at most. The theorem needs no condition on meeting
requests: references survive them by the foreign keys, names by the renderer's own check.

`RoutesProofs.tla` proves `VetoesAlwaysHold`: `RoutesSpec => []VetoesHold`, `AlwaysByPermission`:
`RoutesSpec => []AnnouncedByPermission`, and `LintIsAlwaysRight`: `RoutesSpec => []LintIsRight`, for
any catalogs, chains, policies and routes and any number of internal hops, from
`RoutesAssumption`: catalogs are as the forms leave them (the shape of a peer is what `validateShape`
returns, peers have names of their own, chains name policies of their direction, an internal
session is not drained), and routes are whole. The argument goes from one statement
to the network:

- What `Run` does needs an induction over the statements, and the library's induction
  theorems are out of reach. `UpTo` (in `ConfigProofs`) takes their place: a set that holds 0 and, with each
  number below n, the next one, holds all numbers up to n. From it
  `RunConcat` and `RunChain`: running filters one after the other is running their
  concatenation. And `RunStory`: a run that comes out open was let past by every statement on
  some route it may have been at; one that does not was stopped by one of them.
- The routes a run may be at are those that differ from the first only in known marks, in
  preference, and where a session prepends in the path (`Near`, `Kin`). The lemmas on the
  rules of a policy say which statements its function has. So `ImportBody` and
  `ImportChain`: an import chain lets a route through only if no policy objects to it, or as
  a discard. `ImportRouteIs` and `ExportRouteIs` put the session's head before them, whose
  scrubbing leaves of our own large communities nothing.
- `RoutesInv`, the inductive invariant. The properties compare with `sent`, the filters test
  `route`, and an internal hop rewrites `route` again: the invariant says that the communities of
  `route` are `Known` (what its sender may say, what the session gave, what a ROA
  contradicts), that `route` is as the session of entry took it in (`TookIn`, which mentions the
  preference, since internal policies may set it), and for which policy it was
  announced (`SentTo`).
- For the lint, `FindingsSay` and `ReportSays` lead from a finding in the report to the
  columns it was made from. These contradict `TookIn`.

Two statements were corrected on the way, since they failed for catalogs that no network
of the run had, and the run has them now: a session that itself adds BLACKHOLE on import
asks for a discard no sender asked for, and a session's communities on export may be
what its own policy permits. Both do as the operator set them.

`ChangesProofs.tla` proves `PageIsFaithful`: `ChangesSpec => []DiffIsFaithful`, for any texts,
layouts, passwords and contexts, from `ChangesAssumption`: texts are sequences of tokens, a layout
has a section, since the header always is one, and a context is a number. Nothing is
assumed of bodies: they may be empty, or not end in a line end. The state of the page
hardly matters, and all is in the operators. For the recursive functions, `StepsExist` builds
the function that goes on by given steps, so that what they define is what they say.

- The script walks over both texts (`ScriptWalks`): each edit takes the next line of the one,
  of the other, or the same line of both, and the last leaves none (`Walk`, `Steps`).
- `Cuts`: the hunks are pieces of the script, in its order and apart, and no change is outside
  of them. `PatchIs` goes from hunk to hunk and says how far the patch is after
  each (`Here`); between hunks both texts run together. If there is no hunk no edit is a change,
  and the texts have the same lines; the converse takes that two equal lines are never a change.
- As few changes as possible: no alignment has more pairs than the table of lengths says,
  by induction on the lines left, and the script keeps as many lines as the table says.
  So `ShortestIs`.
- Counts: the lines of a section are the script's at certain places, in order (`Sifted`), and each
  edit has one owner (`OwnersAre`); so the sections share the changes out, and their counts add
  up (`TotalsAre`).
- Status: the section that a line belongs to does not decrease with the line (`LineOfGrows`), so the
  lines of a section are one interval of the candidate. If none of its edits is a change,
  the walk takes that interval together with an interval of the text on disk
  (`UnchangedStands`): a deletion in between would have been charged to it. If all of them are
  additions their number is the section's length (`AllInserted`).
- Masking goes token by token, so it commutes with joining the sections (`MaskedLogical`): a
  candidate in sync shows nothing.

The theorems about `AccessSpec`, `ChangesSpec`, `FleetSpec`, `LimiterSpec`, `RoutesSpec` and
`SettingsSpec` are about the parts on their own; `panel` runs the same next-state relations.

Only model-checked is liveness (`PendingIsResolved`, `StandingDriftIsReported`, `StagedIsApplied`,
`OutageIsHeard`, `BirdOutageIsHeard`): the provers know neither fairness nor `ENABLED`. The
properties of the violating runs (`HandEditsSurvive`, `ConfirmedIsRunning`, `AlwaysOpensWhole`,
`ContentKept` and `OneArmed` with slow handlers) are false, and have no proof.

## 6. Not modelled

What `PROJECT.json` lists as `not_modelled` or `partly`, with the reason. In the parts
that are modelled, this is left out:

- the text of the configuration: timers, BFD options, channel options that filter
  nothing, comments, layout. A filter is its statements, a section its symbols.
- which of several sets that originate one prefix the lint's anchor finding names (the code:
  the last by its name; `LintAnchors`: some one of them).
- the lint's finding about link-local addresses and interfaces; a folded finding
  names all its peers, where the page stops at five.
- BIRD's own treatment of a discarded route past the router that discards it (the flag
  stays on the route in `Routes`); communities written as literals, which are never
  dangling; best-path selection, next hops, and withdrawals.
- the reads of one kind in a handler are one step; a `GET` that shows a form is
  part of the save that follows.
- the login's limiter and its sessions are checked apart: the one reads only
  whether the password matched, which the other leaves open.
- `handleChanges` reads the disk twice, once for the hash and once for the text;
  `Changes` reads it once.
- the instance a browser looks at, groups and tags, dashboards and timelines
  fetched from other instances; names in the text of an alert.
- what an access list is; the trial run of BIRD on a raw block; themes, the origin
  check, cookies' attributes.
- the framing and the retry of show queries; nightly snapshots, their pruning, and
  names of snapshots and backups, which have a resolution of a second;
  `birdy init` (it creates the account before it looks at `-router-id`, `cmd/birdy/init.go:61`, so
  a bad one leaves half an initialization that a second run refuses to finish);
  migration steps; the update check.

Four things met on the way that contradict a comment and that no run demonstrates.
`handleSettingsIdentity` and `handleLocalInstanceRename` write the whole copy back but for
two columns, so a raw configuration, an update channel or a revoked token saved in between
is undone, though `store/settings.go:262` says the forms cannot clobber each other
(`Settings` has it; `SettingsStay` is about the columns that are safe). And `render/diff.go:29`
says an empty result means the texts are identical: they may differ by CRLF or the last
line end (`DiffIsFaithful` says that the lines agree). `web/access.go:21` gives `lockout`
as "how long a locked-out IP stays out": less, where lines 45 to 52 evict its record or lines
71 to 74 replace it (`CutShort` in `Limiter`). And `store/peer_templates.go:245` says that a linked peer
cannot drift from its template: two forms that both read before either writes can part them
(`LinkedPeersFollowTheirTemplate` excepts writes that went by a stale read).
