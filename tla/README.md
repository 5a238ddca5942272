# Plamenix web edition: specifications

TLA+ specifications of the Plamenix web edition (`src/packages`): a React page
(`client`), a Fastify server (`server`) and a native module (`native`) that
holds the Firebird driver, the metadata database and the WASM plugin host. The
modules model what runs concurrently, fails half way or has to agree across two
places; TLC checks small instances and TLAPS proves the safety properties of all
modules for every instance. File names below are relative to
`src/packages`.

## 1. The system

| Component | State | Operations | Talks to |
|---|---|---|---|
| Session store and reaper (`server/src/sessions/store.ts`, `app.ts`) | a map from session id to `lastUsedAt` | register, touch (hook on every request), drop, idle sweep on a timer | native driver (connect, close), push channel (`session/expired`) |
| Session routes (`routes/connect.ts`, `execute.ts`) | none | connect, execute and the other routes that name a session, close | store, native driver, history |
| Profiles (`profiles/store.ts`, `routes/profiles.ts`) | `profiles.json` and `profiles.json.tmp` | list, save, touch, touchDisconnected, delete, each a read-modify-write of the whole file | file system |
| Plugin grants (`plugins/grants.ts`, `routes/plugins.ts`, `plugins/host.ts`) | rows of `PLUGIN_GRANTS` (the authority), the `granted` set of the native registry entry (the runtime) | grant, revoke, reload, uninstall, boot replay | metadata database, native host |
| Plugin host (`native/src/plugins.rs`) | staging registry, live instances, event bus, interceptor chains, one session slot per entry | load, activate, deactivate, reload, emitEvent, runInterceptors | WASM plugins |
| Security gate and limiter (`security/*.ts`) | tokens, a map of rate windows | check of every request (Host, Origin, path, token, quota), sweep on a timer | all routes |
| Plugin host services (`native/src/services.rs`) | none: the session slot decides | statements, begin, commit and rollback for a plugin | driver |
| Push channel (`server/src/events/channel.ts`, `client/src/events/channel.ts`) | the server's set of sockets; the page's socket, timer, attempt | upgrade, broadcast, reconnect with backoff, dispose | gate, event bus |
| Transactions (`routes/transaction.ts`, `native/src/db.rs`) | per-session mode and open transaction in the driver | set mode, begin, commit, rollback, status | driver |
| Page (`client/src/App.tsx`) | tabs with their session, results, busy flag; prompts of interceptors | execute, connect, disconnect, transaction control | all routes |
| History (`history/store.ts`, `native/src/meta.rs`) | rows in the metadata database | record with a trim, list, label, delete, clear | metadata database |
| Export (`routes/export.ts`, `db.rs`) | rows left of the budget, the socket's buffer | statements up to a row budget, the text in chunks | driver, page |

What makes it hard. JavaScript turns run to the next `await`, and at an `await`
any other request, timer or completion may run; nothing takes a lock. The native
exports run on a thread pool and interleave between any two registries. Timers
discard the promise of their previous firing. The process may die between two
writes. Connections are lost and each end notices on its own.

What correctness means, per component:

* sessions: no attachment is left that nobody will close; an acknowledged close
  is final; a session never disappears without its client being told; idle
  sessions are released; use prevents expiry;
* profiles: a reader always sees one complete list; what was saved stays; a
  stamp does not resurrect a deleted profile;
* grants: the runtime does not exceed the authority; a restart reconciles them; an
  uninstalled plugin leaves nothing behind;
* plugin host: what the bus lists can be called, what is instantiated is loaded,
  and plugin code sees only the session it is called for;
* gate and limiter: each operator and each address gets its quota and no more, is
  refused for its own requests only, and is let through after the wait it was
  told;
* push channel: one connection, events in order and once, reconnection by
  itself, silence after disposal and after a final refusal;
* transactions and page: results belong to the connection they are shown under,
  uncommitted work is asked about before it is rolled back, the busy flag is
  cleared, and no attachment is lost to the page;
* history: the retention cap keeps the newest rows, and the panel shows what the
  database has;
* export: a file is the first rows of its statements with every byte in order, a
  slow page costs the server no more than a buffer, and an export ends.

## 2. The modules

| Module | Models | Composition |
|---|---|---|
| `Sessions` | session store, reaper, session routes, driver calls | `MCSessions`, `StoresProofs` extend it |
| `ProfileStore` | profile operations at the grain of file-system calls | `MCProfileStore`, `StoresProofs` |
| `PluginGrants` | authority and runtime cache of one plugin, boot, crash | `MCPluginGrants`, `PluginGrantsProofs` |
| `PluginHost` | registries, instance and session slot of one plugin | `MCPluginHost`, `PluginHostProofs` |
| `Quota` | what the limiter promises each key (abstract) | instantiated by `RateLimiter` |
| `RateLimiter` | the window map, `check`, `sweep` | implements `Quota`; `Gate`, `GateProofs` |
| `Gate` | the `onRequest` hook, in front of the limiter | extends `RateLimiter`; `MCGate`, `GateProofs` |
| `PushChannel` | both ends of the push channel, gate included | `MCPushChannel`, `PushChannelProofs` |
| `ClientTab` | one tab of the page, its session's transaction in the driver, plugins that use it | `MCClientTab`, `ClientTabProofs` |
| `History` | history rows, their records and trims, the history panel | `MCHistory`, `HistoryProofs` |
| `Export` | the export route, the native row budget, the socket to the page | `MCExport`, `ExportProofs` |

Each `MC` module adds the symmetry sets and each `.cfg` the values. A definition
called *Mutant* in a comment is not part of its specification: it is the
plausible mistake that a property has been seen to catch.

**Sessions.** `store` is the key set of `SessionStore.sessions` and `idleTicks`
the time since `lastUsedAt`, which is all `idleFor` compares. `attachment` is the
driver's own registry. `call[a]` is the native promise that request or sweep `a`
awaits: `Connect`, `Use`, `Close` are the handlers up to their `await`,
`DriverConnects` and `DriverCloses` the effect inside the driver, and
`ConnectReturns`, `UseReturns`, `CloseReturns` what follows the `await`. A sweep
is `SweepStarts` and then `SweepResumes` per close, both running the body of the
`for` loop, `SweepContinues`. `Touch` is the `preHandler` hook. Histories record
which sessions were acknowledged, announced, or abandoned by a failed close.

**ProfileStore.** A name leads to an inode, so two writers that share
`profiles.json.tmp` can tear each other's text. `Read` is `list()` with the
computation that follows it, `OpenTmp`, `WriteTmp` and `Rename` are
`writeAtomic`. `Crash` ends every operation and keeps the files. Of a profile
only the three stamps are kept. Names that `Sessions` has too carry a prefix
(`ProfilesSpec`, `TouchConnected`), as `StoresProofs` extends both modules.

**PluginGrants.** One plugin and its declared capabilities. A task's `step` names
the call it is about to make, so any two requests interleave between the
authority and the runtime. Boot and reload share the replay actions: both list
the authority and push one permission at a time, and differ in what a failure
does. The native binding may fail too. Each push of a permission (`Pushes`) is
accepted or refused, as `Permission::parse` may; a replay logs and skips what is
refused. A deactivation that cannot remove the instance keeps the entry: the
routes report it, boot's `safelyDeactivate` logs it, and an uninstall logs it and
goes on to purge the authority of a plugin whose entry stays. Three histories tell
these cases apart: `skipped` (what this entry's registry has refused), `survived`
(this entry outlived its own uninstall) and `regranted` (grants were stored for an
entry that had).

**PluginHost.** An entry stands for one load and owns one session slot;
`instance` is the entry whose slot the live instance was given. Each step of a
task touches one registry, in the order the function touches them;
`ReleaseOrder` is that of `deactivate_plugin`. A manifest may name no events or
interceptors and refused ones are ignored, so `Subscribes` and `Joins` may change
nothing; chains that will not release a plugin are logged (`Leaves`, kept in the
history `unreleased`), and an instance that cannot be removed ends the
deactivation, and a reload, with the entry kept (`Drops`). `EventRoute` is the route that
emits the page's events, which drops a session the store does not know. The
external crate is modelled from its use: an instance runs one export at a time
and a newer instance replaces an older one.

**RateLimiter** keeps the code's arithmetic. **Quota** has no map to sweep and
no counts beyond the maximum: `used[k]` and `closesAt[k]`. The refinement mapping
forgets expired windows and caps counts.

**Gate.** The hook runs to completion in one turn, so `onRequest(r)` is one
action with the ways out of it in their order: Host and Origin, a path that is
nobody's secret, the token, the limiter. Of a request the model keeps what these
checks read. `KeyOf` is what the limiter is asked for, `Caller` who an operator
would say has sent the request; that the two agree is what `OwnBudgetOnly` is
about. `actorFor` does not stop at the first match, so of two names with one
token the last counts. `retryAt` and `admitted` are histories: until when a
caller was told to wait, and which of its requests got through in the last window.

**PushChannel.** `link[c]` is what has become of connection `c`, `frames[c]` what
is under way on it. A connection that has ended (`ended`), by itself or because
the disposer closed it, still owes the page a close event, which `OnClose`
delivers at any later time. The page's half follows `connectEventChannel` handler by
handler; the server's is the gate's token check, the route, `EventChannel` and
restarts, after which a generated token is another one.

**ClientTab.** The fields `sessionId`, `busy`, `txStatus` and `results` are
those of `TabState`; of the results the model keeps which database they were
read from, of a transaction whether it is open and whether it holds a statement.
A handler of `App.tsx` is an action up to its `await` (named after it) and one
after it (`...Returns`); between them the request takes effect in the driver
(`Attaches`, `Executes`, `Closes` and the transaction routes) or fails, and an
answer may be lost after its effect. No handler waits for another and none reads
the busy flag, so any two overlap. `connect` and the status refresher are hooks
of `@plamenix/ui`, which the repository does not contain: they are modelled by
what `App.tsx` passes to them and expects of them. `PluginCalls` is a plugin
that works on a session through `services.rs`: it executes statements, begins,
commits or rolls back in the same transaction as the page, which is not told.
The handlers of profiles are there for the busy flag, which they share with the
others. The page makes no promise about handlers that outlive the session they
started in; which of them did is kept in histories that the properties name:
`overlapped` (a handler started, or a plugin called, while a handler was
running), `outlived` (a statement, or a second connect, was running when the tab
left its session), `stranded` (the interceptors let a statement go after the tab
had left), `unseen` (a session has work from a plugin, or from a statement that
is followed by no status request, or whose status was lost) and `leaked` (nobody
could close the session any more: only the reaper will).

**History.** `record[n]` is one fire-and-forget call of the execute route; records
are numbered in the order of the `executedAt` they were given, which no two
share, and are inserted in any order. The statements of `plamenix-meta` are
external and atomic. A request of the panel is an action that sends it, the
statement, and `Returns`, which updates `historyEntries`. Of a row only its label
is kept, and of a label whether spaces are all it has. `untrimmed`, `pruned` and
`astray` are histories: profiles whose last trim failed or was not wanted,
profiles the user removed rows of, and whether requests overlapped whose answers
cannot be taken in any order.

**Export.** One export. The native call runs one statement per step, as the
reaper may close the session between two; `Taken` is what is kept of a statement's
rows, whether its text took the limit or the answer is truncated. The text is
known by its size, and a byte by its position in it, so that a byte lost, doubled
or out of order shows in `file`. `Writes` is one turn of the route's loop: a slice
into the socket, and a pause if `write` says that the buffer is at its mark.
`Drains` and `Delivers` are Node's socket and the network (external); a page that
is gone takes its connection with it, and what is written then gets nowhere.

## 3. The runs

| Run | Instance | Shows |
|---|---|---|
| `SessionsLifecycle` | 2 sessions, 2 requests, 2 sweeps, idle limit 1 | `NoOrphanAttachment`, `AcknowledgedCloseIsFinal`, `NoSilentExpiry`; under fairness `ExpiryIsAnnounced`, `UnusedSessionIsReleased` |
| `SessionsLongStatement` | 1 session, 1 request, 1 sweep | violates `KeptAliveWhileUsed` |
| `ProfilesOneWriter` | 2 profiles, 1 writer, crashes | `PublishedIsWhole`, `SavedIsListed` |
| `ProfilesResurrected` | 1 profile, 2 writers | violates `TouchIsNoopWhenUnknown` |
| `GrantsReplay` | 2 permissions, 2 requests, boot, crashes | `WithinAuthorityInTurn`, `ReplayedInSync`, `CleanReinstall` |
| `GateQuota` | 2 operators at 1 address, 3 tokens, maximum 2, window 3, second 2, 6 ticks, 4 requests | `OwnBudgetOnly`, `RetryAfterIsEnough`, the refinement `KeepsQuota`; under fairness `MapDrains` |
| `PushReconnects` | 2 connections, 2 tokens, 2 events, 2 failures, 1 restart | `OneConnection`, `DisposedIsQuiet`, `EventsInOrder`; under fairness `Reattaches` |
| `PushRefused` | the same without events and failures | violates `RefusedTokenIsNotRetried` |
| `HostLifecycle` | 2 calls, 2 sessions, 3 entries | `RegistriesAgree`, `NothingLeftInSlot`, `NoForeignSessionInTurn` |
| `TabLifecycle` | 2 sessions, 2 databases, 2 handlers, plugins | `ResultsAreOfConnection`, `BusyEnds`, `AttachmentIsHeld`, `DiscardIsAsked` |
| `HistoryPanel` | 2 profiles, 2 records, 2 requests, cap 1 | `RetentionHolds`, `NewestAreKept`, `PanelAgrees` |
| `ExportFile` | 3 statements of up to 3 rows, budget 3, rows of 3 bytes, chunks of 2, mark at 3 | `ExportIsFirstRows`, `SocketBufferBounded`; under fairness `ExportEnds` |

Every pass run also checks the module's `TypeOK` (`GateTypeOK`).

The three violations are disagreements between the code and what its comments
say of it:

1. *A session in use can expire.* The hook at `app.ts:125` moves `lastUsedAt`
   when a request starts. A statement that outlives `SESSION_IDLE_MS` has its
   session dropped and closed under it.
2. *A stamp resurrects a profile.* `touch` reads the list, awaits, and writes it
   back; a delete that completes in between is undone. The connect route does
   not await its `touch`, so a single client can produce this.
3. *A refused page retries for ever.* The client stops on close code 1008, which
   the route would send; but the gate answers 401 first, and the browser reports
   1006.

Further weaknesses are written into the conditions of properties that hold:

* Grant and revoke write the authority and then the runtime; interleaved, they
  can leave the runtime with a revoked capability until the next restart
  (`RuntimeWithinAuthority` is what would have to hold, `WithinAuthorityInTurn`
  what does).
* An uninstall tolerates a deactivation that fails. The entry stays with its
  grants after they were purged (`survived`), and the grant route, which asks
  only whether there is an entry, stores new ones for a plugin whose bundle is
  gone; they are there when it is installed again (`regranted`).
* An interceptor chain that refuses to release a plugin lists it after its
  instance is gone (`unreleased`), which `deactivate_plugin` logs.
* Two deliveries share a plugin's one session slot, so that one of them can find
  the other's session in it (`NoForeignSession` would have to hold,
  `NoForeignSessionInTurn` does).
* The results of a statement are shown even if the tab has moved to another
  session by the time it settles, against the comment at
  `client/src/App.tsx:565` (`outlived`), and a statement that interceptors
  release after that leaves the tab busy (`stranded`).
* What a plugin does in the user's transaction does not reach the page, whose
  question before it throws work away is asked of the status it shows (`unseen`).
* The export route waits for a drain event only, which does not come from a page
  that is gone; `ExportEnds` is a promise to pages that stay.
* Only requests for public paths are counted under their address; a request that
  is answered 401 is not counted, although the comment at `security/gate.ts:210`
  says that unauthenticated requests are bounded per source.

**Bounds and why they are enough.** Every hazard listed for a component involves
two actors (two requests, two sweeps, a request and a sweep, two keys, the
connection before last and the current one); each pass run has two of each,
except `ProfilesOneWriter`, whose properties are about one operation at a time
(with two, the shared temporary file gives no guarantee that the code claims).
Idle time saturates at the limit and retry attempts at the delay's ceiling,
which loses nothing, as both are only compared. Registry entries and connection
ids are reused once nothing refers to them, so that loads and reconnections are
unbounded; the third entry is the one an overlapping activation still holds.
`MaxTime` in `Gate` is two windows, so that a window opens at any tick, expires
unswept and is followed by another, with requests enough to fill one window and
open a second for another caller; `Check` stops one window before the end so
that every window can close. A second is two ticks and a window three, so that
windows are no whole number of seconds and rounding counts. `MaxTime` in
`ProfileStore` allows two saves. Where a property is proved (section 4), it holds
for all values of the bounds. Session ids of `ClientTab` are reused once closed
and forgotten, so its two sessions stand for any number. Its run uses a view that
forgets, once handlers have overlapped, what the tab shows of the transaction,
what the user was asked on the strength of it, `unseen` and `leaked`, and, once
a statement has outlived its session, the results: no guard reads any of them,
and the properties that do are, but for the types, conditional on the opposite.
`MaxRecords` of `History` is two, with a cap of one, so that every record has to
trim and two trims can meet; the panel asks for as many rows as there can be, so
that removals of several happen. The sizes of `Export` are chosen so that a
chunk splits a row, the buffer fills before a text ends, the budget runs out in
the middle of a statement or exactly at its end, and statements are left over.
`MaxEvents`, `MaxFailures` and `MaxRestarts` bound the environment of the push
channel only.

**Fairness.** `Sessions`: time passes, the interval fires, a native call settles
and a settled promise resumes its handler (weak fairness of `Tick`,
`SweepStarts`, `SweepResumes`, the driver and the continuations); a client owes
nothing. A statement is assumed to end. `Gate`: the clock and the interval
(`Clock`, `Sweeper`); nobody has to send a request. `Export`: a statement ends
or fails, the handler resumes when it can, and the socket moves bytes while
there is a page (`Server`, `Network`); the page owes nothing and may leave.
`PushChannel`: the browser runs timers and reports the fate of a socket, and an
upgrade that reaches the server is answered; the network may fail `MaxFailures`
times, and `Reattaches` is conditional on the server being up, the token current
and the page not disposed from some time on. Deadlock is disabled only where the
system may stop: when the limiter's clock has reached its bound, when the page
has been disposed and nothing is left to happen, and when the one export has
been answered.

## 4. What is proved

Every theorem is for arbitrary sets and bounds, from the `ASSUME` of its module:
that different kinds of actors differ, that a value which stands for nothing is no
member of the set it is absent from, that there is a profile to name, which bounds
are positive and, of the gate, that names of operators differ from each other and
from addresses, as `resolveTokens` checks. TLC found each inductive invariant to hold on an instance
before it was proved.

| Module | Theorems (properties of the runs in brackets) |
|---|---|
| `StoresProofs` | of `Sessions`: `TypeCorrect` (`TypeOK`), `NoOrphan` (`NoOrphanAttachment`), `AcknowledgedClose` (`AcknowledgedCloseIsFinal`), `NoSilentRemoval` (`NoSilentExpiry`), `LostForGood`; of `ProfileStore`: `ProfilesTyped` (`ProfilesTypeOK`), `ProfilesWhole` (`PublishedIsWhole`), `ProfilesKept` (`SavedIsListed`), `ProfilesNotLost`, `ProfilesOneWriter` |
| `PluginGrantsProofs` | `TypeCorrect` (`TypeOK`), `WithinAuthority` (`WithinAuthorityInTurn`), `ReplayIsExact` (`ReplayedInSync`), `ReinstallIsClean` (`CleanReinstall`) |
| `PluginHostProofs` | `TypeCorrect` (`TypeOK`), `RegistriesAgreeInTurn` (`RegistriesAgree`), `SlotIsEmptied` (`NothingLeftInSlot`), `ShownOwnSessionInTurn` (`NoForeignSessionInTurn`) |
| `GateProofs` | `TypeCorrect` (of `RateLimiter`), `ImplementsQuota` and `GateImplementsQuota` (`KeepsQuota`), `RetryAfterSuffices` (`RetryAfterIsEnough`), `OnlyOwnBudget` (`OwnBudgetOnly`), `GateTypesCorrect` (`GateTypeOK`) |
| `PushChannelProofs` | `TypeCorrect` (`TypeOK`), `PageHoldsOneConnection` (`OneConnection`), `DisposerEndsTheChannel` (`DisposedIsQuiet`), `BusSeesEventsInOrder` (`EventsInOrder`) |
| `ClientTabProofs` | `TypeCorrect` (`TypeOK`), `ResultsAreRead` (`ResultsAreOfConnection`), `ControlsComeBack` (`BusyEnds`), `AttachmentsAreHeld` (`AttachmentIsHeld`), `WorkIsAskedAbout` (`DiscardIsAsked`) |
| `HistoryProofs` | `TypeCorrect` (`TypeOK`), `CapIsKept` (`RetentionHolds`), `CapKeepsNewest` (`NewestAreKept`), `PanelAgreement` (`PanelAgrees`) |
| `ExportProofs` | `TypeCorrect` (`TypeOK`), `FileIsFirstRows` (`ExportIsFirstRows`), `BufferBounded` (`SocketBufferBounded`) |

**Sessions.** None of the three safety invariants is inductive as it stands.
`NoOrphanAttachment` and `AcknowledgedCloseIsFinal` would break if a record could
be made for a session that somebody has already closed; that it cannot rests on
ids being handed out once (`FreshInv`) and on the connect handler being the only
one that knows an id before it is registered (`ConnectInv`). `CallInv` says what
an actor may be awaiting and that a close that settled `ok` has closed;
`SweepInv` that a sweep still has to announce everything it still has to close.
`TypedInv` (the types and `CallInv`) is proved inductive first, with a lemma for
the loop body that `SweepStarts` and `SweepResumes` share; `InvStep` then has a
step for each action and under it one for each conjunct the action can disturb.
`LostForGood` says that what `NoSilentExpiry` leaves behind is final: an id that a
client knows and that has no record never gets one again.

**ProfileStore.** The types hold however operations overlap; the promises do not,
and the theorems say how much must not overlap for each. `ProfilesWhole` assumes
`[]PublishesOneAtATime`: no two operations are between the open of
`profiles.json.tmp` and its rename. `FilesInv` then says that what is about to be
renamed is the text of its own writer, complete; a file that a crash left behind
is truncated before it is used. `ProfilesKept` and `ProfilesNotLost` assume
`[]OperationsOneAtATime`, as what one operation has read must still be the
published list when it writes. The code enforces neither assumption. `ListsInv` says so
(`Carries`): the list about to be published has all that was saved and differs
from the published one in the operation's own profile only, which a stamp found
there; `UpdatedType` is what the four computations contribute to it. So a lock
around `writeAtomic` would save the file, and only one around the whole operation
would save the updates. Both hypotheses are trivially true of one writer
(`ProfilesOneWriter`), which is the instance the run checks; with several they
admit every behaviour in which the operations take turns. TLC checked `FilesInv`
and `ListsInv` on two writers whose steps keep them.

**PluginGrants.** `TaskInv` says which step of which call a task may be at.
`BootInv` is unconditional: boot runs alone, and what it has replayed into a new
entry, what the registry refused and what is left to replay account for the
authority (`Covers`), so that after it authority and runtime agree until a request
begins. `PushAccounts` is one push of a replay or a grant, whatever the registry
answers. `TurnInv` holds as long as requests take turns: it describes, step by
step, what the one running request has already written to which side (`DoneBy`),
from which `WithinAuthorityInTurn` follows at the steps in between, not only at
the ends; `Settled` is what holds between requests. `BundleInv` says that an entry
without a bundle is one that outlived its uninstall, and that a plugin without a
bundle has no grants unless they were given to such an entry: an uninstall that is
about to remove the bundle has purged them (`DoneBy`), and the grant route stores
grants only where there is an entry. Of a surviving entry nothing else is claimed.

**PluginHost.** `NothingLeftInSlot` is inductive by itself given the types: an
entry is put into the registry with an empty slot, and every step of `emit_event`
that may leave something in it is followed by one that clears it. `RegistryInv`
(while lifecycle calls take turns) says of each step of a lifecycle call what it
has already taken out of, or put into, the three registries (`DoneBy`), so the
order of `ReleaseOrder` is what the proof hangs on; that nothing is promised of
the lists of a plugin that is loaded lets deactivations stop half way. `SlotInv` (while calls into
the plugin take turns too) says that the slot holds the session of the one event
under way or none.

**Gate and limiter.** `WindowInv` adds to the types that no window starts in the
future, without which an expired window could become live again and `Quota`
would have forgotten it. `RefinesCheck` splits on whether the key's window is
live and below its maximum and maps to `Serve` or `Refuse`; `RefinesSweep` is a
stutter; `RefinesTick` closes exactly the windows whose time is up.
`GateUsesLimiter` shows that every step of the gate is a step of `RateLimiter` or
leaves it alone; the point is that what is counted is counted under a key of the
limiter (`KeyIsCaller`), for which the last matching name of a token list has to
exist (`LargestElement`, from well-foundedness). `GateImplementsQuota` follows
from it and `ImplementsQuota`. `RetryInv` says that no wait that was answered
ends before the live window of its caller; `CeilingCovers` is the arithmetic of
rounding up. `OwnInv` relates the count of a live window to the requests that got
through: up to the maximum, each stands for one of its own key that is still
remembered, because the clock forgets only what is older than a window
(`ClockForgetsTheOld`). `GateTypesCorrect` needs `OwnInv` for the histories, and
that the last window closes before the clock stops, for the longest wait.

**PushChannel.** `ConnectionInv` is that until the disposer runs the page knows
of no connection but its current socket, because it opens another only after the
close event of the last (`OneKnown`); that after it none is live and no timer is
set, though a close event may still be to come; that a timer is set only when
there is no socket, and that nothing is under way on a connection that ended; `OrderInv` that what has been received, followed by
what is under way on any one connection, rises and was sent. The first is what
makes the second inductive: what is received must not overtake events that are
under way on another connection, and there is no other.

**ClientTab.** Four layers. `TaskInv` is the types and the form of each handler.
`BusyInv` names, for a busy tab, the handler that will reset the flag.
`ResultsInv` (unless `outlived`) ties the results, and each running statement, to
the tab's session. `TurnInv` (unless `overlapped`) says that at most one handler
runs, what it knows at its step (`Alone`), that every attachment is the tab's,
its own or given up, and that work in the transaction is shown or about to be
(`WorkIsShown`). Each action has a lemma with what it does to the fields of the
tab and its handler (`...Facts`); `TurnPasses` reduces the layer to the one
handler. `WorkIsAskedAbout` is an action property and follows from the clause of
`Alone` about closes that were sent.

**History.** `FormInv` adds to the types that a record that is about to be
inserted has not been. `RetentionHolds` is then inductive by itself; its proof
needs that what trimming leaves is no more than the cap (`NewestBounded`), by
taking the smallest of the newest. `NewestAreKept` is not: that a row is missing
would not be noticed until the profile settles. `KeptInv` says at every step that
the newest of all that was ever stored are there; together with the bound it
gives equality (`KeptIsNewest`, which needs `NewestFull`: where one row is not
among the newest, they are as many as the cap). `AgreeInv` (unless `astray`) is
`PanelAgrees` with requests in flight: each row of the panel agrees with the
database, is superseded, or awaits the answer that will put it right (`Awaited`);
lists that are on their way agree (`ListsAgree`); labels that were acknowledged
are stored (`LabelsStored`); and conflicting requests do not fly together
(`FlightsApart`), without which the last two would not survive a step.
`RecordsKeepRows` says what records behind the panel's back can do to its rows.

**Export.** `BudgetInv` says that what is left of the budget and what was
exported make `MaxRows`, that nothing was cut while some is left, and that the
native call ends early only when none is; `TakenIsLesser` is one statement's
share of it. `SocketInv` says that page and socket hold consecutive bytes
(`InOrder`) which, as long as there is a page, are all that was written, and that
the route writes only to a socket below its mark, which the bound itself would
not carry through a step. `SizeInv` bounds parts, rows and bytes; `ProductGrows`
is the arithmetic that turns counts of parts and rows into sizes of text.

**Only model-checked.** Every liveness property (`ExpiryIsAnnounced`,
`UnusedSessionIsReleased`, `MapDrains`, `Reattaches`, `ExportEnds`): fairness and
ENABLED are beyond the prover. That the three findings are reachable is shown by
the counterexamples of their runs.

## 5. Not modelled

* Of transactions the begin route and the mode change without a configuration,
  which the page never calls; of the page everything that patches neither a tab's
  session, results, busy flag and status nor the history panel (dialogs, schema
  actions, the schema tree, recent queries in local storage).
* `install` (a stub that answers 501), `set_call_context` and
  `clear_call_context` (no caller), read-only views, icons and `ui.mjs`; of the
  plugin services `net_fetch`, which answers that it is not supported,
  the description of the schema, which changes nothing, and the conversion of
  cells.
* The parsing of headers, tokens and frames, and the formats of an export:
  functions of one string without state.
* The driver, the metadata engine and `plamenix_plugin_host` are not in the
  repository; their calls are modelled by how the code uses them. Plugin crash
  budgets live in that crate.
* The audit log: append-only, read by nobody.
* Bootstrap, environment, the static page: configuration and plain I/O.
* A wall clock that steps back.

## 6. Plan

Done, in the order of importance to a user's data: `Sessions`, `ProfileStore`,
`PluginGrants`, `RateLimiter` with `Quota`, `PushChannel`, `PluginHost`,
`ClientTab`, `History`, `Gate` and `Export`, the plugins in `ClientTab`, and the
proofs of all of them.

Next: `ClientTab` composed with the reaper of `Sessions` and with the expiry
pushed through `PushChannel`, in place of `Expires`.

## 7. Running

    tlc -workers 2 -config SessionsLifecycle.cfg MCSessions.tla
    tlapm StoresProofs.tla

`FairSpec` adds the fairness above to `Spec`; runs without liveness use `Spec`.

`PROJECT.json` lists every run with its properties, the mutant each property
catches, the source lines behind each definition, the hazards and the findings.
