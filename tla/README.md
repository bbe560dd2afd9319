# go-webserver-template in TLA+

Models, model-checking runs and proofs about the server in this repository: a
Go web server with a router and middlewares, an SQLite database, a cache, a
mailer, notifications, metrics, and a shutdown that has to bring all of them to
an end. Every definition is translated from the source; `PROJECT.json` maps each
to the lines it stands for.

## 1. Inventory

| Component (source) | State it keeps | Operations | What is hard |
|---|---|---|---|
| Process (`main.go`) | context, `cancel`, three `http.Server`s, the database handle, the exit status | set-up, listeners, signal, `Shutdown` ×3, deferred `Close` | order of the defers, goroutines that run late, a second signal, a shared timeout |
| Request pipeline (`internal/server`, `middleware`, `handlers`, `httperror`) | per request: status, what was written, the error | middlewares, mux, secret key, handlers, error handler, notification goroutine | panics half-way, two writers of one status, what the operator sees |
| Router (`internal/server/router`) | chains and error handler of a router and its groups, the mux | `Use`, `Group`, `Handle`, `SetErrorHandler`, `ServeHTTP` | order of registration, copies made by `Group` |
| Cache (`internal/cacher`) | map with timestamps, RWMutex, ticker | `Get`, `Set`, invalidator | lock, dropped ticks, stale entries, the end of the invalidator |
| Mailer (`internal/mail`) | client, configuration | `SendHTMLEmail`, `SendTXTEmail`, `SendMultipartEmail` | retries of what may have been delivered, one recipient of several fails, contexts |
| Database (`internal/database`) | two connection pools, the file | `New`, `InsertDummy`, `GetAllDummy`, `Close` | two pools on one file, migrations, failure of a step, restart |
| Configuration (`internal/config`) | none after start | `GetConfig` | names of environment variables in random order, layering, conditional validation |
| Notifications (`notify.go`) | the services | set-up, `Send` | network I/O during set-up, goroutines nobody waits for |
| Metrics (`internal/metrics`) | collectors | registration, counting | labels that are refused |
| HTTP client (`internal/http`) | transport, certificates, proxy | `NewHTTPClient`, `Do` | errors of one certificate among many |
| Real IP, real host (`middleware`) | none | header parsing | precedence of headers |
| Logger, templates, assets, mock database, build files | none | | |

How they interact: `run()` builds metrics, notifications, database, cache,
client, mailer and the HTTP handler, in this order, and passes them to the
server. One context, done when a signal arrives or a listener fails, ends the
main goroutine's wait and the cache's invalidator; `database.New` uses it too.
Requests run on goroutines of the HTTP servers and share the database, the
cache, the metrics and the notifier; an error handler starts a goroutine per
notification that nobody waits for. `Shutdown` of each server, then the deferred
`db.Close`, then the release of the signal handler end the process. (The handlers
of the template call neither the database, the cache nor the mailer yet; these are
modelled under any calls concurrent handlers can make.)

`main()` comes before all this: flags, `GetConfig`, the log file. What is built, and with
what, depends on the configuration alone, and every step of it may end the process.

What makes each correct: the process never closes the database under a request it
did not give up on, and stops whatever requests do; a request gets one status,
which is the one that is counted, and its failure is reported; the cache's map is
never accessed concurrently with a write and no entry outlives its bound; a
result of the mailer says who has the mail; the two pools act as one table; a router's
groups do not touch each other's middlewares; a server that comes up has everything that
its configuration switches on.

## 2. Plan

Done: 1. `Lifecycle` with its contract `GracefulStop`; 2. `Cacher`; 3. `RequestPipeline`;
4. `Mailer`; 5. `Database` with its contract `DummyStore`; 6. `System`, which composes
`Lifecycle` with the notification goroutines; 7. `Router`; 8. `Config` and `Startup`,
which extends it. Each has a module of proofs; that of
`Lifecycle` is `SystemProofs`, that of `Config` is `ConfigProofs`.

What could still be added: real IP and real host as operators over small headers; the
options `mail.New` collects. Neither has state or interleavings.

## 3. Modules

**`Lifecycle`** is `run()` in `main.go`. `pc` and `cur` are where the main goroutine
is (the three `Spawn`s and the three `Shutdown`s are one action each, for the server
`cur`); `srv[s]` is the `ListenAndServe` goroutine of server `s`, from `spawned` over
`binding` and `bound` to `serving`; `inShutdown` is the flag of `net/http`; `conn` are
client connections, idle, busy or gone. `ctx`, `handler` and `pending` are
`signal.NotifyContext`; `cancelVar` is the variable `cancel`, which line 272
reassigns while the goroutines hold it. `http.Server` and `NotifyContext` are
external and modelled from their use. `GracefulStop` is what the process promises the
requests of the main server; `Contract` in `Lifecycle` is the refinement mapping.

**`System`** extends `Lifecycle` with one variable, `notice`: the notification of an
error on a connection, which a goroutine sends that neither `Shutdown` nor `run()` waits
for. Every step of `Lifecycle` is a step of `System`; those that end the process lose
what is pending. `MCSystem` instantiates it for the runs, with the properties of both.

**`Cacher`** is `internal/cacher`. `state[p]` says where a client or the invalidator
is with respect to the `RWMutex`, including that a waiting writer stops new readers;
`age[k]` is the age of an entry in ticks of the model, capped above
`Expiration + Period`; `pending` is the channel of the ticker, which holds one tick.

**`RequestPipeline`** is a request from `Router.ServeHTTP` to the end of the
response. `stage` is where it is, `status` and `written` are the fields of the
wrapper in `accesslog.go`, `sent` is what went out, `counted`, `errorCount` and
`notice` what the operator sees. Handlers answer, fail or panic; a panic passes what
is not deferred. `badLabels` says whether the metric labels are acceptable. `pages` are the
error pages among the assets: this build embeds those of 404 and 500, so that the branches of
`NotFound` and `ErrorPage` without a page (an empty 200) cannot be taken in it; they are
what the code does if a page is renamed or dropped. `CodesAssumption`, that an `HTTPError`
has a code of 400 to 599, is how `httperror` is meant to be used, not what it enforces.

**`Router`** is `internal/server/router`: `Use`, `Group`, `SetErrorHandler` and `Handle`
as actions in any order, on the router and on every group. A slice of middlewares is a
length and an array, because `append` writes into the array when it has room (`Padded`:
how much it has is the compiler's choice); `Clone` in `Group` makes a new one. `calls`
and `left` are history: the properties compute from it what a route has to go through.

**`Config`** is `GetConfig` as operators: `Defaults`, the file and the environment are
functions from paths to values, of which only the layer and the kind are kept (set, zero,
malformed, null). `Merge` and `Put` are koanf's `Merge` and one turn of its `Unflatten`,
which visits the names of the environment in the random order of a map, so `GetConfig`
returns the set of results; `Decode` is the callback that turns underscores into levels.
`Valid` has the tags `required`, `required_if` and `required_with`. Environment names have
runs of one or two underscores. `Clashing`, `Stray` and `ByChance` say where a name is in the
way of another (`GO_SERVER_LISTEN` and `GO_SERVER_LISTEN_LISTEN`): which of the two koanf
meets first then decides, and the properties have to tell such settings from all others.
**`Startup`** extends it with `main()` and the set-up of
`run()`: `stage` is the next thing to be made, `services`, `vectors`, `pool`, `proxy` and
`given` what was made, and the outside may make a step fail where the code has an error
path; a failing `database.New` may leave pools open (`db` is `left`). At `up`, `Lifecycle` takes
over; there the set-up is abstract.

**`Mailer`** is `internal/mail`: `to` and `try` are the two loop variables, `parts`
the bodies the message has, `inbox` what the recipients got. An attempt is `Dial`
and then `Accepted` or `Refused`; a refused one may have been delivered all the same.
`SenderValid` says whether the configured sender is an address: without one every `Compose`
fails (the runs set it to TRUE, the proofs leave it open).

**`Database`** is `internal/database`. `phase` and `opening` are where `New` or
`Close` is, `pool`, `open`, `settings` and `user` are the connections of
`database/sql` (external), `pc`, `op`, `value` and `result` the calls of handlers.
`rows` and `schema` are the file: they outlive `Down`, which is the end of the
process at any point, and `Start` runs `New` on them again. `acked` and `known`
are history. **`DummyStore`** is what `database.Interface` promises; `Store` in
`Database` is the refinement mapping, which hides pools and connections.

The definitions marked "Seeded fault" or "Mutant" are plausible bugs that are not part of
`Next`: with one of them in place of the action it imitates, the property it is
listed with in `PROJECT.json` is violated. The `MC*` modules declare the model values
and symmetries of the runs.

## 4. Runs

| Run | Question | Bounds |
|---|---|---|
| `system` | Can a request begin, or run unnoticed, once the database is being closed? What can signals do, during the set-up and twice? What does the exit status mean, what is lost with the process, does it end once told to, and does it keep to `GracefulStop`? | two of the three servers, so that the branches for an absent one are taken; one connection to each |
| `lifecycle_grace` (finding) | Does a listen error leave a shutdown under way alone? | one connection |
| `cacher` | Is the map safe, how old can an entry be, do calls return, expired entries go and the invalidator end? | two clients and the invalidator, two keys, expiration two ticks and period one, so that entries survive a sweep and one is renewed while another is swept |
| `pipeline_safety` | What does the client get and the operator see, for every route, key, failure, panic and missing error page? | one request: requests share only configuration that does not change; error codes 404, 499 and 503 lie on both sides of the limit for notifications |
| `pipeline_logged` (finding) | Is every request logged? | as above |
| `router` | Which middlewares does a route go through, who gets its errors, and can groups overwrite each other's chains? | six calls: enough for a group in a group, a middleware and an error handler before and after it, and a route; arrays with at most one element of room, which two groups of one parent would both write to |
| `mailer_safety` | What do nil and an error mean, how many copies are there, and does every call return? | two calls, two recipients, two tries: one recipient can fail after the other succeeded, and each try can fail in every way |
| `mailer_multipart` (finding) | Has a multipart mail both parts? | one call |
| `database` | What do a returned id, a returned list and a finished `Close` guarantee? Do the handlers see one table that calls change one at a time, and do every call and `Close` return? | two handlers that compete for the writer's connection, two readers of which one stays idle, one name, a restart |
| `database_pragmas` (finding) | Do all connections have the settings `newDatabase` makes? | two handlers that read at once |
| `startup` | Which layer decides a setting? Where can the order of the environment matter? Has a server that comes up all that is switched on, and what does an ended start leave? | a minimal configuration with every single deviation in the file (each setting and struct, each kind) and in the environment (each setting, each way to read its underscores), every pair of such names within the sections server, proxy and mail, every setting of these and of the top level with a name below it that is in its way (and, at times, the name of the setting that one may end at), every set of enabled services, every set of five certificate files, flags |
| `startup_sender` (finding) | Does an enabled mail have a sender? | as above |

Two actors of a kind are enough where the code distinguishes only "I" and "somebody
else" (the holder of the lock and one who waits; the user of the writer's connection
and one who waits): a third adds no case, and the proofs below are for any
number. Names of different sections of the configuration do not meet in a map of koanf
below the first level, so pairs within a section suffice. `MaxStarts`, `MaxCalls` and
`MaxSpare` are the only bounds that are not an instance of a constant of the program;
the age of an entry is capped where it makes no difference any more. Deadlock is checked
in the runs of `System`, `RequestPipeline` and `Mailer`, whose `Terminated` names the
states in which the program may stop, and in `cacher`, which never stops. The others
switch it off: the process stays down after the last start of the database run, the
registration of routes may end after any call, and a start ends when the server is up.

### What disagrees with the repository

- `main.go:272` reassigns the `cancel` the listener goroutines captured. A listener
  that fails during the shutdown cancels the drain instead of "killing" a server that
  is stopping anyway.
- `accesslog.go:73`: a request whose handler panics is neither logged nor counted.
- `mail.go:134`: `SetBodyString` replaces the text body, `SendMultipartEmail` sends HTML
  only.
- `config.go:73`: the tags of `mail.from` say `required_if=Enabled true`, but the validator
  looks for `Enabled` in the struct of the field, which has none. Mail without a sender
  is accepted, and fails when it is sent.
- `database.go:117` and `122`: `PRAGMA`s executed through a pool reach one connection of
  it; later readers have the driver's defaults.

Without a run of their own, since a glance at the lines settles them:

- `docker-compose.yml:6` passes `-listen`, `-listen-pprof` and `-listen-metrics`, which
  `main.go:45-49` does not define: `flag.Parse` ends the process with status 2
  (`ParseFlags`).
- `main.go:47` promises "output in json instead" for `-json`; the value is never read, only
  `logging.json` counts. `cache.enabled` is never read either.
- An environment name with single underscores inside a key (`GO_USER_AGENT`) is ignored
  silently, or, where the first word is a setting (`GO_SERVER_LISTEN_METRICS`), ends the
  start; together with `GO_SERVER_LISTEN` it is ignored again.
- `GO_SERVER_LISTEN_LISTEN` beside `GO_SERVER_LISTEN`, or `GO_MAIL_SERVER_PORT` beside
  `GO_MAIL_SERVER` and `GO_MAIL_PORT`, decides over the address or the port in one order of
  koanf's map and not in the other; and where one order fails to decode, another may not.
  No text of the repository says that the order does not matter, so this is no finding but
  the exception `LayersDecide` and `SameInputsSameConfig` state, as narrowly as it is true:
  only a setting with the last key of the name that meets another in its way, in the
  section of that other.
- An empty list passes `required_if`: a mailer without recipients reports success.
- Discord without a token passes the validation and is left out without a word.

The comment at `database.go:44`, "no migrations on the second
connection", is outdated. The reader is opened first and skips the migrations; the
second connection, the writer, runs them, and `MigratedBeforeUse` rests on that.

## 5. Fairness

- `Lifecycle` and `System`: goroutines that can run do run and timers fire. The set-up
  steps are fair except that of the notifications, which wait on the network without a
  deadline (`LocalSetup`): a signal during the set-up ends the process unless the set-up
  stays at that step for ever (`SignalDuringSetup`). Nothing is assumed of signals, of clients, of notifications,
  nor that a handler ever returns: the timeout alone bounds the shutdown.
- `Cacher`: `sync.RWMutex` hands over to whoever waited longest and `select` chooses at
  random, hence strong fairness for acquiring the lock and for seeing the context's
  end; the sections under the lock end. No client has to call.
- `RequestPipeline`: the goroutine of a request runs, reads and writes being bounded by
  the server's timeouts. Nothing is assumed of notifications, which have no timeout,
  nor of panics.
- `Mailer`: an attempt ends, because `Mail.Timeout` bounds it. Success is never assumed.
- `Database`: a statement ends; `database/sql` serves those who wait for a connection
  at random or in order, hence strong fairness for `GetConn`, and tells them when the
  pool is closed. That a statement of `Close` succeeds is not assumed: `CloseReturns`
  rests on its timeout.
- `Router` and `Startup` state no liveness: a program may register nothing, and the login
  of a notification service may take for ever.

## 6. Proofs

All are checked by TLAPS, for every value of the constants under the named
assumptions (`ConfiguredAssumption`, `HomeAssumption`; the ranges of durations and
limits; that model constants differ from the strings used as tags). Each proof module
states an inductive invariant `IInv`, proves that `Init` implies it and that every
action keeps it, and derives the properties from it. The first part of `IInv` is the type
invariant of the module; as it is proved for every instance, the runs do not repeat it.

Three kinds of theorems go beyond the invariants of the runs. The *extent* of a finding:
where a run shows a property violated, a theorem says how far the violation goes
(`GraceWithoutErrors`, `OnlyPanicsAreMissing`, `OneBodyIsKept`, `WriterHasSettings`). Why it
*ends*: the safety half of a liveness property, a measure no step raises or a proof that
somebody can move; what is left to TLC is that those who can move do
(`RunIsBounded`, `WaitsEnd`, `RequestsGoOn`, `CallsGoOn`, `NoDeadlock`, `ReadersWaitOnce`). And
the *refinements*: every step is one of the abstract specification or none
(`ImplementsContract`, `SystemImplementsContract`, `Implementation`).

- `SystemProofs`, first `Lifecycle`. The properties about `db` need to know what each value
  of `pc` says of the servers already shut down: those before `cur` have stopped serving,
  have no idle connection, and have no busy one unless `gaveUp`. From this: `TypeCorrect`,
  `NothingBeginsAfterClose`, `ClosedAfterDrain`, `SignalsAreHandled`, `StatusMeans`, and
  `ImplementsContract`: the process implements the safety part of `GracefulStop`.
  `GraceWithoutErrors` needs in addition when the deadline is armed and who can cancel it
  (`Armed`). `StepsLeft` counts the steps `run()` has left, 25 at most; those of the set-up
  and the shutdown lower it and none raises it (`RunIsBounded`). `WaitsEnd`: what a
  `Shutdown` waits for has been told to end or is under a deadline.
- `SystemProofs`, then `System`. Every execution of it is one of `Lifecycle`, so all of this
  holds there; a pending notification belongs to a connection of the main server that is
  busy or answered (`SysInv`). From this: `SystemIsLifecycle`, `OnlyNoticesAreLost`; the theorems `System...` carry those of `Lifecycle` over.
- `CacherProofs`. What the lock hands out to whom (`LockInv`); an entry that the last
  sweep left was not older than `Expiration` then and ages only with the countdown, unless
  a sweep is owed (`AgeInv`, which is what makes `StalenessBound` inductive); nothing is
  set while a sweep goes on, so what it found expired still is (`DoomedInv`). From this:
  `TypeCorrect`, `MapIsSafe`, `EntriesAreBounded`, `SweepKeepsFresh`, and from `LockInv` alone
  `NoDeadlock` and `ReadersWaitOnce`.
- `RequestPipelineProofs`. What is written, counted and noticed at each stage of a
  request, and that the wrapper's status is the sent one from the first byte on. From this:
  `PipelineTypes`, `CountsWhatWasSent`, `GateHolds`, `FailuresShow`, `OperatorIsTold`, for
  any number of requests and any error codes; `OnlyPanicsAreMissing`; and `RequestsGoOn`,
  whose measure `Ahead` is the steps from a stage to the end.
- `RouterProofs`. No two slices share an array, so no `append` reaches another router
  whatever room the arrays have; a router's chain is what the history of calls says. From
  this: `Independence`, `TypeCorrectness`, `ErrorDestination`, `RouteOrder`, for any number of
  calls and any nesting.
- `ConfigProofs`. What `GetConfig` computes, for a file and an environment of any size.
  `NameDecodes`: `Decode` takes the documented name of a setting back to the setting.
  `PutFits`: where `Unflatten` puts a value is the place of its name, or else a value that was
  there turned it away and the place is `Stray`; `EnvLayersFit`: so it is for the whole layer,
  in every order, and each name leaves a value at its place, above or below (which is what
  decodes to a struct or below a setting, and fails). `ConfigIs`: in each result without an
  error, each setting not in `ByChance` is the environment's, else the file's, else the
  default; without clashing names there is one layer (`EnvLayerIsOne`) and one result. No
  documented name is in the way of another (`DocumentedDoNotClash`), since no setting is
  above another (`SettingsApart`). The inductions over the length of a name or the number
  of names go through sets: a subset of `Nat` with 0 and every successor is `Nat`
  (`NatSets`, by counting), which needs no induction principle.
- `StartupProofs`. What was made is tied to the stage, and a notifier whose turn is over is
  used or has no credential (`NotifiersInv`); the tags exclude the latter (`Credentials`,
  `BothOrNeither`). Of `GetConfig` this needs only that a configuration without an error is
  valid (`ConfigInv`). From this, for any inputs: `TypeCorrect`, `EnabledIsUsed`,
  `CertificatesAreTrusted`, `StartsAreClean`. With `ConfigProofs`, for any files and
  environments that are ones at all (`InputsAssumption`): `LayersAreDecided` and `SameConfig`,
  with the exception the properties state, and `DocumentedNamesDecide`, where it is empty.
- `MailerProofs`. Neither `ResultTells` nor `CopiesBounded` is inductive: one needs where a
  call stands in the list and that nothing beyond it was tried (`LoopInv`, `InboxInv`),
  the other that every copy was paid for by a try (`TryInv`). `AttemptEnds` is the lemma
  for the two actions that deliver. From this: `TypeCorrect`, `ResultIsTrue`,
  `CopiesAreBounded`, and from what is put into the message (`BodyInv`,
  `GivenInv`) `OneBodyIsKept`. `CallsGoOn`: the pair of recipients and turns only advances,
  and both are bounded (`TriesInv`).
- `DatabaseProofs`. The schema is there because the writer passes its migration before
  anything else (`SchemaInv`); an id not yet returned already names a row (`RowsInv`); a
  list that was read has all ids known at its call (`ReadInv`). From this:
  `TypeCorrect`, `SchemaIsThere`, `IdsStay`, `ListsAreCurrent`, and `Implementation`: every
  step of the pools, of `New`, `Close` and of a restart is a step of `DummyStore` or none.
  `NothingLeftOpen` needs what a pool that is being closed still lets out (`PoolsInv`,
  `ConnsInv`, `ClosedInv`). Who holds which connection (`HoldInv`), that no pool exceeds its
  limit (`LimitInv`, with cardinalities) and what the one connection of the writer has been
  told (`WriterInv`) give `ConnectionsComeBack`, `WriterHasSettings`, `InsertionsAreSerial` and
  `NoConnectionRemains`.

Only model-checked: that those who can move do, which is liveness under fairness and beyond
the prover (`StopsOnceUp`, `SignalDuringSetup`, `ListenErrorStops`, `CallsReturn`, `ExpiredGo`,
`InvalidatorStops`, `AlwaysAnswered`, `CloseReturns`, the fairness of `GracefulStop`).

## 7. Not modelled

- Real IP and real host: pure first-match searches in a request's headers. `Do` of the
  HTTP client: a call of `net/http`. The options of `mail.New`: assignments.
- `ServeHTTP` of a group: it would bypass the global chain, but nothing calls it.
- Formats of settings beyond well-formed or not, names of the environment that differ in
  case or have more than two underscores in a row.
- A power failure (with `synchronous=NORMAL` it may lose the last insertions, where the
  end of the process does not) and a second process on the same database file.
- The interior of libraries: `net/http`, `database/sql`, SQLite, goose, go-mail, the
  notification services. Their actions are marked external in the map and modelled from
  how this code uses them.
- Log output, templates, assets, generated code, build files: no behaviour to check.
