# GreenHat gateway: TLA+ models, model checks and proofs

The repository is an HTTP gateway in Rust (`gateway/`, axum on tokio): it
authenticates requests against BetterAuth, applies CSRF, rate, role and module
checks, executes "tools" through an egress firewall, and serves several back
office applications whose data lives in Supabase (PostgREST). The gateway holds
little state of its own; what it does hold (semaphores, a session cache, rate
buckets, a key set, a log channel) is shared by all requests, and the rest is a sequence of remote calls
with other requests in between. That is where the models aim.

## Inventory

| Component (source under `gateway/src`) | State | Operations | What is hard | What makes it correct |
|---|---|---|---|---|
| Tool router (`tool_router.rs`) | three semaphores, per-call phase | `execute` | permits across timers, cancellation, disconnects; FIFO waiting on two semaphores | permits conserved, caps hold, every call answered, audit fits the answer |
| Session cache (`auth/session.rs`) | token -> (time, principal) | `validate_session` | lock released during the call; stale fallback; late answers | bounded staleness, bounded size |
| Invoice payments (`lib.rs`) | rows of `gb_invoices`, `gb_payments` | pay, post, edit | read-check-insert-update without transaction; ignored refusals | unedited columns agree, row never claims more than it was credited, no overpayment |
| Rate limiter (`middleware/rate_limit.rs`) | token buckets | `check` | fractional lazy refill, boundaries | window bound, no spurious refusal |
| QuickBooks import (`quickbooks_import.rs`) | rows of the `gb_` tables | purge, then five import phases | some 40 calls that fail one by one; retries | honest report, no duplicates, dry run writes nothing |
| Module access (`lib.rs`) | rows of `user_module_access`, `users` | set, invite, check | delete then insert; overlapping edits | refusals explained by an edit, a lone edit is in force |
| JWT / JWKS (`auth/jwt.rs`) | key set, revocation list | `decode`, `refresh_jwks` | overlapping refreshes, rotation, a failing or missing Redis | a published key is refused only when refreshes overlap; a token on the denylist is not served while Redis is there to be asked |
| Request pipeline (`lib.rs` `app`, `middleware/auth.rs`, `middleware/*`, `rbac/*`) | none | layer order, CSRF, authentication, RBAC, module check | order of the layers, public paths, what each layer emits | no handler runs before its checks, the trail explains the answer |
| Request log shipping (`observability.rs`) | channel | emit, ship | dropped when full, at each await | every log is in one place |
| Egress firewall (`egress.rs`) | none | preflight, capped read | DNS answers, streamed limits | caps at the boundary |
| Audit sink (`audit/`) | file handle | `emit` | reopen once | at most the documented loss |
| Daisy notes (`daisy.rs`) | rows of notes and shares | list, read, share, unshare | lookup then write; two kinds of targets; answers without a body; an address from a header | access follows ownership or a share held during the request, writes are in force |
| Exponential (`lib.rs`, overview tools of `tool_router.rs`) | rows of tasks, sprints, projects, teams, members | some thirty handlers | look-ups and counts that go stale before the next query; half-ignored failures | sprint numbers apart, roles held, counts consistent |
| GreenSpot (`lib.rs`) | rows of pipelines, stages, fields, sections, layout | replace pipelines, replace customization, record handlers | replacement in up to ten calls without transaction | a replacement that went well is in force, no orphans without a fault |
| GreenBooks reconciliation, transfers (`lib.rs`) | rows | create, complete, transfer | stored procedures outside the repository | |
| GreenBooks records, proxy (`lib.rs`) | none | one remote call each | little | |

How they interact: the middleware layers run first (CORS, rate limit, request
validation, CSRF, request log, authentication, module access, RBAC); handlers then call Supabase directly or hand a
`ToolRequest` to the tool router, which calls the egress client and emits audit
events. Dropping a connection drops the handler's future at its current
`.await`; the models of handlers with state include that as an action or as one
of the ways a remote call ends.

Remote calls are modelled by how they can end: answered (`ok`), refused with a
non-2xx (`rejected`), failed in transport before taking effect (`unsent`) or
after it (`lost`), and, where the code parses a body leniently, answered with a
2xx whose body it cannot read (`garbled`, `unreadable`, `empty`).

## Modules

| Module | Models | Actions and code |
|---|---|---|
| `ToolService` | what the router promises: bounded admission and execution | abstract specification |
| `ToolRouter` | `ToolRouter::execute`, `ToolRuntime` | one action per stretch between two awaits, semaphore operations or drops: `RejectPreflight` (steps 1 to 2.5), `Admit`/`RejectQueueFull` (3), `AcquireGlobal`, `AcquireTool`, `QueueTimeout`, `CancelWait` (4, 5), `DispatchOk/Err`, `ToolTimeout`, `CancelRunning` (6), `DropPermits`, `DropQueuePermit`, `Report`, `Disconnect` |
| `SessionCache` | `BetterAuthClient::validate_session` | `CacheHit`, `Ask` (lock held), `UpstreamAnswers`/`UpstreamFails` (no lock), `ReceiveSession`, `ReceiveNull`, `FallBack`, `ReceiveFailure` |
| `InvoicePayments` | payment, posting and patch handlers | one action per PostgREST call |
| `RateLimiter` | `RateLimiter::check` behind `rate_limit_middleware` | `check` is atomic: the clock is read with the mutex held |
| `QuickBooksImport` | `greenbooks_import_quickbooks` and what it calls | one action per PostgREST call, items of the file in the order of `run_import` |
| `ModuleAccess` | `set_admin_module_access_for_user`, `invite_admin_module_access_user`, `module_access_middleware` | one action per PostgREST call |
| `RequestPipeline` | the layers of `app()`, `middleware/auth.rs`, `auth/jwt.rs`, `middleware/csrf.rs`, `rbac/`, `observability.rs` | one action per await: `Arrive` (all layers up to the first), `ReadKey`, `FetchKeys`, `StoreKeys`, `RereadKey`, `CheckDenylist`, `ValidateSession`, `CheckModule`, `CheckTool`, `Handle`, `Disconnect`; `TakeLog`, `ShipLog`; external `Rotate`, `Revoke` |
| `NoteShares` | the handlers of `daisy.rs` | one action per PostgREST call; external `ChangeNote` |
| `WorkItems` | the Exponential handlers of `lib.rs`, the overview, members and permission tools of `tool_router.rs` | one action per query, named after the handler |
| `CrmSettings` | the GreenSpot handlers of `lib.rs` | one action per call of `pipelines_post` and the customization PATCH; one per record handler |
| `Records` | `WorkItems` and `CrmSettings` side by side, for any constants | composes them; a behaviour belongs to one family of requests |

`MC*` modules give small values to the constants; `*Proofs` modules hold the
theorems. Operators marked "Mutant" are faulty
variants of the definition that follows; they are used by no specification and
serve to show that each property can fail.

Abstractions worth knowing:

* `validate_args` is pure: `ToolRouter` sees its verdict (`argsValid`) and whether the
  request it builds needs a bearer. `dispatch` is its outcome, except for the tools
  that make several queries, which are in `WorkItems`. The cancellation
  token is `None` for calls over HTTP (`build_tool_audit_ctx`) and given by other
  callers of `execute` and its tests; `FireCancel` stands for the latter.
* A rejection with reason `cancelled` is called `wait_cancelled` to tell it from
  the failure kind.
* Time in `SessionCache` and `RateLimiter` is a counter. A pending BetterAuth call
  ends within its reqwest timeout. Rates are fractions of a token: a token is
  `Unit` parts. The code computes with `f64`; rounding is not modelled.
* `PATCH /invoices/{id}` forwards any column, so `PatchInvoice` writes any of the
  columns the other handlers read or write, `amount_paid` and the status `paid`
  included. The history variables `granted`, `least`, `touched` and `edited` record
  what edits did: the properties of the invoice say what holds in spite of them.
* `CleanReportIsComplete` counts as clean a report with nothing but the two notices
  that `run_import` makes of any file (no tax codes in a journal; the totals of a
  trial balance). Warnings about what could not be parsed are not modelled.
* `NoteShares` takes the address of a caller as `scope_from_headers` does: the
  principal's, or, when it has none, whatever `x-daisy-session-user-email` says.
* In `CrmSettings`, PostgREST is taken to answer an insert of several rows with these
  rows in the order sent; of several fields of a key, or sections of a name, the
  code remembers the last.
* The members tool gates on a membership that no handler of the gateway removes, so
  the gap between its two queries is modelled and cannot be seen.
* `gb_post_invoice_to_gl` is a stored procedure outside the repository: it is
  taken to create the journal entry once and to send a draft. Foreign keys
  between ledger, lines and journal entries, and the FIFO order of tokio's
  semaphores, are external as well.
* The purge covers the tables the import writes; the others are emptied in the
  same way and nothing here refers to them.
* In `RequestPipeline`, `RateLimiter` is reduced to its promise (a refusal needs
  `Burst` earlier requests of the same bucket), `SessionCache` to the outcomes of a
  session check, `ModuleAccess` to those of a module check. A token's signature
  and claims are one Boolean. A layer without an await is part of the step of the
  await before it.
* When a client leaves during a remote write, the write is taken to have ended one
  way or the other: the model drops the request before or after the call's step.
* Handlers that only read and whose answer no property speaks of (`Dashboard`,
  `GetPipelines`, `GetCustomization`) are one step, whatever the number of their
  queries.
* Filters, sorting, search, rich text and the shape of answers are left out of
  `WorkItems`, `CrmSettings` and `NoteShares`.
* Whether `daisy_note_shares` has a unique index is not in the repository:
  `unique` is chosen either way at the start.

## Runs

| Run | Instance | Shows |
|---|---|---|
| `router_safety` | 3 calls; `sleep` with cap 0 (hence 1), `list_tasks` with cap 2 and a bearer, one tool per refusal of `resolve_tool`; all arguments and credentials; 2 global permits, queue of 2 | types, `PermitsConserved`, `ConcurrencyCaps`, `OnlyVettedToolsRun`, `AuditMatchesAnswer`, `QueueFullIsTrue`, and that `ToolRouter` implements `ToolService` |
| `router_liveness` | 3 calls of one tool with a cap of 1, 2 global permits, queue of 3, fair tasks | every call is answered, by the queue timer alone and by the FIFO semaphores alone |
| `router_starvation` (violation) | 3 calls, queue of 3 | one tool holds all global permits |
| `router_cancellation` (violation) | as `router_safety` | a call cancelled while waiting has no failure event |
| `invoice_overpayment` (violation) | one invoice, 3 requests, no failure, edits of the status only | two payments beyond the balance |
| `admission` | session cache: 2 tokens, 1 principal, 2 validations, 4 ticks; fresh 1, stale 2, timeout 1, cache limit 0 | `AcceptedWasVouched`, `CacheBounded` |
| | rate limiter: 2 lanes, bursts 2 and 1, rates 2/3 and 1/3, 8 ticks, 6 requests per bucket | `WindowBound`, `NoSpuriousDenial`, `TokensExact` |
| | module access: 2 edits, 2 users, 2 modules and an unknown one | `DeniedOnlyIfWithheld`, `LoneEditInForce` |
| `back_office` | one invoice: total 2, amounts 0 to 3, edits of every column, every ending of a call, 3 requests | `BooksAgree`, `NeverOverstated`, `PaidMeansCovered` |
| | import: a run and its retry, 5 items, any flags | `ImportTypeOK`, `CleanReportIsComplete`, `PurgeClears`, `NoDuplicateNames`, `DryRunWritesNothing` |
| | `Records`: 2 requests of every kind on one family of tables | types, `SprintNumbersApart`, `RoleWasHeld`, `CountsAddUp`, `ReplacementInForce`, `OrphansNeedFault` |
| `request_pipeline` | 2 requests of 15 kinds, 4 configurations, 4 tokens, 2 key sets, a log channel of 1 | `ServedWasEntitled`, `TrailExplainsAnswer`, `LogsAccounted`, `UnknownKidNeedsOverlap` |
| `pipeline_csrf` (violation) | as above | a write by cookie without CSRF token |
| `pipeline_denials` (violation) | as above | a 403 of module access without audit event |
| `note_shares` | 2 requests of every kind, 1 note, 2 users, one without an address, no earlier shares or a duplicated one, 1 change of the note | `ServedWasGranted`, `ResolversAgree`, `WriteInForce`, `DuplicatesNeedCause` |
| `notes_headers` (violation) | as above | a note served to an address from a header |

`admission` and `back_office` each put several components into one run
(`MCAdmission`, `MCBackOffice`). The components of a run share no state, so nothing
is lost by letting one of them move (`moving`) while the others stay in an initial
state: every behaviour of each component is there, and the run visits the sum of
their states instead of the product. Components that do meet are composed where they
do: the layers in `RequestPipeline`, tool calls and HTTP handlers on one set of
tables in `WorkItems`.

Bounds. Three calls against two permits are the least with one running, one
waiting with a global permit and one waiting without; slots are reused, so
histories are unbounded. The clock of the session cache runs long enough for an entry to be
filled late, to expire, to be evicted by the other token, and to be replaced by
an answer that overtakes it. An invoice is found as a draft or sent, and three requests on it allow two payments to
race while it is posted, voided or its amounts are edited. Six admitted requests in eight ticks empty
and refill a bucket several times, with fractions left over. Two imports are one
and its retry. In `request_pipeline`, `note_shares` and `Records` a request overlaps one other: each of
their properties is about what one request read and another changed, and
earlier requests are there as initial rows (two sets of shares, two boards, two settings). `note_shares`
lets the application change the note once, between any two queries. `Records`
explores Exponential and GreenSpot one at a time because no
handler touches both; replacements of pipelines and of fields do run side by side. `MaxFailed` (2) bounds the failed calls of
replacements, enough for one of each of two requests. A log channel of one is full
after one request. The bounds are `MaxTime`, `MaxInstant`, `MaxAllowed`, the number of handlers,
runs and edits, `MaxChanges`, `MaxFailed` and `MaxConcurrent`; of these, `MaxTime`, `MaxInstant`,
`MaxAllowed` and `MaxFailed` cut histories of proved modules off, and the proofs do not
depend on their values. Deadlock
checking is off where handlers serve one request each and the system may stop; in
`admission` it is on, and the limiter stutters once its time is over (`OutOfTime`).

One run leaves one ending of a call out, because the property is about the rest:
`back_office` has no garbled answer to the import's lookup by name. `exists_by_name` reads a 2xx body
it cannot parse as "not there" and the row would be created twice.

Three properties exempt, by a history variable, exactly the interleaving that no
handler prevents and no text of the repository rules out: `SprintNumbersApart`
(`guessed`: numbers chosen during an overlap or after a failed look-up), `CountsAddUp`
(`unsteady`: tasks changed between the counts), `DuplicatesNeedCause` (`raced`,
`unread`). They say that nothing else causes the anomaly, not that it cannot happen.

Fairness. `LiveSpec`: a task that can run is polled, and a running tool ends, which
its own timeout sees to. `EveryCallAnswered` has one further premise, either of
`TimersFire` (an armed tokio timer fires) and `PermitsTaken` (a permit is taken by
the waiter whose turn it is). Neither assumes that a client stays or that a permit
becomes free.

## Findings

1. `NoToolStarvesOthers`: a call waits for its tool with a global permit in hand
   (`tool_router.rs:482-490`), so a saturated tool can occupy all global permits.
   `docs/TOOL_EXECUTION.md:43-46` says the caps prevent this.
2. `NoOverpayment`: two payments read the same balance and are both recorded
   (`lib.rs:3961`, `4032`), which the handler refuses when they come one after
   the other (`lib.rs:3962`).
3. `CancellationIsFailure`: a call cancelled while it waits for permits emits
   `tool.invoke_rejected` (`tool_router.rs:494-500`); `docs/TOOL_EXECUTION.md:59-64`
   speaks of `tool.invoke_failure` for both kinds of cancellation.
   `AuditMatchesAnswer` is about what the code does emit.
4. `CookieWritesCarryToken`: the CSRF layer exempts the scheme `bearer` in any case
   (`csrf.rs:114-120`), authentication knows `Bearer ` only and falls back on the
   cookie (`middleware/auth.rs:219`). `docs/AUTH.md:55` says cookie-authenticated
   writes must satisfy CSRF.
5. `DenialsAudited`: module access answers 403 without an audit event
   (`lib.rs:4459`); `docs/AUDIT_EVENTS.md:14` says every denial has one.
6. `ServedToPrincipal`: a principal without an address is served as the address in
   `x-daisy-session-user-email` (`daisy.rs:314-335`), which header hardening does not
   strip; `docs/HEADERS.md:3` says caller-supplied identity headers are never
   trusted. A test (`daisy.rs:2083`) shows that the fallback is meant.

Observations without a run, met while modelling:

* A configured cap of 0 gives the tool one permit (`PerToolPermits`); the comment at
  `tool_router.rs:265` calls this "disabled", the calls do run.
* The comment at `lib.rs:7831` names fewer layers than there are.
* The log layer is inside rate limit, validation and CSRF (`lib.rs:8454`), so what
  these refuse is answered without a request log; `README.md:79` says each request
  emits one. `LogsAccounted` says nothing of which requests are logged, only that no
  log is lost unaccounted.
* Two imports at the same time both look a name up before either inserts it
  (`quickbooks_import.rs:546`); nothing says that imports may overlap.
* The map of rate buckets only grows (`rate_limit.rs:47`).
* A withdrawn signing key is honoured until a token with an unknown kid causes a
  refresh (`jwt.rs:298`); no bound is stated.
* `set_user_role` takes a PATCH that matched no row for success (`lib.rs:4845-4858`).
* The lines of a journal entry whose answer cannot be read get no ledger rows, and
  the report does not say so (`quickbooks_import.rs:860`).
* The permission tool answers `hasPermission: true` whatever it is asked, while
  `get_project` derives permissions from the caller's role.
* The customization GET returns the ids of fields in `fieldIds`; the PATCH looks
  such entries up by key and drops what it does not find, so settings that are read
  and sent back are answered ok and lose their layout. `ReplacementInForce` states
  which references a replacement keeps.
* `pipelines_post` answers ok when one of its inserts got no reply, and a stage
  left without its pipeline shows again when a pipeline of that id returns.
  `ReplacementInForce` therefore speaks of replacements whose calls went well.
* `list_notes` compares the owner's address as stored, `resolve_note_access` in
  lower case, so a note can be readable and not listed. `ResolversAgree` says what
  the two have in common.

## Proofs

All theorems hold for every value of the constants that satisfies the named
`ASSUME` of the module; TLC evaluates those assumptions on every run.

* `ToolRouterProofs`. `TypeCorrect`; `PermitConservation`, whose invariant is
  `TypeOK` and the three sums, and which needs finiteness of `Calls` and how the
  cardinality of a set of holders changes when one call moves; `CapsHold` follows.
  `OnlyVettedRun` and `AuditTrailCorrect` rest on `PhaseInv`: what is known of a
  call in each phase (vetted once admitted, which events it has emitted, which
  outcomes it can have). The properties alone are not inductive because they
  only speak of executing or answered calls. `BackpressureIsDue` is about steps:
  only `RejectQueueFull` makes a call queue_full (`OnlyFullQueueRejects`), and with no free permit the
  sums say that `max_queue` calls hold one. `RouterImplementsService`: initial
  states map to initial states, every action maps to a step of `ToolService` or a
  stutter; the semaphores' counters are related to the sets of the service by
  permit conservation.
* `AdmissionProofs`, of `SessionCache`. `StalenessBounded`, from `AgeInv`: an entry was vouched for
  at most `Timeout` before its stamp, a fallback at most `Stale - 1 + Timeout`
  before its call was sent, a reply after its call was sent. The bound on what is
  accepted is the sum along that path. `CacheStaysBounded`, from `SizeInv`: the set
  of cached tokens is finite, without which its size says nothing, and an insert
  evicts before it adds.
* `InvoicePaymentsProofs`. `BooksAlwaysAgree`, from `PendingBooks`: while nobody has
  edited an amount, what a payment under way has read still leaves room for it.
  `CreditIsBacked` and `PaidIsBacked`, from `PendingCredit`: what a payment under way
  has read, and its own amount once it is inserted or refused, is within `Credit`, which
  only grows (payments recorded, payments refused unnoticed, the most an edit wrote).
  None of them restricts edits or the endings of a call.
* `RateLimiterProofs`. `TokenAccounting`: the tokens left are exactly what the tightest
  window leaves. `RateLimitHolds` and `DenialsAreDue` follow.
* `AdmissionProofs`, of `ModuleAccess` (the two share no
  state). `RefusalsExplained`, from `RowsExplained`: a module missing
  from the rows of a restricted user is missing from a set stored for that user.
  `LoneEditsInForce`, from `LoneInv`: as long as no other edit begins,
  the rows are those the edit had written by the call it has come to. `AccessTyped`,
  from `KnownInv`: an edit past its validation asks for known modules only.
* `RequestPipelineProofs`. A request at an await has passed the layers before it
  (`EntitledSoFar`), has left the events of the layers before it (`TrailSoFar`), and, once its key
  set is stored, finds its key unless another request has stored one since
  (`KidSoFar`). From these `OnlyEntitledServed`, `TrailsExplain` and `UnknownKidIsARace`.
  `NoLogLost` needs that the channel, the shipper, the attempted and the dropped
  logs share none and that the channel holds no log twice; only then do the
  lengths and cardinalities add up. All actions of a request are one of a few
  moves (`Advances`), which carry the frame.
* `NoteSharesProofs`. `Granted`: what a request has read of notes and shares, and
  every role it could still answer with, was conferred on its scope since it
  arrived. From it `OnlyGrantedServed`. `LoneWritesInForce` from `Solo`: between its
  PATCH and its INSERT, an upsert nothing overlaps still finds no share.
  `DuplicatesHaveCause` from `Racing`: a share that is there at the INSERT was written
  by an upsert that overlaps, or was matched by a PATCH whose answer had no body, and
  either is on record. `ListAndReadAgree` is
  about data: the newest of two sets is the newest of their newest, which needs
  that finite sets of times have a latest (`FiniteMax`).
* `QuickBooksImportProofs`. For any number of imports at once: `ImportTypes` and
  `DryRunsAreDry`, from `Stage` (where a run may stand, and where a dry run never
  does). For imports one after the other (`MaxConcurrent = 1`; then only the run
  started last moves, `Serial`): `PurgeOrderClears` from `Purged`, since no table is
  referred to from one purged before it; `CleanReportsHonest` from `Complete`, the items
  a run has come past are stored, with lines and ledger rows, unless reported or their
  lines came back unreadable; and, when look-ups can be read
  (`"garbled" \notin LookupReplies`), `NamesStayUnique` from `LookedUp`, an insert under
  way is of a name that is not there. All three fail for imports that overlap: a
  run purges or inserts between another's look-up and its insert, and the handler
  takes no lock. `ImportTypes` showed that the former bound on `pos`, one past the
  end of the file, was wrong for files shorter than the purge order.

* `RecordsProofs`, of the composition `Records`: `RecordsInv` is the invariant of the
  component whose requests a behaviour has.

  Of `WorkItems`, `WorkInv`: which handler a request at a query is in (`WorkStage`),
  and what it has read still says about the tables. `Numbered`: the number a creation
  is about to insert is above all there are, unless the project is on record as
  guessed; another insert in between is an overlap, which puts it there. From it
  `NumbersStayApart`. `Credited`: whatever membership a request has come past was held
  during it, since the history takes in every membership of the caller at every step;
  from it `RoleIsHeld`. `Counted`: between the two counts of a project its open tasks
  are as counted unless tasks changed; completed tasks are among the open, and sets of
  tasks are finite, so the counts compare; from it `CountsAgree`. `RecordsTyped` needs
  that an upsert replaces the row with the same key.

  Of `CrmSettings`, `CrmInv`. `CrmRivals`: two replacements of a kind that run at once
  are both marred, and while another runs so is the last to arrive; hence a replacement
  that is not marred has the tables of its kind to itself, and the last one keeps them
  after it is done. `PipelineStage` and `FieldStage` say what such a replacement finds
  at each of its calls: the parents it has read are all there are, the tables it has
  deleted from are empty, those it has inserted into hold its rows. The stronger
  statements, that no stage, layout row or option is left, hold as long as nothing of
  the kind ever went wrong (`tangled`); the others hold after any earlier mishap, which
  is what `ReplacementHolds` needs. There, layout rows that earlier failures left behind
  are harmless because ids are given out once: new sections have ids above those of any
  layout row (`CrmRows`, `FreshIds`). `StagesPlaced` and `LayoutPlaced` are `NoOrphans`.

Assumptions on constants that the proofs use and the code justifies: the calls are
finitely many, limits and periods are natural numbers, roles of a principal are never
`None` (`PrincipalAssumption`), the shares there at the start are finitely many rows
with a time (`SharesAssumption`), `QB_ACCOUNT_MAP` has one entry for a code
(`ImportAssumption`), the rows there at the start are as these handlers leave them
when nothing goes wrong: ids of their tables, sprints numbered apart, one membership of
a user, every child with its parent (`WorkAssumption`, `CrmAssumption`), and what a
replacement brings is finite.

Only model-checked: liveness (`EveryCallAnswered`), which is out of the provers' reach.

## Not modelled

The arms of `validate_args`, workbook parsing, redaction, rich text and
formatting: pure functions on text. The egress firewall (`egress.rs`): its
decisions depend on DNS answers and streamed bytes and keep no state; its errors
are inputs of `ToolRouter`. The audit sink: a file that is reopened once; which
events are emitted is in `ToolRouter` and `RequestPipeline`. GreenBooks
reconciliation and transfers: each handler is one insert, upsert or stored
procedure, and the procedures are not in the repository. GreenBooks records and
reports, and the API proxy: one remote call and a reshaped answer. Configuration,
metrics and telemetry: start-up and instrumentation. `cache.rs` is unused.
`vendor/` and `mcp-spike/` are not part of the gateway.
