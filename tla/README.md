# Toopo in TLA+

A verification development for toopo: TLA+ modules for the parts of the system
where concurrency, failure and ordering decide whether the stored graph is right,
TLC configurations that check them on small instances, and theorems, checked by
TLAPS, that hold for every value of the constants.

    tlc -workers 2 -config JobQueue_overlap.cfg MCJobQueue.tla     # a run
    tlapm JobQueueProofs.tla                                       # the proofs

`PROJECT.json` lists components, runs, the source lines behind every definition,
one mutant of the code per checked property, the hazards and the theorems.

Contents: 1 the system, 2 the modules, 3 the runs, 4 fairness, 5 what is proved,
6 where code and documents disagree, 7 what is not modelled, 8 the plan.

## 1. The system

Toopo keeps, for each connected repository (a *project*), a graph of its symbols
up to date with the default branch.

    GitHub --webhook--> api --enqueue--> job table --claim--> worker --replace--> graph tables
       |                 |                                    |  ^                    |
       '--install redirect'                                clone parse_fragment    api reads --> web
                         '--> project, github_installation
    browser --session--> api --> user, session, organization, member

Processes share nothing but the database. Every process is one event loop: code
between two `await`s is atomic, and everything another process (or another request
of the same process) does can happen at an `await`. The database is SQLite or
Postgres; a claim is one statement, a graph replacement one transaction, a read of
the graph one to several dozen statements without one.

| Component | State | Operations | Hard about it | Correct when |
|---|---|---|---|---|
| Job queue (`packages/queue`, `db` job repository) | rows `status, dedupe_key, attempts, available_at, lease_until` | enqueue; claim, handler, ack, retry, dead-letter | leases that end early, crashes between any two statements, lost answers, racing enqueues, counted attempts | one active row per key, nothing lost, bounded retries, nothing dead in silence |
| Worker process (`apps/worker` consume) | the job in hand, the stop flag, the tracked run, open connections | loop, signal, stop, drain, close | a signal beside a claim in flight, a handler, a settlement | connections wait for the handler that runs; the process ends |
| Graph store (`db` graph persist) | `node`, `edge`, `unresolved_reference` rows | `replaceProjectGraph`, `persistGraph` | two replacements of one project at once, at READ COMMITTED | what is stored is one document, the last |
| Ingest job (`apps/worker` clone, `packages/ingest`; the requests of `apps/api` that enqueue) | stored graph, `parse_fragment` cache | push webhook, first scan; clone, hash, compare, load or parse, cache, resolve, replace | concurrent webhooks and scans in any order, redelivery, a cache shared by all projects, failure at every step | the graph is that of a commit, in the end that of the head |
| Pipeline (`packages/ingest`, `parser`, `lang-react`, `resolver`, `core`) | none | discover, extract, resolve modules, follow export chains, bind calls, synthesize packages, write ids | barrels that meet again or turn back, shadowing and repeated names, workspaces, escaped names | imports end at what they name, guesses are marked, every end of an edge is a node |
| Graph reads and serve (`db`, `packages/serve`, `apps/api` graph) | none | neighbours, node detail, blast radius, lists, map, cycles, call bindings | several statements and pages per answer while the graph is replaced; cycle search without recursion | a read is exact when nothing was replaced, coherent row by row otherwise |
| GitHub connect (`apps/api` github, webhooks) | `github_installation`, `project` | install redirect, provision, re-home, archive, revive, unlink | the redirect and webhooks concurrently, in any order, each a loop that may fail half-way | a link belongs to one user, a project to the user who linked it, what is granted is connected |
| Accounts (`apps/api` auth, user, project) | `user`, `session`, `organization`, `member`, `project.workspace_id` | sign in, provision a workspace, guard, list, export, delete, move | checks before an `await`, used after it; a sequence of statements that fails half-way | no access for a deleted user, one workspace for a user's sessions, moves only by owners |
| Explorer (`apps/web` graph) | address, query cache, layouts, search box, panel | navigate, answer, lay out, search, open; an outage pauses and resumes | address, data and drawing are of three different views at once | what is shown answers what is asked |
| GitHub App client, migrator, env, i18n, ui, mails | token cache, applied versions | mint, list, migrate, format | little that is concurrent | - |

## 2. The modules

| Module | Models | Checked through | Proofs |
|---|---|---|---|
| `JobQueue` | the queue and its consumers over the job table | `MCJobQueue` | `JobQueueProofs` |
| `JobContract` | what the queue promises, without rows, leases or workers | refined by `JobQueue` | `QueueKeepsContract` |
| `GraphReplace` | the statements of a graph replacement, with Postgres's visibility | `MCGraphReplace` | `GraphReplaceProofs` |
| `IngestJob` | from a push or a first scan to the stored graph, the queue cut down to the order of deliveries | `MCIngestJob` | `IngestJobProofs` |
| `GithubConnect` | the install redirect and the installation webhooks | `MCGithubConnect` | `GithubConnectProofs` |
| `Worker` | one worker process: the consume loop and the graceful shutdown beside it | `MCWorker` | `WorkerProofs` |
| `Extract` | the parse pass: one file, as syntax, to its fragment | `Pipeline` | |
| `Resolve` | the resolve pass: module resolution, export chains, call sites, workspaces | `Pipeline` | |
| `SymbolId` | the text of an identity, and its parser; minting the ids of symbols and call sites | `MCPipeline` | `ExplorerProofs` |
| `GraphViews` | what each read of a stored graph selects, but for cycles and blast radii | `Pipeline`, `GraphServe` | |
| `Pipeline` | a repository's files to its graph, composed of `Extract`, `Resolve` and `GraphViews` | `MCPipeline` | |
| `GraphServe` | the requests of the graph API, statement by statement and page by page; cycles and blast radii | `MCGraphServe` | `GraphServeProofs` |
| `Accounts` | sign-in, sessions, workspaces, the project API | `MCAccounts` | `AccountsProofs` |
| `Explorer` | one browser tab on the graph explorer | `MCExplorer` | `ExplorerProofs` |

In every module a step is one awaited call or statement with the synchronous code
after it. A process that dies keeps nothing but what it had written.

**JobQueue.** `status, key, attempts, ripe` are the table; `status` has two values
more than the column, `fresh` (the id is not drawn yet) and `gone` (the row is
deleted). `ripe` holds the rows whose `available_at` or `lease_until` has passed:
all the code does with time is to compare it. A worker's `pc` is its place in
`runOnce`, `delivery` the `attempts` its claim returned, which is what the code
compares with the cap (`consumer.ts:109` and `:130`), not the row's current value.
`enqueue` is the look-up, the insert and, on a unique violation, the second look-up
(`job.repository.kysely.ts:67-104`). Ack, retry and dead-letter are, as in the code,
`WHERE id = ?` with no look at status or lease, so a late settlement hits whatever
the row has become; the only thing that can refuse a retry is the partial unique
index on the key of active rows. A statement that fails may or may not have been
applied. `LeaseOutlivesDelivery` separates what holds because deliveries end in
time from what holds anyway: the lease is 30 s, nothing renews it, and one git
command alone may take longer.

**JobContract** is ADR-0023 §5 as a state machine of its own: an accepted job is
worked before it is forgotten or kept as dead for good, no key has two live jobs,
no job lingers. `JobQueue!Contract` maps row states to stages.

**GraphReplace.** `Script` is the order of the six statements of
`replaceProjectGraph` (`graph.persist.ts:197-`). Each row carries the transaction
that inserted it. A `DELETE` is two steps: when it starts it sees the committed
rows, when it ends it deletes those of them that are still there, having waited for
other writers' uncommitted changes to them. An `INSERT ... ON CONFLICT DO UPDATE`
waits for uncommitted changes to its keys, and updates a taken row in place. That
is how Postgres runs them at READ COMMITTED, the level Kysely's `transaction()`
opens. SQLite admits one writer at a time and is the case of no rivals.
`PersistGraph`, the populate CLI, is the same transaction without its deletes.

**IngestJob.** A push moves the head at GitHub and posts a delivery; a first scan, of a
repository connected or connected again, asks GitHub for the head. Each is a request of
the API with steps of its own: the project is looked up, `enqueue` takes the time and
finds, inserts, finds again. Requests run side by side, GitHub delivers in any order, and
any of them may be lost or fail. The job table keeps commits, attempts and the order rows
become due in (`clock` and `due`, the latter from the time the request took), because
here the order of deliveries matters. Cloning is folded into the claim: the tree of the
job's commit is the same whenever it is read. A file is a path, a natural in walk order,
with a content, and contents may stand at any number of paths; a *fragment* is what
parsing a file yields, and remembers the path its ids were made from. `FragmentOf` takes a
cached fragment by content alone (`ingest-delta.ts:88`, `:138-154`), `ToCache` puts one
fragment per content that missed, `FilesOf` is the file nodes that reach the tables after
rows are de-duplicated by id, and a document is kept as these: they are all the next
delivery compares. The replacement is a single step here: `GraphReplace` has its
statements. `calm` is a history: a project enters it when a push or a scan of it begins
while nothing else of the project is queued, at work or on its way, and leaves it when
something the code does not keep in order happens to it: a second request beside the
first, a job coalesced onto behind another, two of its jobs held at once, an old job
delivered again, a request or a job given up.

**GithubConnect.** GitHub is external: it changes installations when it likes and
posts a webhook for each change; it does not resend one that failed; its API
answers while the installation is active. A request is a record: its place, the
repositories left, the one in hand. The redirect links, lists, and provisions each
repository (find; create or revive; resolve the head and enqueue the first scan, which
is `IngestJob`'s).
A webhook provisions for the holder of the link, or archives. An exception ends the
request, and its loop, where it is. `met` remembers whether anything else happened
while a request ran; the property about undisturbed requests is stated with it.

**Worker.** The loop is `runOnce` and `start` at the grain of awaited statements;
the shutdown of `consume.ts:80-92` runs beside it and shares with it only the stopped
flag, the promise `withDrainTracking` keeps, and the connections. A connection may
close under a statement in flight, which may then go either way; a handler whose
connections are gone can only fail. What other workers do with the jobs is `JobQueue`.

**Extract, Resolve, Pipeline.** A repository is a sequence of files given by their
syntax, at the grain the extractor looks at it: statements, declarations, members,
bodies of locals and calls, import and export clauses. The names inside are strings
that are only compared, paths and specifiers are sequences of segments. `Pipeline`
has the order of `ingestProject`: discover (hard-coded directories, nested ignore
files), parse one file after the other, resolve, synthesize packages; the extraction
is the operators of `Extract`, the resolution those of `Resolve`, whose names are the
functions' of the code. `ResolveExportChain` shares one visited set between the star
branches of a chain exactly as `export-chain.ts:41` does, and `ProbeStars` stops, skips
and reports where it does. `GraphViews` is then evaluated on the graph that results.

**SymbolId** is the codec character by character, which is what a property about
escaping needs; elsewhere an identity stands for its id, and `CodecIsLossless` is why
that is right. Each loop of the code is a function that makes one turn, applied as often
as there are characters left, so a proof can follow it. `MintSymbol` writes the identity
of a symbol down as its id (`composeChildId`), `MintCallSite` then parses that id again
to write the id of a call in it (`composeCallSiteId`). The run of the pipeline has the
minting beside it (`MCSpec`); the two share nothing, so every identity is minted beside
an empty repository, and one beside every repository.

**GraphServe.** A request is answered by reads, one per list of its view, that run
beside each other; a read is a count, a page of rows and the look-up of the nodes the
rows name, a statement each. `Replace` may come between any two of them and between two
pages the client asks for. Rows carry the key of the code's keyset; the page logic
(`limit + 1` rows, the cursor of the last one shown) is `BuildPage`. `Tarjan` is the
loop of `cycles.ts` with its frames, links and stack, as a function of the number of
steps: `Advance` is one step. Identities and names are numbers, in the order of the
keys. Of a stored graph it is assumed (`GraphsAssumption`) what the tables' primary keys
give, nodes by id and edges by kind, sub-kind and ends, and nothing about the ends being
stored, for the tables have no foreign keys; and that a call site has no more references
than arguments, on which `graph-view.service.ts:189` relies and which the run `pipeline`
checks of every graph it makes (`BindingsFitArguments`). A request is what the query
schemas let through. The recursive query of the blast radius is `BlastPaths`; it keeps
from turning in circles by a `LIKE` on the path so far, so identities are compared by
`LikeForm`, a constant: what `LIKE` sees of an identity, which is all of it on Postgres
and not the case of its letters on libSQL.

**Accounts.** The migration `0010` first, on each of the states it may find, then
sign-ins and guarded requests interleave statement by statement. `held` in a request
is a history of the memberships its user has had while it ran, `settled` and `unmoved`
of the users and projects nothing has changed by hand.

**Explorer.** The view is the address; queries are keyed as `graphKeys` keys them;
`Render` is what one render of React and the query client do after any change: send what
is asked and unanswered, drop what is no longer mounted, cancel and start the layout.
The browser may go offline and come back: what is asked meanwhile is paused, neither
answered nor loading, and requests already sent may still land or be paused at their
retry. A layout may fail, which nothing catches; `unlaid` remembers it. `DrawingOf` and
the panel's rows abstract layout and styling.

Abstracted throughout: payloads, wording, logging; the length of a backoff ("later")
and of a lease ("ends some time, perhaps while its delivery is running").

## 3. The runs

Distinct states are those of one run of TLC with the configuration named.

| Run | Configuration | Properties | States |
|---|---|---|---|
| `queue_overlap` | 2 rows (one cannot be parsed), 1 key, 2 workers, 2 producers, cap 2, 3 claims a row, 1 crash, 1 lost statement, leases end early | `ActiveKeysUnique` `DeletedOnlyAfterHandler` `HandlerRunsBounded` | 3 880 364 |
| `queue_contract` | 2 rows, 2 workers, 1 producer, cap 2, 1 crash, 1 lost statement, leases outlive deliveries, fair | `ExclusiveDelivery` `FaultsSilenceOneEach` `KeepsContract` `KeepsFairContract` | 267 622 |
| `queue_live` | 1 row, 2 workers, leases end early, 1 crash, 1 lost statement, fair | `EveryJobSettles` | 55 488 |
| `worker` | 2 jobs, each fresh or delivered as often as the policy allows, 1 rejected statement, a signal at any time, fair | `DrainedIsNotSevered` `StopStartsAtMostOne` `ShutdownEnds` | 59 509 |
| `graph_postgres` | 2 writers, 2 documents, 3 keys a table, 4 transactions, the populate CLI too | `LatestIsPresent` `StrangersAreRivals` | 85 115 |
| `ingest_overlap` | 2 projects, 3 commits, contents at several paths of both, 2 workers, 2 requests, cap 2, a first scan of each and 1 more push or scan, 1 failure or crash, leases end early, a corrupt cache row | `CacheOnlyMisplaces` `SettledShowsHead` | 5 178 272 |
| `ingest_live` | an empty repository, 3 commits, one past the byte limit, 1 worker, 2 requests, 2 pushes or scans, 1 failure or crash, leases outlive deliveries, fair | `HeadIsShown` | 710 678 |
| `pipeline` | 2 316 repositories in four families, 46 of them with names the code does not tell apart; 4 928 identities over names and coordinates of delimiters, 3 callees | `ImportsReachAProvider` `SoleProviderIsFound` `NoImportIsSilent` `CertainIsProven` `IdentitiesAgree` `CalledIsNotUnused` `MapLevelsAgree` `CodecIsLossless` | 115 976 |
| `graph_reads` | three versions of one graph, 2 replacements, 20 requests on each; several thousand dependency graphs of 3 to 5 nodes, some with two nodes `LIKE` takes for one | `UndisturbedReadIsExact` `PagesAscend` `ShownWithItsFarEnd` `CyclesAreComponents` `BlastIsDistance` | 118 319 |
| `connect_overlap` | 2 users sharing a workspace, 2 installations, 2 repositories, 2 requests at once, webhooks in any order, 3 changes, 2 redirects, 1 failure | `NoFabricatedOwner` `AloneReconciles` `LinkIsHeld` | 2 901 815 |
| `accounts` | 2 users and a user whose row is gone but not its workspace, a team, 2 projects, 6 states of the tables, 2 requests at once, 2 sign-ins, 2 requests, 1 change, 1 failure | `RacingSessionsAgree` `BackfillMeetsSessions` `DeletedIsNeverServed` `MovesAreEarned` | 3 709 791 |
| `explorer` | 2 projects with the same ids, 3 kinds of link, 2 moves, 1 failed request, failed layout or outage | `SettledCanvasShowsView` `ShownIsAsked` | 144 573 |

What the properties say:

- *ActiveKeysUnique, DeletedOnlyAfterHandler*: racing producers, late retries and
  lost answers never give a key two active rows, nor delete a job no handler finished.
- *HandlerRunsBounded*: every start of a handler is counted where it happens, whichever
  worker and delivery it is of; there are at most `maxAttempts` for a row however
  deliveries overlap, because every claim counts itself and no two have one number.
- *ExclusiveDelivery*: no two workers run one job, as long as leases outlive deliveries.
- *FaultsSilenceOneEach*: dead letters nobody was told of are at most as many as
  crashes and lost answers: `consumer.ts:103-106` writes the row first and calls the
  sink second, and overlaps alone do not silence one.
- *EveryJobSettles, KeepsFairContract*: nothing lingers.
- *DrainedIsNotSevered, StopStartsAtMostOne, ShutdownEnds*: the connections close only
  after the handler that ran at the signal; one more may start, that of the claim in
  flight; the process ends whatever the handler does.
- *LatestIsPresent, StrangersAreRivals*: whatever overlaps, the document committed
  last is there whole, and a row it does not have was inserted by a transaction open
  at the same time as its own.
- *CacheOnlyMisplaces*: what the cache, which is keyed by content and shared by all
  projects and commits, can do to a stored graph: put a content of the commit at another
  path at which it once stood. No content the commit lacks gets in, and every path that
  shares no content with another is exactly the commit's.
- *SettledShowsHead*: whatever failed, crashed or came out of order before, one push or
  first scan that nothing overtakes repairs it: a project in `calm` for which nothing is
  on its way, queued or at work shows its head.
- *HeadIsShown*: and it does settle: the head is shown in the end, unless it moves or the
  project leaves `calm`.
- *ImportsReachAProvider, SoleProviderIsFound, NoImportIsSilent, CertainIsProven*: the
  edges the resolver draws for the imports of a file, against `Providers`, a plain
  search through the re-exports without visited set, hop by hop, or certainty: an edge
  ends at a provider; a sole provider is found; a name without an edge has a
  diagnostic; an edge is certain only if a chain without guesses proves it.
- *IdentitiesAgree*: extraction, export chains and workspace entries name nodes
  independently, and yet edges end at nodes; the symbols of a file have identities of
  their own exactly when no two of them have a name in common that the code does not
  tell apart (`NamesAreDistinct`: overloads, accessors, locals, calls and anonymous
  functions that repeat are told apart; section 6 has those that are not); an argument
  is bound once (`BindingsFitArguments`).
- *CalledIsNotUnused, MapLevelsAgree*: the derived views agree with what the source
  says and with each other.
- *CodecIsLossless*: parsing an id gives the identity it was made from, whatever
  delimiters its names are made of; that of a call site, made by parsing the id of its
  symbol, is a child of that symbol's.
- *UndisturbedReadIsExact*: all pages of a read that nothing was replaced under are the
  list, in order, counted; the parts of a node's detail are the first pages of its
  lists; bindings and maps are those of the graph, and a map says whether it hides
  containers, which come after those it shows.
- *PagesAscend, ShownWithItsFarEnd*: with replacements between pages and statements, no
  row comes twice or late; a row was in some graph stored meanwhile, and is shown with
  the node at its far end, or with none.
- *CyclesAreComponents*: the pages of a fully drained request against reachability: a
  cycle is shown for each class of mutually reachable nodes that has an edge inside,
  once, with its number of members, its least members and one edge, although the edges
  were drained in pages, nodes without both directions are dropped first and Tarjan's
  algorithm is iterative.
- *BlastIsDistance*: the recursive query against distance. Always: who is hit depends on
  the node, as many steps away as said or fewer, for certain only if certain edges alone
  lead there. Where `LIKE` tells the dependents apart (on Postgres, always): all of them,
  at their distance, for certain exactly if so, and whether more lies beyond the depth.
- *LinkIsHeld, NoFabricatedOwner*: a link is never taken from its holder, and a
  project is never given to a user, or an installation, no redirect linked.
- *AloneReconciles*: from anything earlier requests left half done, one undisturbed
  redirect connects all that is granted, and one undisturbed deletion archives all
  the installation had and unlinks it.
- *RacingSessionsAgree, BackfillMeetsSessions*: racing sign-ins, and sign-ins after the
  migration, agree on one workspace though statements fail half-way.
- *DeletedIsNeverServed, MovesAreEarned*: a session that overtook the deletion is
  refused; a move was checked against memberships its user had while the request ran.
- *SettledCanvasShowsView, ShownIsAsked*: late answers, cached answers and cancelled
  layouts are never taken for those of the view: once its map is there and laid out, the
  canvas draws that map. While an outage pauses it the map before may stand (section 6).

**Bounds.** Two workers, two producers, two writers and two requests are what a race of
these statements needs: no action compares three actors. Two rows with one key are what
the key index, and a late retry against a newer row, need. Cap 2 with 3 claims a row
reaches retry, exhaustion and a delivery past the cap; in the fair runs the bound on
claims, 9, is never what stops a job, since with one crash and one lost statement a row
is claimed at most a few times. Two documents differ by a changed, a removed, an added
and a re-pointed row and an unresolved reference; four transactions are two generations
of two rivals. In `ingest_overlap` a content stands at two paths of one commit, at one
of them in another and at a third in the other project, so fragments are misplaced
within a commit and across projects; a commit deletes a file; two requests are enough to
race each other, and a job of their own. `ingest_live` starts from an empty repository,
so that both the scan and the pushes must bring it in. Three changes at GitHub with two
redirects reach install, suspend or uninstall and return, and the re-homing of a project
between two users.

The families of repositories are products of small choices, each there for a case of the
code: *Barrels* (two leaves and a hub, every pair of statements: diamonds, cycles,
renamings, a star to a package, a missing file), *Uses* (every import clause against
every shape of callee in top-level functions, locals and methods), *Shapes* (overloads,
accessors, fields, static beside instance members, a type beside a value, a key
destructured twice, shadowed locals, repeated calls), *Workspaces* (nested packages,
built entries, sub-paths, aliases that bind inside the repository, ignore files, globs).
In `graph_reads` a page holds 1 to 3 rows, so every list is cut at least once; graphs of
3 nodes are all of them, those of 4 have 4 to 6 edges, some longer ones exceed the
member cap; in the last family two of four nodes differ by case only. Two replacements
with three versions let a row go and come back. Two moves of the explorer, the
opening of a page among them, and going back leave three layouts and their answers in
flight, any one of which may fail or wait for an outage to end; its viewer acts while
fewer than two requests are unanswered, and types when none is. Where a theorem of section 5 exists it holds without any of these bounds.

Deadlock checking is off where the system may stop: bounded pushes, transactions,
changes, requests and moves used up, the pipeline done, the id of a call minted, the
worker exited. It is on for
`JobQueue`, where a worker can always poll, and for `GraphServe`, where a client can
always ask.

Symmetry is declared for workers, producers, jobs, writers, installations,
repositories and requests, in safety runs only; users are not interchangeable (one
is a member of the other's workspace), nor are the two rows (one cannot be parsed).

## 4. Fairness

`JobQueue!Fairness`: weak fairness of a worker's claim, of its work on a row it
holds, and of time. The polling loop never stops: `consumer.ts:149-169` catches
everything and sleeps. An awaited statement settles one way or the other, and so
does the handler: git runs under a wall-clock timeout and the ingest is a finite
computation. Clocks advance. A retry that the index refuses ends in `onError`, so it
counts as the worker's own step. Enqueues, crashes and lost statements are unfair
and finitely many. No strong fairness is needed: a claimable row stays claimable
until a worker claims it.

`IngestJob!Fairness` is the same for claims, the steps of the handler, backoffs and
leases, and for the steps of a request that has begun, every one of which is an awaited
call that returns; pushes, first scans and faults are the environment's.
`Worker!LiveSpec` has weak fairness of the loop (every promise it awaits settles), of
`drain()` resolving, of each connection's close and of the exit; the signal is the
environment's. `GithubConnect`, `GraphReplace`, `GraphServe`, `Accounts` and `Explorer`
state no liveness: nothing retries a failed request or a webhook GitHub does not repeat,
a replacement is retried by the queue, and a page or a client may always leave.

## 5. What is proved

Eight modules hold theorems, every one of them checked by TLAPS down to the leaves. A
theorem holds for all values of the constants that its module's `ASSUME`s admit: any
sets of actors, any bounds. What else it needs stands in it as a hypothesis.

**JobQueueProofs.** `IInv == TypeOK /\ LoopInv /\ RowInv`. The three row properties
(`KeysStayUnique`, `AtLeastOnce`, `DeadIsExhausted`) are not inductive: a row that is
deleted must be known to have been worked, which is a fact about the program counter of
the worker that deletes it. `LoopInv` says what each place in the loop knows: the row is
not fresh; the delivery number is one the row has counted; one at the ack has resolved;
one at the dead letter is past the budget; no two holders of a row have the same number
(`DeliveriesStayDistinct`); and the starts of a row and its holders yet to start are
together no more than the claims it has counted, and no more than the cap, which is
where `PoisonBounded`, at most `MaxAttempts` starts, comes from. `FaultsPayForSilence`
compares a cardinality with a counter: by `SilentStep` a step either adds no dead row
that nobody was told of, or is a crash or a lost answer of the one worker between the
dead letter and the sink, adds its row only, and is counted. Under
`LeaseOutlivesDelivery`, `ExInv` adds that a held row is under its lease; from it
`HoldersExclude`, `DeadStays` and the refinement `QueueKeepsContract`: every step maps
to a step of `JobContract` or to a stutter.

**WorkerProofs.** `DrainWaits` and `OneLateStart` for any jobs, attempts and failures.
The invariant ties the tracked promise to the loop (it is unsettled exactly while a
handler runs, and is that handler's), the awaited run to the runs counted before the
signal, and the count of late starts to where the loop is: one late start leaves the
loop past its only claim.

**GraphReplaceProofs.** `LatestStays`, `OnlyRivalsSurvive`, and `AloneIsExact`: a
replacement that overlapped no transaction leaves exactly its document. The
invariant says that changed rows belong to one open transaction (`Exclusive`), that
each transaction knows whom it overlaps (`TxInv`), how old a row may be
(`TableBirths`, `OwnBirths`), what the statements passed have done (`ScriptInv`), and
that a row a finished `DELETE` left, or a running one does not see, was inserted by
an overlapping transaction (`DeletedInv`, `SnapInv`).

**IngestJobProofs.** For any projects, commits, trees, workers, requests and faults.
`OnlyMisplaces`: `CacheInv` is that a fragment in the cache, or in what a worker has read
of it, was parsed from a file of the content that is its key, at a path where some commit
has it. The first writer of a key wins, so nothing more can be said; but then what
`FilesOf` makes of a tree has only contents of it, at such paths, and at a path that
shares no content with another the tree's own (`FilesMisplaced`). `SameCommit` is its
consequence for trees in which no content is ever at two paths. `SettledShows`: the order
of the queue alone proves nothing, since requests and deliveries overtake one another; what
is inductive is `Orderly`, of the projects in `calm`: at most one request carries a commit,
the head's; jobs of older commits that no worker has claimed yet are due before the
head's; one worker at most works on the project; and a request is on its way, or a job of
the head is queued, or the graph reflects the head and no older job can change it again.
`OrderInv` adds that what was claimed has used an attempt and that no due time lies ahead
of the clock. There is a lemma per action; those that put a project out of order have
nothing to show for it, and what touches one project leaves the others as they are
(`Frame`, `Elsewhere`).

**GithubConnectProofs.** `LinksAreHeld` (a request that is about to unlink an
installation works on a deleted one: `GoneInv`), `OwnersAreReal` (`OwnedInv`: holders
only grow, and a request works for a holder), `UndisturbedReconciles` (`Progress`: a
request nothing has disturbed has connected, or archived, everything it is not still
to do).

**ExplorerProofs.** `AnswersAreOwn` and `CanvasSettles` for any projects and addresses.
What is cached stands under the key of its own request, and equal keys are equal
requests (`KeysTell`); that is all `ShownIsAsked` needs (`CacheInv`). For the drawing,
once the map of the address is there every layout still running that was not cancelled
is of that map, and with none running the canvas is, unless that map's own layout has
failed (`DrawInv`). While the map is not there, paused or not, nothing is claimed of the
canvas but that it is of the open project.

The same module holds the theorems about `SymbolId`, by whose ids requests, and
everything else, name symbols: `Lossless` and `IdsAreUnique` for any characters and any
identity the schemas admit (a disambiguator is a number, and no package name begins
with a space), and `IdsReadBack`, for whatever is minted. A loop of the parser takes a
character off the text at least in each turn (`Runs`), so the turns it is given are
enough (`LoopEnds`), and what it does with a text follows from what it does with its
pieces, by induction on the text (`TakesAll`): quoted names, with their quotes doubled
(`QuotedReads`), plain ones (`PlainReads`), disambiguators (`UpToReads`), descriptor by
descriptor (`DescriptorReads`, `PathReads`), and the fields of the coordinate
(`FieldReads`). Splitting passes the path unchanged because every space of it stands
between quotes (`PathPasses`). The id of a call site is that of a child because parsing
its symbol's id gave the identity (`MintedInv`).

**AccountsProofs.** `DeletedStayOut` and `MovesWereEarned` for any users, projects,
requests in flight and failures. The invariant gives every request what it knows at its
place: one that came late is stopped at the guard (`Guarded`); a move holds all the
memberships its user has now, and those its checks found (`Earned`), which needs that
whoever inserts a row notes it, and that no request runs before the migration. The
migration is the longest case: it lays a set of rows out as a sequence, and leaves no
project without a workspace. Assumed: finitely many users, and tables the migration
finds that hold rows of members. `SessionsAgree` and `BackfillMeets` need the order of
the membership rows: a user falls back to the earliest of its rows (`Earliest`), which
appending rows never changes (by well-foundedness of the positions there is an earliest
one). `Agree` says where every sign-in of a user nobody has meddled with stands towards
that workspace: who inserts it adds the first row, at most one sign-in does
(`OneJoins`, from the unique slug), the others find it, and so sessions (`Sessions`) and
moved projects (`Homes`) are all there.

**GraphServeProofs.** `UndisturbedReads`, `PagesOnlyAscend`, `RowsAreGenuine`,
`CyclesAreExact` and `BlastIsExact` for any graphs, requests, page and member limits.
`ServeInv` is the inductive invariant: types and which graphs were stored meanwhile
(`TypeInv`), which of head, reads and pages there may be at once (`Flow`), and then what
the head (`HeadInv`), each read at its place (`ReadsInv`) and the answers so far
(`PagesInv`) are, each in two parts: what holds whatever was replaced, rows of some
graph stored meanwhile, in the order of their keys, after the cursor, with nodes of some
such graph; and, if there was one graph only, that they are the rows of its list that
follow the cursor. The lemmas say what the keyset code relies on: `Before` is a strict
total order on the keys of a list (`BeforeTotal`, and `ListsKeyed`: no two rows of a
list have one key), `ByKey` enumerates in that order, what is after the last row shown
is the rest of the enumeration (`ByKeyAfter`), a page is a segment of it (`PageExact`),
segments add up to the whole (`PagesOfWhole`), and pages of different graphs still
ascend (`PagesInOrder`). For cycles the keys must be distinct too: each step of Tarjan's
algorithm keeps nodes in one place at most, the stack or one found component (`Sound`,
`AdvanceKeeps`), so components are disjoint and their least members differ
(`CycleRows`). That they are all, and strongly connected, is Tarjan's invariant
(`Traced`): the stack is in the order of the numbers, a frame leads to every stacked
node from its own on and each stacked node to a frame at or below it, a low link names a
stacked node led to, every edge already followed ends on the stack or in a found
component, and what a found component leads to is in it or was found before. Every step
keeps it (`AdvanceTraces`) and does something new of a bounded set, entering a node,
leaving it or following an edge (`Done` within `Tokens`), so twice the nodes plus the
edges are steps enough (`TokensBounded`, `TarjanClasses`): what `findCycles` returns are
the classes of reachability (`CyclesFound`), and dropping nodes that lack a direction
changes none of them (`CyclicClasses`). `CycleInv`, inductive beside `ServeInv`, carries
this from the edges drained so far to the pages. For blast radii, a path of the
recursive query ends where dependencies lead in as many steps (`PathsReach`), whatever
`LIKE` takes for whatever, so hits are dependents and the certain ones certain
(`RadiusIsSound`). That all dependents are hit needs that `LIKE` tells those within the
depth apart (`ToldApart`, a premise of the property): then whatever dependencies lead to
is met by such a path (`ReachedByPath`: one that ends at a node first reached now has
not been there), the least depth of a hit is its distance (`RadiusIsDistance`) and
nothing leads on from hits that all fall short of the depth asked (`RadiusIsWhole`); the
pages together show every row (`PagesShow`), and a first page keeps the mark of its read
(`MarkInv`, inductive beside `ServeInv`). Of the assumptions on stored graphs only
finiteness, the primary keys and "as many references as arguments" are used.

Recursion is in reach where it is a function on the naturals: `Iterates` proves, from
the well-foundedness of the naturals and a set of chains, that such a function exists
and unfolds, and `Induction` states induction over sets; `Tarjan`, `BlastPaths` and the
climb to a node's file are unfolded with them, and the loops of the codec likewise.

Left to TLC: liveness (`EveryJobSettles`, `KeepsFairContract`, `HeadIsShown`,
`ShutdownEnds`), which is out of TLAPS's reach; the properties of `Pipeline`, which
relate operators that recurse over sequences of files, statements and segments. Every
other property of the runs is stated by a theorem.

## 6. Where code and documents disagree

Met while modelling; each follows from the lines quoted. None of them is a run: where
a property would be false, the run checks the strongest form that is true, and the
text of the property says what it leaves out.

*Queue and worker.*
- A dead letter is written (`consumer.ts:103-106`) before the sink is told; a crash or
  a lost answer between the two leaves a dead row nobody heard of, although
  `consumer.ts:16-17` and ADR-0023:59 say dead letters are never silent. The run bounds
  their number by the faults (`FaultsSilenceOneEach`).
- A delivery past the cap is explained by crashes (`consumer.ts:128-129`); overlapping
  deliveries of a slow job use the budget up as well.
- A settlement is `WHERE id = ?` alone: a late one of an expired lease revives a dead
  row or deletes it under the worker that holds it now.
- `enqueue` may raise the unique violation it means to absorb: the row that won can be
  gone at the second look-up (`job.repository.kysely.ts:94-102`).
- A row whose payload does not parse is reported and waits for its lease, again and
  again: its attempts are never compared with the cap, so it is never dead-lettered
  (`consumer.ts:14-15`, `:126`).
- A retry is scheduled from the clock read before the claim (`consumer.ts:113`), so
  after a handler longer than its backoff the retry is due at once.
- "A clean stop never severs a running job" (`consume.ts:12`): the handler that runs at
  the signal, yes (`DrainedIsNotSevered`); that of a claim in flight at the signal
  starts after `drain()` has looked, and the ack or retry after a drained handler may
  meet closed connections (`drain.ts:24`).

*Ingest.*
- Two workers' overlapping replacements merge two documents (`graph.persist.ts:197-`,
  READ COMMITTED): `StrangersAreRivals` says whose rows may stay.
- A fragment is keyed by content and carries the path it was parsed at: the graph of a
  commit that renames a file, or copies one, may carry the old path, and bytes shared
  by two projects may be answered with the other's (ADR-0025:49-50).
- So may every graph with bytes at two paths: the fragment of one of them stands for
  both, and one file has no node (`CacheOnlyMisplaces` says how far this goes).
- "'unchanged' means the commit is already reflected" (`ingest-job-handler.ts:96`): a
  commit that changes only tsconfig or the workspace's manifests is answered "unchanged",
  for the file hashes compared leave them out, and the edges stay those of the old ones.
- Redelivered after a newer commit, a job writes the older graph back
  (`apps/worker/README.md:32` calls the ingest idempotent).
- Two push webhooks of a repository are handled side by side, and nothing compares their
  commits: if the older one enqueues second (`github-webhook.service.ts:126-156`), the
  older commit is ingested last and stays. Likewise a first scan that resolved the head
  before a push and enqueues after it (`github-install.service.ts:218-226`), and a push
  that comes before the project is stored, which is ignored.
- A push back to a commit whose job is active is coalesced into it, so commits pushed
  between them come last (`github-webhook.service.ts:153`, ADR-0025:83).
- A delivery GitHub could not make, and a request that fails, are not made up for until
  the next push. `SettledShowsHead` is the strongest form that is true: it speaks of
  projects whose last push or scan met none of these.

*Resolver and views.*
- `extractExports` keeps the last symbol of a name, and `resolveTarget` binds a call to
  the top-level symbol of the callee's name even where a local of the caller shadows it.
- "Exactly one distinct provider is a proof" (`export-chain.ts:105-112`): a star whose
  target could not be followed (a missing file, an ambiguous chain, a module another
  branch has visited) counts as one that does not provide the name.
- Some declarations of one name share an identity: a type and a value of one name at the
  top level (`symbols.ts:64`, `:114-119`: "a unique public name", and ADR-0027:62-64), a
  static and an instance field, getter or setter (`members.ts:190-217`), a key
  destructured in two parameters (`params.ts:87`). Of nodes with one id the last is
  stored (`graph.persist.ts:34-42`) and the edges of all of them end at it.
  `IdentitiesAgree` says that there are no others.
- "Identical on libSQL and Postgres" (`blast-radius-sql.ts:15-16`,
  `graph.blast-radius.spec.ts:3`): `LIKE` ignores the case of ASCII letters on libSQL,
  which `dialect.ts:53-55` leaves at its default, so a path through `Button` does not go
  on to a `button` of the same file, and whatever depends on the second alone is missed.
- A symbol called only inside a method or a local, or as `ns.x.m`, is reported as unused
  (docs/adr/0029:140).
- The bindings of a call are read up to as many rows as it has arguments
  (`graph-view.service.ts:190`). That it has no more references is a fact about the
  extractor, which nothing in the tables enforces (`BindingsFitArguments`).
- Neighbours are read by two statements (`graph.core-reads.ts:157`), so a row may be
  shown without its node; ADR-0025:61-62 promises a graph in one piece.
- The codec does not restore a package name that begins with a space, nor a
  disambiguator on a suffix other than a method's; neither occurs in what is extracted.

*Connecting and accounts.*
- The redirect and a webhook that create the same project collide on its unique index;
  the exception ends the loop, and the repositories behind it wait for another redirect.
- A late `removed` webhook archives by repository name whichever installation has
  connected it since (`github-install.service.ts:170`).
- A deletion reads the list of projects while a redirect may still be provisioning, and
  misses what is created after it (`github-webhook.service.ts:169`).
- A workspace inserted without its membership is not repaired by "the next session
  simply retries": the slug stays taken.
- A move is written though the membership it was checked with may be over.

*Explorer.*
- Switching the scope of the symbol map keeps a package's id as the scope
  (`graph-explorer.tsx:125`); a click on a drawing of the view before it opens that
  view's node (`graph-explorer.tsx:97-105`).
- While the browser is offline a map that is not in the cache is paused, which is not
  loading (`graph-explorer.tsx:231` asks for both): the drawing of the view before stays
  under the new address, and the blast panel says that nothing depends on the node, as it
  does when its request failed.
- A layout that fails is not caught (`graph-explorer.tsx:194`): the drawing before stays.
- No list follows `nextCursor`: what lies beyond the first page is counted, not shown.

## 7. What is not modelled

- Below the abstract syntax of `Extract`: tree-sitter and the walk of its tree, types,
  JSDoc, literal values, positions. They are data no property compares.
- The text of the SQL statements; the signatures and the schemas of webhooks and
  payloads; what the modules call a row or a payload is what passes them.
- The in-memory job store (a second implementation of the same interface, for tests),
  the GitHub App client and its token cache, the migrator except migration `0010`.
- The API's core (filters, health, mails, configuration), environment, i18n, the UI
  library, the web pages other than the explorer, docker and scripts: input and output
  with no state of their own.
- Sizes: hash collisions, integer widths (counters are bounded by the policy), the
  number of bytes of a repository beyond "past the limit or not".

`PROJECT.json` has the status of each part and the reason.

## 8. The plan

Done, in the order of importance: the queue and its contract; the replacement; the
ingest job; connecting; the pipeline from files to graph; the reads; the worker's
shutdown; accounts; the explorer. Left:

1. The resolver's export chains as a function of steps, so that `CertainIsProven` can be
   stated about a module without recursive operators.
2. `IngestJob` over the full `JobQueue` and over the statements of `GraphReplace`,
   instead of their summaries, and the reads of `GraphServe` beside them.
3. The in-memory store against `JobContract`; the token cache; the migrator.
