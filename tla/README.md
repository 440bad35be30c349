# A verification project for the EasyRent API

TLA+ models of the Go API in `src/` (a rental-listing service: accounts and
sessions, listings, favorites, rate limits, over PostgreSQL), the TLC runs that
check them on small instances, and TLAPS proofs for every instance.

    tlc -workers 2 -config MCSessions_races.cfg MCSessions    # one run
    tlapm Sessions_proofs.tla                                 # one proof module

## 1. The system

| Component | Code | State | Operations |
|---|---|---|---|
| Sessions | `internal/auth`, `internal/web/auth*.go` | `refresh_tokens`, `password_reset_tokens`, `users.tokens_valid_after` | sign-in, refresh, sign-out, forgotten / reset password, `RequireAuth` |
| Accounts | `internal/auth` | `users` | sign-up, e-mail verification, avatar |
| Rate limiter | `internal/ratelimit`, `internal/web/limits.go` | one map of buckets per surface, in memory | `Allow`, eviction |
| Listings | `internal/listing`, `internal/web/listing_handlers.go` | `listings`, `listing_media` | create, read, search, update, delete, status, media |
| Favorites | `internal/favorite`, `internal/web/favorite_handlers.go` | `favorites` | add, remove, list |
| Token janitor | `cmd/api/main.go`, `DeleteExpiredSessions` | none of its own | sweep every hour |
| Process | `cmd/api/main.go`, `internal/db`, `internal/config` | configuration, connection pool, HTTP server | load, start, serve, shut down |
| Migration runner | `cmd/migrate` | `schema_migrations` | up, down |
| Middleware | `internal/web/handler.go`, `cors.go` | none | routing, body limit, panic recovery, CORS |
| Crypto, e-mail, API docs | `passwords.go`, `tokens.go`, `email.go`, `scalar.go`, `docs` | none | pure functions, outgoing calls, static text |

**Interaction.** Every HTTP request runs in a goroutine of its own. Handlers call a
service, a service calls a store, and a store runs SQL statements on a shared pool:
all coordination between requests happens in Postgres, except in the rate limiter,
whose map is guarded by a mutex. Almost every statement is autocommitted; the only
transactions are `RevokeAllUserTokens`, `CompletePasswordReset`, and those of the
migration runner. The janitor is one more goroutine on the same pool. Authentication
runs before the per-user limits (`Routes`), the per-IP limits before the handler.

**What is hard.** Requests interleave between any two statements, and what a service
read (a token row, a password hash, an owner) may be stale when it writes. Two
transactions take the same row locks in opposite orders. `now()` is the start of a
transaction, not its commit. Any request can stop at any statement: the client hangs
up, a query fails, the process dies. `PROJECT.json` lists each hazard at its line.

**What makes each component correct.**

- *Sessions*: a refresh token is exchanged once; a session that ended never comes
  back; a lockdown or a reset kills what it can see, all or nothing; a reset link works
  once; the watermark refuses old access tokens and no new ones; every request ends.
- *Accounts*: one account per e-mail and phone under racing sign-ups; an account whose
  sign-up succeeded can be verified; verification is never undone.
- *Rate limiter*: the map is bounded; no caller exceeds its budget, whatever is evicted.
- *Listings, favorites*: only the owner changes a listing, also when it is deleted
  between check and write; no orphans; a price that passes validation fits its column; an
  answer that no write disturbed is exact, and a walk through the pages misses nothing
  that was there all the while.
- *Migration runner*: schema and record agree, also after a crash and with two runners;
  running "up" again gets there, once no row keeps a file from running.
- *Process*: requests end before the pool closes; no connection is lost and no request
  waits forever; a signal or a failed listener ends the process; lifetimes are positive and as configured.

## 2. Modules

| Module | What it is |
|---|---|
| `Sessions` | the login-session machinery, statement by statement; its properties; the inductive invariant; the mapping to `SessionChains` |
| `SessionChains` | the abstract specification: what a session is, without requests, rows or locks |
| `MCSessions` | symmetry for TLC |
| `Sessions_proofs` | type correctness, the inductive invariant, four safety theorems |
| `SessionChains_proofs` | the refinement theorem |
| `Accounts`, `MCAccounts`, `Accounts_proofs` | sign-up, verification and avatar, statement by statement, their properties, their proofs |
| `Registry` | the abstract specification of `Accounts`: sign-up, verification and avatar as single steps |
| `RateLimiter`, `MCRateLimiter`, `RateLimiter_proofs` | the token-bucket map, its properties, its proofs |
| `TokenBuckets` | the abstract specification of `RateLimiter`: a bucket per caller, always there |
| `Listings`, `MCListings`, `Listings_proofs` | listings, media and favorites: the owner's writes, and reads put together from several statements |
| `Catalogue`, `Catalogue_proofs` | the abstract specification of the writes of `Listings`, check and effect in one step; the refinement theorem |
| `Migrate`, `Migrate_proofs` | runs of the migration runner, over any set of files |
| `MigrationFiles`, `MCMigrate` | the repository's eight SQL files, one definition each; the constants of `Migrate` made of them |
| `MigrationLog` | the abstract specification of `Migrate`: a file and its record at one moment |
| `Process`, `MCProcess`, `Process_proofs` | the life of the API process, its configuration, and the connection pool |

The modules are separate because their components share the database only through
tables that one of them owns: `Sessions` and `Accounts` split a sign-up, and
`Process` says what every handler does with the pool, whatever its statements.

### Sessions

*State.* `refresh`, `reset` and `account` are the rows of the three tables. `req[w]`
is what the request of goroutine `w` holds in local variables: where it is (`stage`), the user and
token it read, the start of its transaction, the rows its revoke statement has still
to lock (`todo`) and those it has locked (`held`). `janitor` is the next DELETE of the
sweep. `now` counts whole seconds, the precision of the watermark and of JWT times; there is
one clock, where the code has two: the API's host dates tokens, Postgres rows and watermarks.

*Actions.*

| Code | Actions |
|---|---|
| `SignUp`, `SignIn`, `issueTokens` | `SignUp`/`SignIn`, `SignAccessToken`, `StoreRefreshToken` |
| `Refresh` | `RefreshFind`, `RefreshClaim`, `SignAccessToken`, `StoreRefreshToken`; for a revoked token `RefreshFind`, then the lockdown |
| `RevokeAllUserTokens` (lockdown) | `Begin`, `RevokeAll`, `LockRow`*, `BumpAndCommit` |
| `ResetPassword`, `CompletePasswordReset` | `ResetFind`, `Begin`, `ClaimReset`, `SetPassword`, `RevokeAll`, `LockRow`*, `BumpAndCommit` |
| `SignOut` | `SignOutFind`, `SignOutRevoke` |
| `RequestPasswordReset`, `VerifyEmail` | one action each |
| `DeleteExpiredSessions`, `startTokenJanitor` | `SweepRefresh`, `SweepReset`, `SweepFails` |
| `RequireAuth` | the state predicate `AccessAccepted` |
| error, hang-up, crash | `Abort`: the local state is lost, the transaction rolls back |

*PostgreSQL* is modelled from how the code uses it (READ COMMITTED): a statement sees
what was committed when it began; an UPDATE locks the rows of its snapshot one by
one and waits for each; a row changed meanwhile is checked again, so that
`revoked_at IS NULL` is decided on the committed row; a transaction's writes become
visible together at commit; a cycle of waiters is broken by aborting one of them
(`DeadlockVictim`: any member of a set of requests that each wait for another of the set).

*Merged or left out.* A single-statement write is atomic. `SignUp` up to
`issueTokens`, and `VerifyEmail`, are one step each (`Accounts`
takes them apart). A request refused without a write is not a step. A sweep's DELETE
is one step that waits until no row it wants is locked. Hashing, signing and
e-mail are functions without state; tokens are unforgeable values, never issued twice:
hence a swept row is kept with the status `swept`. `TokenLeft`, `MaxTime` bound the
model. `family`, `raced`, `outlived`, `uses` record history for the
properties and guard nothing.

*The abstraction.* In `SessionChains` a session is a chain of refresh tokens named by
the first. It is `held` by exactly one token, `passing` between two, or `closed`. The
mapping (`ChainNow`) reads it off the rows and the rotations in flight. The refinement
says at once that a token is exchanged at most once, that a chain passes on to fresh tokens
only, and that no sign-out, lockdown, sweep or failed refresh is ever undone by a
request that was still in flight.

### Accounts

*State.* `users` are the rows (a row without e-mail is not there), `inbox` the links the
mail service delivered, `req` what each request holds, `told` what sign-ups were answered.

*Actions.* `SignUp` is the look-up, `SignUpTaken` its early return, then `CreateUser`
(the three unique indexes of `users`, in the migrations, decide),
`StoreVerificationToken`, `SendVerificationEmail` and `IssueTokens` in the order
`Following` gives; storing the link may fail and ends the request, sending it may fail
and does not. `VerifyEmail` finds by link and checks its expiry, `MarkEmailVerified` marks by
id. `RequireVerified` and `UpdateAvatar` are the avatar. `Abort` ends a request at any statement.
Spellings of an address are values, `Lower` folds them (`normalizeEmail` and SQL's
`lower`); only a link that was delivered is ever presented.

*Left out.* The password, the session tokens (`Sessions`), and the read-back of the avatar.

*The abstraction.* `Registry` knows accounts, and whether mail `reached` the address of each; no
requests, links or lifetimes. `CreateUser` is its `Register`, a mail delivered to an account's own
address `Reach`, `MarkEmailVerified` `Verify`, `UpdateAvatar` `SetAvatar`; every other step changes
nothing there. So a verification, which finds its account by link in one statement and marks it by
id in another, never verifies an account that no mail reached.

### RateLimiter

*State.* `visitors` are the keys of the map, `bucket[k]` the library's bucket (credit
as of the last granted request) and the time of the last request. Credit is in units
of time: a request costs `Every`. `window` is an observer's: it opens at any
moment and adds up what one caller spends from then on; what holds of every window
holds of every interval.

*Actions.* `Allow(k)` is the whole critical section: `evictLocked` if the key is new
and the map full, then look-up or insertion, then the library's `Allow`. `Restart`
empties the map. All times of one `Allow` are taken as equal: they are read under the
mutex within microseconds. The `limit` middleware adds a 429 and no state. The key (address,
or prefix and user) is an opaque value.

*The abstraction.* In `TokenBuckets` every caller has a bucket that gains one unit per unit of time.
The mapping is `Left(k)`: what the entry would refill to now, a full bucket if there is no entry.
Evicting idle entries becomes invisible; evicting at the cap is `Displace`: the newcomer pays from a full
bucket and at most one other caller gets its debt back. This is what `idle` refutes of `Create`.

### Listings

*State.* `row`, `media` and `fav` are the rows of `listings`, `listing_media` and
`favorites` (an owner `None`, a listing `None`, a time 0: no row). `req[w]` is a writing
request between the statement that let it in and the one that writes. `read[c]` is a
client that reads: the query, the page, and what the statements so far have put into its
answer. `clock` gives each writing request one tick, the `now()` of its INSERT; rows may
become visible in another order than that of their stamps.

*Actions.*

| Code | Actions |
|---|---|
| `createListing`, `Create` | `CreateListing` (validation), `Insert` |
| `updateListing`, `updateListingStatus`, `Update`, `UpdateStatus` | `UpdateListing` / `UpdateListingStatus` (validation, `FindByID`, `assertOwner`), `Update` |
| `deleteListing`, `Delete` | `DeleteListing`, `Delete` with its cascade |
| `addMedia`, `AddMedia` | `AddMedia`, `InsertMedia` |
| favorites | `AddFavorite`, `InsertFavorite`, `RemoveFavorite` |
| `Store.list`, `favorite.Store.List`, `AttachListMeta` | `ListListings` / `MyListings` / `ListFavorites`, then `SelectRows`, `CountTotal`, `CountFavorites`, `SelectCovers` |
| `FindDetail` | `GetListing`, then `SelectRows`, `SelectMedia`, `CountFavorites` |
| the next page; the end of an answer | `TurnPage`, `Leave` |
| error, hang-up, crash | `Abort`, `Leave` |

A body is a record of the fields that decide something: the price as it was sent
(its value, and whether it is a plain numeral), rooms, the length of the address,
whether a text holds U+0000, the status. `ParsePrice`, `ValidCreate`, `ValidUpdate`, `ValidStatus`, `ParsePageQuery` are the handlers'
checks; `Storable` is what the columns take. `Wrap` is Go's `int`. The database keeps
foreign keys (`Referenced`) and cascades.

*The observer.* `calm` is true while nothing was written since the first statement of a
page. `steady` are the listings that a walk must still show or has shown: those that
matched when it began, less those that left its list and those older than one that
left. `seen` are those that it showed. None of them guards an action.

*Left out.* Columns that are checked alike and hold what passes but for U+0000 (title, description,
coordinates, furnished); further filters, which select by further columns; the count
that goes with the answer of an update; the landlord's contact in a detail, which is
a field more for a verified caller. Two rows never have the same `created_at`; the code's
ORDER BY would leave rows that have in any order, another one on each page.
`DeleteMedia` and `IsFavorited` have no caller. Who is signed in is decided in `Sessions` and
`Accounts`; any user may be.

*The abstraction.* In `Catalogue` anyone may ask for anything (`Ask`), and a request is looked at once, when it
takes effect: `Publish`, `Edit`, `Withdraw` and `Attach` check the owner and do all they do in one step,
`Like` needs a listing that is there; or it comes to nothing (`Fail`). An `item` never comes back
after it is gone. The mapping hides stamps and readers; `AskedOf` is what a request in
flight has yet to do. The refinement says that checking in one statement and writing, by id alone, in
another makes no difference to what is written.

### Migrate

*State.* `schema` are the versions whose changes are in the database, `recorded` the rows
of `schema_migrations`, `obstacles` the files that some row of the tables makes fail now, `run[r]` what a run holds: its direction, the versions it read
at its start, the file under way. `mixed` notes that an "up" and a "down" run overlapped.

*Actions.* `Start` connects and reads the versions; `Begin` opens the transaction of
the next file (the loop of "up", or the one file of "down"), `Done` finds none;
`Body`, `Record` and `Commit` are `applyFile`. `Stop` cuts a run short anywhere: an
error, the 30 seconds, a crash; its transaction rolls back. What an SQL file does
is described by constants: on which versions it builds (`Needs`, `DownNeeds`),
which ones are in its way (`Blocks`), which go when it drops a table (`Takes`), which may
be applied twice (`Repeatable`), and which some rows make fail (`Fragile`): `000004...up.sql` on addresses
that differ only by case, `000003...down.sql` on a price too wide for the narrow column. Such rows come
(`Obstruct`) and are resolved (`Resolve`) at any time that no file under way holds their tables, and
as often as it pleases; a file that meets one fails as a whole. `Locked` makes a file wait for another transaction that
has touched the same tables. `DependencyAssumption` says how the constants of a set of files hang
together, because PostgreSQL does not drop a table under what needs it; TLC evaluates it on
the four files.

*The abstraction.* `MigrationLog` has schema and record alone. `Apply(v)` and `RollBack(v)` change both at
once, on a schema that the file fits at that very moment. A run checks the fit in `Body`, reads
what is recorded at its start, and writes at `Commit`; `Begin`, `Body`, `Record` and `Stop` are invisible.

### Process

*State.* `phase` is how far `run` in `main.go` is, `config` the lifetimes it loaded,
`server` the goroutine of `ListenAndServe`, `signal` the channel, `pool` and `inUse` the pool
and its lent connections, `user[u]` a request's handler or the janitor: the statements
it has left, and whether it runs, waits for a connection, holds one, or was cut off.

*Actions.* `Load`, `Open`, `Serve`, `Notify`, `Select`, `Shutdown`, `Close`, `Exit` are `run`
in its order, deferred calls included; `Listen` and `Signal` are what may happen to it at any
moment. `Accept` and `Tick` begin a request or a sweep; `Query`, `Granted`, `Refused`, `EndStatement`
are a statement on the pool; `Fail` is an error, a hang-up or a panic (`withRecover`);
`Answer` ends a handler. `Shutdown` ends when no request is left, or by its ten seconds.

*Left out.* Idle connections and their lifetime, which change nothing a handler sees;
environment variables that are text with a default.

## 3. Runs

| Run | Checks | Instance |
|---|---|---|
| `races` | `TypeOK`, `SingleLiveToken`, `LockdownKillsStored`, `ResetSingleUse`, `ChainsSpec` | 3 tokens, 1 reset token, 2 requests, one second; 246 474 states |
| `expiry` | `NewSessionAccepted`, `IInv` | 2 tokens, 1 reset token, 2 requests, two seconds; 589 844 states |
| `liveness` | `RequestsFinish` under `FairSpec` | 2 tokens, 1 reset token, 2 requests, no symmetry |
| `reset_ends` | violates `ResetEndsSessions` | as `races` with 2 tokens |
| `watermark` | violates `RejectedStaysRejected` | 1 token, 2 requests, three seconds |
| `contacts` | `TypeOK`, `OneAccountPerContact`, `CreatedCanVerify`, `MailedLinkWorks`, `VerifiedByMail`, `RegistrySpec` | 3 requests, 2 rows, 2 addresses in 3 spellings, 2 phones, 2 links; 99 742 states |
| `taken` | violates `EmailTakenTruthful` | the same with 2 requests |
| `budget` | `TypeOK`, `MapBounded`, `WindowBudget`, `IInv`, `RecentKept`, `BucketsSpec` | 3 callers, cap 2, burst 2, clock to 9; 280 916 states |
| `idle` | violates `WindowBudget` | the same, with a bucket slower than the idle time |
| `catalog` | `TypeOK`, `NoOrphans`, `OnlyOwnerChanges`, `PlainPriceFits`, `CalmReadExact`, `WalkShowsAll`, `CatalogueSpec` | 2 users, 2 listings, 2 media, 2 writing requests, 1 client, 3 ticks, pages of at most 2, `int` from -4 to 3; 443 717 states |
| `runners` | `TypeOK`, `SchemaAsRecorded`, `NoUnrecordedChange`, `UpMeansUpToDate`, `EventuallyMigrated`, `LogSpec` | 2 runners, the 8 files of 4 versions, 3 runs "down", 2 faults, rows in the way of 2 files; 531 830 states |
| `lifecycle` | `TypeOK`, `RequestsWaitedFor`, `NoConnectionLost`, `TTLsAsConfigured`, `RequestsServed`, `SignalEnds`, `BindFailureEnds` | 2 requests and the janitor, 2 connections, 5 environments; 25 663 states |

*Why the bounds are enough.* Two requests make every race of the properties (claim
against claim, rotation against lockdown, reset against reset, reset against lockdown);
three tokens let one token be exchanged twice, which needs a successor for each. One
user: nothing relates the sessions of two. In `races` the clock stands still, so every
boundary of the same second is met; in `expiry` the rows live for less than a tick,
so they expire, and are swept, between any two steps of a request. For the limiter, three keys
overfill a map of two, and the clock passes the idle time twice. For accounts, two rows and three
requests let two sign-ups race on an address or a phone while a third verifies.
In `catalog` two writers put a delete between any check and write, and three ticks
change a list before, between and during two pages of one; bodies, prices and page
numbers lie on both sides of every bound, and the third page of two is past `int`.
`runners` has the real files, as `MigrationFiles` reads them, and both of those that rows can make
fail; a third runner would add only another of the same
direction. `lifecycle` has one more user of the pool than connections, and environments
that load, that lack a variable, and whose lifetimes wrap to something positive or not.
Past these instances, the proofs hold for all.

*Fairness.* `RequestsFinish` assumes strong fairness of each request's next
statement and weak fairness of deadlock detection: Postgres queues the
waiters of a row lock and serves them in turn, and checks for deadlocks after
`deadlock_timeout`. Nothing is assumed of clients, failures, the janitor or the clock.
`EventuallyMigrated` assumes that a run that is not cut short goes on, and that "up" is run again
after it ended, as `task dev` does. Nothing is assumed of rows in a file's way: that they are resolved
in the end is the premise of the property. `SignalEnds` and `BindFailureEnds` assume weak fairness
of `run` alone: requests may hang. `RequestsServed` assumes (`HandlersGoOn`) that statements end and
handlers go on, and strong fairness of a waiter's `Granted`, because `database/sql`
hands a connection that comes back to a waiter chosen at random. Nothing is assumed of
signals, the listener or clients.

*Deadlock checking* is on in every run but `lifecycle`, where the process ends.

*Symmetry.* `MCSessions` and `MCAccounts` permute users, tokens, phones, links and requests,
between which nothing chooses, and `MCListings` users, listings, media and writing requests,
which are compared by their stamps only. Symmetry is off in the runs with liveness
properties and in `watermark`.

### What the code does not keep

- `reset_ends`: `service.go:261` and the mail of `email.go:251` promise that a reset ends
  every session. A sign-in that checked the old password before, a refresh that
  claimed its token before, or a sign-up that has made the account and not yet its tokens (all three
  end in `issueTokens`), inserts its row after the reset's snapshot and lives on.
  `RevokeAllUserTokens` has the same gap. What does hold is `LockdownKillsStored`: what
  was in the table when the snapshot was taken dies with the commit.
- `watermark`: `bumpTokensValidAfterQuery` writes the start of its own transaction
  unconditionally. Of two overlapping lockdowns the earlier may commit last and move
  the watermark back; access tokens already refused are accepted again.
- `taken`: `SignUp` answers every unique violation with `ErrEmailTaken` ("email already
  registered"), also that of the phone: a new address is called registered.
- `idle`: `evictLocked` drops entries idle for ten minutes, on the understanding
  that their buckets are full again. `Create` refills in an hour: at the cap, a caller that
  spent its budget gets a full bucket after ten minutes. `WindowBudget` holds
  for every other limiter of `DefaultLimits` (`IdleRefills`).

Smaller things a reader of the models will meet, which no text of the repository
promises otherwise:

- *Pages.* `page` has no upper bound. `(page-1)*limit` may wrap: a negative OFFSET is
  an error (500), a positive one another page. `CalmReadExact` says what holds below.
- *Prices.* `parsePrice` drops separators and lets Go parse the rest, the store sends
  the text as it came to `::numeric`: `1,000` or a hexadecimal number passes the check and fails in the
  database (500), as do rooms beyond INTEGER and an address beyond 255 characters. For
  plain numerals the bound of the check is that of the column (`PlainPriceFits`).
- *U+0000* passes `validate` in a title, a description or an address, because JSON strings may hold it
  (`listing_handlers.go:195-221`); Postgres takes it in no TEXT or VARCHAR (500).
- *Torn reads.* An answer that a write came between may hold a count, a total or a medium
  of another moment than its rows. A listing older than one that left the list while
  a client turns pages may be missed.
- *Favorites* are counted without their listings, which foreign keys make right
  (`NoOrphans`).
- *Media.* A medium for a listing that vanished after the check is a foreign-key error (500).
- *Migrations.* An "up" run that overlaps a "down" run may leave versions recorded with a
  gap, such as 1 and 3; a later "up" closes it. It may do worse: "down" takes back the latest version
  that it *read*. If that was 2, and "up" has applied 3 and 4 since, the index that 4 put on the table of 2
  goes with the table while 4 stays recorded, and no later "up" brings it back, though each ends well.
  `EventuallyMigrated` therefore promises the record always, and the changes only where no directions
  overlapped. Two "up" runs do no harm: one of them fails.
- *Rows in the way.* A file that fails on a row leaves nothing behind, and every "up" after it fails
  until somebody resolves the row, as the file itself says.
- *Signals.* One that comes before `Notify` kills the process with its requests.
- *Lifetimes.* `Load` checks the product, so a negative number whose product wraps to
  something positive is taken (`TTLsAsConfigured` says what holds: a lifetime that fits is
  the one that was configured).
- *Shutdown* gives up after ten seconds; `pool.Close` does not wait for statements.

## 4. Proofs

All theorems hold for every set of users, tokens, requests or callers and every
lifetime, rate and bound. The assumptions are the `ASSUME`s of the modules: lifetimes
and bounds are naturals, the cap, burst and rate at least 1, `None` is no id, and the sets
of users, listings, media and handlers are finite; of migration files, what section 2 says. Two theorems of
`Listings_proofs` (`Refusals`, `WalksComplete`) and three of `RateLimiter_proofs` (`Inductive`, `BudgetHolds`,
`BucketRefinement`, under `IdleRefills`) assume more, in their statements.

Five of the six state machines implement an abstract specification, for every instance: `Sessions`
`SessionChains`, `Accounts` `Registry`, `RateLimiter` `TokenBuckets`, the writes of `Listings` `Catalogue`,
`Migrate` `MigrationLog`. Each refinement theorem takes the inductive invariant, has one lemma per
action that is not a stutter, and ends in one step that every step of the code maps to.

- `TypeCorrect`, `Invariance` (`Sessions_proofs`): `TypeOK`, and the inductive `IInv`.
  None of the properties is inductive alone, and `IInv` adds what each lacks:
  - `References`: rows and requests name rows that exist;
  - `ChainsHaveOneHolder`: a rotation between claim and insert holds its chain
    alone, so its insert cannot make a second live token;
  - `ResetClaimsExclusive`: a transaction past its claim holds a fresh row alone, so
    its commit is the first use;
  - `LockdownHasAll`: a lockdown under way has locked, or still has on its list, every
    row that must die, so that none is left at its commit;
  - `WatermarksPast`: no watermark lies in the future, or after a mint it has not outlived.
- `ChainNeverForks`, `ResetOnce`, `LockdownComplete`, `WatermarkFair`: the four safety
  properties, each a consequence of `IInv`.
- `Refinement` (`SessionChains_proofs`): `Spec => ChainsSpec`. A claim that wins is
  `Take`; an insert is `Open` or `Give`; every other step closes the chains whose token or rotation it
  ends (`OthersClose`), because rows only lose liveness and only a claim starts a
  rotation. It needs, beside `IInv`, that every family is headed by a token of its own.
- `CapHolds` (`RateLimiter_proofs`): the map is bounded whatever the rate. It needs only
  that no bucket is ahead of the clock.
- `BudgetHolds`: if a bucket refills within the idle time, `WindowBudget` holds. What
  the observer counted plus what is left in the bucket never exceeds a full bucket
  plus the time passed (`Accounts`); dropping an idle entry keeps this because the bucket
  is full by then.
- `BucketRefinement`: with the same condition, `Spec => BucketsSpec`. `AllowLeft` says what one call of
  `Allow`, eviction included, leaves every caller; of the entries it drops, one at most is not
  idle (`DroppedOne`), and the idle ones are full (`IdleFull`).
- `RecentStay`: the action property `RecentKept`, from the type invariant: an eviction
  drops no entry that was seen later than one that it keeps.
- `UniqueContacts`, `CreatedVerifiable`, `MailedLinksWork`, `VerificationNeedsMail`
  (`Accounts_proofs`), from one `IInv`. It adds that two sign-ups past their insert
  have different users and links (`PendingApart`), what each of them may rely on
  (`PendingHolds`), and that a mailed link which an account carries was mailed to
  its address (`LinksOwn`, within `Mails`): without it nothing
  would say that a verification marks the account whose mail was read.
- `RegistryRefinement`: `Spec => RegistrySpec`. That the contacts are free when a row is made is the
  unique indexes' doing; that mail has reached an account when it is marked is what `IInv`
  knows of a request past `VerifyEmail`.
- `NoOrphansEver`, `CalmReads` (`Listings_proofs`), from `IInv == Writes /\ Reads`. `Writes`
  relates the three tables to the requests (`RowsHold`: stamps and ids, `RequestHolds`: what a
  request between its two statements may rely on), `Reads` the answers under construction to the tables as
  long as they are calm (`ReadSound`, `CalmHolds`).
- `OwnersOnly`: the action property `OnlyOwnerChanges`; the owner of an id never changes, so
  the check made one statement before still holds of the row, if there is one.
- `CatalogueRefinement` (`Catalogue_proofs`): `Spec => CatalogueSpec`, from `Writes` and `NoOrphans`. The owner that
  was checked is the owner when the write happens (`StillOwned`), or the row is gone and the request
  comes to nothing (`FailStep`); an id that the database hands out was never used.
- `Refusals` (`PlainPriceFits`) assumes `MaxPrice <= PriceCapacity`, which the code has with equality
  (999 999 999 999.99). What a request between its statements may rely on (`RequestHolds`) says that its price
  passed the check, so that only the other reasons are left.
- `WalksComplete` assumes `Cardinality(Listing) <= IntBound`: fewer listings than Go's `int` can count.
  `WalkHolds` says that a steady listing that was not shown yet ranks at or after the
  start of the next page; newer rows push it further, and only a newer row that leaves could
  pull it back.
- `AgreeUntilMixed`, `AlwaysRecorded`, `UpEndsUpToDate` (`Migrate_proofs`), for any number of runners and
  files, and whatever rows come into their way. `RunKnows` says what the versions that a run read at its start still tell of those
  recorded now.
- `Refinement` (`Migrate_proofs`): `Spec => LogSpec`. `IInv` says nothing of a schema that runs of both directions
  have left with gaps; `LogInv` adds what holds even then: what is in the database builds
  on what is there (`SchemaWhole`), the locks keep apart the files that touch each other (`FilesApart`),
  so that a file past its body still fits the schema, and is not recorded, when it commits (`FileFits`).
- `WaitsForRequests`, `ConnectionsReturn`, `LifetimesConfigured` (`Process_proofs`), for any number
  of requests and connections. `ConnsWhenHeld` and `UsersInside` say who may hold a connection
  and when; `RunSoFar` what `run` has done at each phase.

*Only model-checked*: `RequestsFinish`, `EventuallyMigrated`, `RequestsServed`, `SignalEnds`,
`BindFailureEnds` (liveness is out of the prover's reach), and the violations. No module uses
RECURSIVE or needs induction over data.

## 5. Plan

Built, in this order: sessions with their abstract specification, accounts, the rate
limiter, listings with favorites, the migration runner, the process with its pool and
configuration; the proofs of every safety property that a passing run checks; and
an abstract specification, proved to be implemented, of every component whose writes race.

Left:

1. **Middleware**: the chain of `Routes` as an operator on what a request carries (address,
   bearer, verified or not), against the table of surfaces and limits in `README.md` of the sources.
2. **More runs of `Sessions`**: two users, to check that a lockdown leaves the other alone.
   The proofs hold for any number of users.

*Not modelled, and why.* Hashing, JWT and token formats are cryptographic functions: what
matters of them is that tokens cannot be forged or guessed, which the models assume.
Sending e-mail is an HTTP call whose failure is logged; that a mail arrives or not is
part of `Accounts`, its HTML is not. Routing, CORS headers and body limits keep no
state that requests race on. The API documentation is static text. SQL search conditions
other than the status are data. `PROJECT.json` gives the reason for each component.
