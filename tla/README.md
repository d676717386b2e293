# A TLA+ model of the Prime Pizza backend

Prime Pizza is a FastAPI service: PostgreSQL through async SQLAlchemy is the
source of truth, Redis holds caches, locks and token state, two JSON files
under `data/` mirror orders and users, Cloudinary stores images and Brevo sends
email. Every request is served by a coroutine with a database session of its
own; several processes may run. What is hard about the program is what happens
between the awaits of concurrent handlers, and what is left behind when one
fails half way. That is what these modules model.

## Inventory

| component | state | operations | hard because | correct when |
|---|---|---|---|---|
| order lifecycle (`services/order.py`) | `orders` rows with `version`, `order_timeline_events` | cancel, update_status, update_payment, update_notes, track | handlers load, decide and write without locking; only the UPDATE's version check orders them | only table transitions happen, money status follows, the timeline tells the same story |
| checkout (`services/order.py`, `checkout.py`) | carts, coupons, usages, `order_number_sequences`, one transaction | place_order | a Redis lock with a TTL in front of three row locks; retries | one order per cart, no gap in numbers, no coupon limit exceeded |
| order cache (`order_cache.py`) | tracking entries, checkout locks, idempotency keys | get/set/invalidate, acquire/release, lookup/store | Redis may fail, time out, or be read while a writer invalidates | locks clear, keys name their order, stale entries expire |
| order and user mirrors (`data_mirror/`, `*_sync.py`) | `data/order.json`, `data/user.json` | upsert, remove | the whole file is read, changed and written back | nothing uncommitted; not older than it must be |
| kitchen (`kitchen.py`) | none of its own | actions mapped to update_status | as order lifecycle | as order lifecycle |
| cart (`cart.py`) | `carts`, items, extras, cached totals | add, update, remove, clear, apply/remove coupon | totals are computed from session objects that may be stale | every request is one step on the current cart; limits hold; totals lag by one line at most |
| coupons (`coupon.py`, `admin_coupon.py`) | `coupons`, `coupon_usages` | validate, edit, activate, delete | edited while used | limits hold |
| pricing, delivery, tax | `carts` totals under CHECK constraints | recalculate | rounding, a capped discount, a threshold judged after the discount | every cart can be priced; more costs more; a coupon helps |
| commerce settings, maintenance | `system_settings`, two Redis keys with TTLs | upsert, read | the switch is read from caches | no lost save; caches settle; the way to switch off stays open |
| sessions (`auth.py`, `redis_auth.py`) | users, refresh tokens, blacklist | register, login, refresh, logout, deactivate | rotation races with logout and with lost answers; a slow password check | a token has one heir; logout ends the session; closed accounts stay closed |
| addresses (`address.py`) | `addresses`, one default per user | create, update, delete, set default | bulk UPDATE beside ORM writes | one default, not lost unasked; limit passed and deadlocks in known ways only |
| avatar, profile | `users` rows, Cloudinary | upload, delete | an external store and a row | no row shows a destroyed image, but for a failed deletion |
| wishlist, preferences | one list and one row per user | get or create, add, remove, clear, update | created by the first request | items go only when seen |
| notifications | `notifications`, audit rows | send, broadcast, read, delete | users come and go meanwhile | broadcasts reach all who were there; what is read stays read |
| menu (`product.py`, `category.py`, `deal.py`), catalog cache | catalog tables, cached pages | CRUD, bulk edits, invalidate by prefix | a bulk UPDATE moves no version; a page cached after its invalidation | one row per slug; stale pages only when late |
| gallery (`product_image.py`) | `product_images`, the product's cover, files | upload, delete, primary, reorder | rows, a cover and files in three places | one primary, which is the cover; files for what is listed |
| variants, extras, deal products | rows of a product or deal | replace | rows deleted one by one, inserted one by one | rows of one request |
| routes, authorization, middleware | tables of routes and permissions | every request | order of routes; three guards in a row; Redis down | the right guard for each route |
| rate limiting | Redis counters | three windows per policy, login window | window boundaries; refused requests count | twice the limit at most; lockouts end; Retry-After is honest |
| email delivery, contact (`email_service.py`, `contact.py`) | `email_logs` | send with retries, second mails | sent but not recorded | copies only for unsure answers; honest logs; clients are answered |
| start-up (`bootstrap.py`, `alembic/`) | the schema, seeds | check, upgrade, fallback, seed | several processes at once, crashes, downgrades | version tells the schema; nothing overwritten |
| dashboard, reports, search, health | TTL caches of reads | - | little | - |

How they interact: endpoints call services; services share one session per
request; checkout calls cart, coupon, validation and order cache, then the
mirror and email after its commit; kitchen calls the order service; every
order write invalidates the order and dashboard caches; body limit, maintenance,
rate limiting, routing and authorization run before any of it. Settings reach
carts and the maintenance middleware through Redis only. The catalog, the
account and the mail modules share no rows with each other.

`PROJECT.json` lists every component with its status and every hazard with its
line and the properties that cover it.

## Modules

    OrderMachine                 Purchases
        | INSTANCE                   | EXTENDS
    OrderLifecycle               Checkout        PurchasesProofs
        |        \                   |     \        /
    MCOrderLifecycle  OrderLifecycleProofs   MCCheckout  CheckoutProofs

    CartMachine
        | EXTENDS
    CartRequests
        |        \
    MCCartRequests  CartProofs

**OrderMachine** is what the order service promises about a row with every
request atomic: a status moves along `ALLOWED_STATUS_TRANSITIONS`, and a move to
cancelled or refunded settles the payment in the same step.

**OrderLifecycle** is the service: `Begin` is the authenticated request with its
transaction open, `LoadFor...` and `Refuse...` are the read, the guards and the
assignments of one handler, `Flush`/`FlushStale`/`FlushClean` the UPDATE with its
version check, `Commit`, then `Invalidate` and `SyncMirror` for what follows the
commit. `TrackHit`, `LoadForTrack`, `ListTimeline` and `FillTracking` are
`track_my_order`, whose order and timeline come from two statements. A worker's
`seen` is the object as loaded, `mine` the same object after the assignments:
what the identity map gives back for the rest of the request.

**Purchases** is what placing an order promises with every request atomic;
**Checkout** is `place_order`: idempotency lookup, Redis lock, cart row lock,
validation and pricing, number row lock, coupon row lock with revalidation on
the object loaded earlier, commit, key, release; lock and key expire (`ExpireLock`, `ExpireKey`). Cart requests and staff edits of
a coupon, which take the same row locks, are one step each because each is a
single short transaction that checks what it read. Checkout extends Purchases
and refines it with the identity mapping, so `ImplementsPurchases` is Purchases'
`Spec`.

**CartMachine** is what the requests on one cart amount to when each is atomic:
the lines, the coupon and the stored totals a request leaves behind. What it
promises is less than one would expect, because a SQLAlchemy session never loads
a collection or a relationship twice. A line inserted by `cart_id` is not in the
`items` collection that `recalculate` then walks, extras selected anew are not in
their line's, and `cart.coupon` stays the object loaded before `coupon_id` was
assigned. `Recalculated(c, lines, counted, coupon, ok)` keeps the two apart:
`counted` are the lines of the collection, `c.coupon` is the coupon object.

**CartRequests** is `CartService` with the cart's part of checkout, one worker per
request. `LockCart` is `get_active_for_update`; a first request finds nothing to
lock (`NothingToLock`), the checkout validation and the two reads never lock
(`NoLock`); `CreateCart`, `CreateRefused` and `RequireCart` are
`get_or_create_cart` with the unique index; `ReadRow` and `LoadLines` are the two
SELECTs; `AddItem` to `PlaceOrder` compute what the transaction will write from
what was loaded; `SwitchCart` is a request whose second `_require_cart` returns
another cart than the first; `Flush`/`FlushStale` the versioned UPDATE, then
`Commit` and the invalidation of the cached summary (`Answer`). Refinement is by
the identity on `cart`.

### The account, `MCCustomer`

    Handlers  (Workers, None: what all models of request handlers share)
        | EXTENDS
    Sessions, Addresses, Wishlists, Inbox, Avatars, Mirrors
        | EXTENDS          \
    MCCustomer           AccountProofs

**Sessions** has the rows of users, the token pairs, and in Redis the refresh
tokens that may be redeemed (`stored`) and the barred ones. A worker's record is
the handler's local state, `Fresh(w)` the version check of its UPDATE. `Login`,
`MarkLogin`, `Issue` are `auth.login`; `Refresh`, `Consume`, `CheckUser`,
`SyncRole`, `BarOld`, `Issue` are `auth.refresh`; `Logout` to `BarRefresh` are
`auth.logout`; `Edit`/`SaveEdit` the changes of role, activity and deletion;
`Boot` seeds the chef's account. **Addresses** keeps committed rows and each
transaction's `draft`; an UPDATE of a locked row waits and looks again, and the
partial unique index over defaults makes a second default wait and fail
(`MayWrite`, `MustWait`). **Wishlists** is `get_or_create` and what follows it;
**Inbox** the broadcast with its audit row after the commit, and the readers;
**Avatars** the row and the file with its one name at Cloudinary; **Mirrors** the
read, truncate and write of the JSON files after a commit.

### The catalog, `MCCatalog`

**Menu** is one set of rows with slugs (products, and alike categories and
deals), edits as load/flush/commit, bulk edits as one UPDATE, and the cached
pages with SCAN and UNLINK as two steps. **Gallery** is
`ProductImageService`: `StoreFile`, `FindPrimary`, `ClearPrimary`, `InsertImage`,
`UpdateCover` for an upload, `LoadImage`, `SoftDelete`, `ListRemainingImages`,
`Promote`, `DestroyFile` for a deletion, `SetAside` and `Arrange` for a
reordering. **Replacement** is what `replace_variants`, `replace_extras` and
`replace_products` have in common.

### The platform, `MCPlatform`

**Routes** is the table of all routes in the order they are registered, with
what each needs, and the permissions of the roles; **Gateway** (EXTENDS Routes) a
request's way through the middleware to its route. **Limits** has the counters
of both limiters over ticks of time. **Settings** is `SystemSettingsService` and
`CommerceConfigService` with their two Redis entries. **Pricing** is `recalculate`
as arithmetic on hundredths with ROUND_HALF_UP, over every configuration and
coupon an administrator can leave. **Mail** is `EmailService`: a row, an awaited
mail with retries, a second mail as a task, and the log's transactions.

### Start-up, `MCStartup`

**Migrations** lists every revision, up and down, as operations on a schema (a
set of objects), and the schema the models declare; **Startup** (EXTENDS it) is
processes that boot on one database: count the tables, upgrade in the segments
Alembic commits, fall back on `create_all` when the database is empty, check
again, seed. The operator downgrades and the chef edits meanwhile.

**SchemaFacts** (EXTENDS Migrations) lists the databases the revisions, their
downgrades and `create_all` can make one after the other, and **RouteFacts**
(EXTENDS Routes) compares the routes with each other. Each states what it finds
as an ASSUME without variables or constants, about the one list of revisions and
the one table of routes; MCCatalog extends both so that TLC computes them in a
run of its own, where a wrong revision or route breaks its property and not the
assumption.

`CatalogProofs` EXTENDS the three modules of the catalog, `PlatformProofs` Settings,
Limits, Pricing, Mail, Gateway and RouteFacts, and `StartupProofs` Startup and
SchemaFacts.

The parts of `MCCustomer`, `MCCatalog` and `MCPlatform` share no state (a product's
row has other columns in each), so every behaviour is of one part, chosen in the
initial state: the product of independent parts would show nothing more.

Each of these modules ends in one property, the conjunction of what it promises,
under its name and *Correct*: its conjuncts are defined and explained before it.

The operators marked as a mutant or a bug next to some definitions are plausible
wrong versions of them. Nothing uses them; replacing a definition by one of them
makes the property listed in `PROJECT.json` fail. A property with several
conjuncts has several: at least one for each conjunct.

## Runs

| run | question | answer |
|---|---|---|
| `order_race` | Do concurrent handlers keep the order, its timeline, cache entry and mirror consistent? Does every request end, does a stale tracking entry go? | yes |
| `checkout_race` | Two customers, one use of a coupon, one number sequence, staff switching the coupon: what commits? Does every checkout end, does a dead one's lock go? | atomic purchases only; yes |
| `checkout_repeat` | One customer, three submissions, two carts, failing Redis, crashes | one order per cart, keys name their orders |
| `checkout_double` | At most one order per idempotency key? | no: both requests may look up before either stores |
| `cart_race` | Are cart requests atomic, with and without the row lock? Does every request end, does a stale summary go? | yes |
| `cart_totals` | Do limits checked on loaded objects hold? How far are the stored totals off? | they hold; by the newest line at most |
| `cart_lines` | Is the stored subtotal that of the stored lines? | no: an added line is not counted |
| `customer` | Do sessions, addresses, wish lists, notifications, avatars and mirror files keep what they promise when two handlers meet, Redis or a file fails, or the process dies? | yes, with the exceptions the properties name |
| `catalog` | Do the menu, its pages, galleries and replaced rows? | yes, likewise |
| `platform` | Is every route guarded, every limit kept, every setting settled, every cart priced, every mail accounted for? | yes, likewise |
| `startup` | Do schema and seeds survive racing, failing and repeated boots? | yes, unless a boot fell back on `create_all` |
| `maintenance_lapses` | Is the shop closed while maintenance is on? | no: both cache entries expire |

Bounds. `MaxRequests` counts requests started: three for orders lets every pair
of handlers meet at every position, before or after any third, which is what a
lost update, a late cache fill and its expiry take; one order is enough because
handlers of different orders share nothing. Checkout runs two workers at a time,
because every conflict is over a row lock with one holder and one waiter or over
a version with one winner; three requests give a retry after a crash. For the
cart, three requests with two in flight give a first request, one that races it
and one that comes after; a request that switches carts takes four (one creates,
one orders, one creates again), which is why `cart_totals` has four. Two lines
and a quantity of two let a line merge, reach its limit and be refused; prices
of 3 and extras of 2 with coupons of 1 and 4 let a discount be smaller and
larger than a line. `MaxCarts` 2 lets a cart be filled again between two
checkouts, `MaxVersion` bounds staff edits. Symmetry is used only in runs
without liveness properties.

In the other runs two workers meet as well. `MaxWrites` 4 (Sessions), `MaxChanges`
2 (Addresses), `MaxEdits` 2 (Gallery), `MaxMenuWrites` 1 (Menu, per row),
`MaxReplacements` 3 and `MaxCommits` 2 (Mirrors) count committed writes, so that
requests may go on for ever but rows end: a write that overtakes a loaded
object takes one, and what overtakes that in turn a second. Two addresses under a limit of two with room
for a third let two creations pass the limit together; three images, all of which
may be live, let a deletion choose among others, and an upload or a reordering
meet it. The
windows are 1, 3 and 6 ticks over nine ticks: every pair of boundaries meets,
and the longest window ends once. Three attempts per mail give a first, a
middle and a last one. Three boots of two processes and two downgrades let a
process meet a schema that another one upgraded, failed to, or took back.
Subtotals, fees and coupons lie on both sides of every comparison in
`recalculate` and on the threshold itself, and make both directions of rounding
happen; a fee of -0.01 stands for a setting nobody validates.

Deadlock checking is off in every run: once `MaxRequests` requests were served,
nothing has to happen.

Fairness. In the order, checkout and cart runs `HandlerStep` is weakly fair per worker: statements have a timeout,
Redis and file calls return or raise. TTLs run out: `ExpireTracking`,
`ExpireLock` and `ExpireSummary` are weakly fair. Requests, crashes, refusals and staff edits are not
fair. Weak fairness of the waiting statements suffices in the bounded runs;
with endless traffic on one row the queue of PostgreSQL's row locks is what
keeps a waiter from starving, and it is not modelled.
Settings: each worker's steps and the expiry of both entries are weakly fair;
edits are bounded. Mail: the sending of each mail is weakly fair, because the
client of the provider has a timeout of ten seconds; dying is not.

## Proofs

All are checked by TLAPS for every value of the constants: any number of orders,
users, carts, rows and handlers, every limit and every bound. A module of proofs
EXTENDS the modules it proves about; a theorem names the property it proves as
the runs check it, but for `PurchasesSafe` and the three `...NeverStuck`, which no
run needs.

- `OrderLifecycleProofs`. The invariant is `OptimisticLocking`: a loaded object is
  of the past or is the row (`LoadedRowsArePast`); what is assigned follows from
  what was loaded (`WritesComeFromReads`); between flush and commit the row is the
  one the version check matched (`FlushedHoldsRow`). The last part is why versions
  need the row lock, and it makes `Commit` an atomic step of OrderMachine:
  `OrderRefinement`. `TimelineComplete`, `CancelSafe`, `MirrorBehind` and
  `TrackingConsistent` are further invariants and action properties on top of it.
- `PurchasesProofs`. `PurchasesInv` is inductive for the abstract machine.
- `CheckoutProofs`. `CheckoutLocking` is inductive: locks are held to the end of
  the transaction, what was read under them is current, and the coupon object is
  as old as its version. It does not mention the Redis lock, so everything that
  follows holds without it: `CheckoutRefinement`, and through it `CheckoutNumbers`,
  `CheckoutOncePerCart` and `CheckoutCoupons`; `CheckoutKeys` adds the stored keys.
- `CartProofs`. `CartLocking` with `Sound(cart)` is inductive: a loaded version that
  is still the row's comes with the row's columns and lines, although two
  statements read them; what is written is an effect of one request on what was
  loaded; a flushed request holds the row its version check matched. Like the
  Redis lock in checkout, `get_active_for_update` is not in the invariant, so
  `CartRefinement` holds for first requests and validations too. `CartLimits` and
  `CartTotals` follow from `MutationsAreSound`, a lemma about single requests.
  `CartDiscount` needs that a sum over lines is not negative: the sum is a
  recursive function of the number of lines, and a least number at which it would
  be negative (`LeastOf`, from the well-founded order of the naturals) is a
  contradiction.
- `RequestsNeverStuck`, `CheckoutsNeverStuck` and `CartRequestsNeverStuck`, in the
  modules of orders, checkout and cart, are what can be proved of the liveness
  properties without fairness: who holds a row does not wait in a circle
  (`HoldersCommitNext`, `NoCircleOfWaits` for any set of checkouts,
  `HolderIsUnderway`), none that ended holds one, and each step brings a handler
  further (`HandlersGoForward` and so on), so that a bounded number of steps ends
  it. The runs add that the steps are taken.
- `AccountProofs`. *Sessions*: `SessionsInv` ties a handler's position to what Redis
  holds - a refresh token that may still be redeemed has neither an heir nor a
  redeemer, and one that is being redeemed has one redeemer and no heir
  (`OneRedemption`); a logout deletes the Redis key before it bars the token
  (`RevokedFirst`); who still has the row's version saw the account live and active
  (`VersionsTell`); `OneHeir`, `BarredIsSpent` and the rest of `SessionsCorrect`
  follow. *Wishlists*: `WishesFit`, what each position has seen. *Inbox*: a
  broadcast that is committed has a note for all who were active throughout
  (`Sends`), and an audit row follows its commit. *Avatars*: what a row shows is hosted or a deletion is between its two
  steps. *Addresses*: `AddressInv` says of every position which rows its
  transaction has written and how they differ from the committed ones
  (`KindFits`), that no two transactions wrote one row (`RowsApart`), and that one
  that wrote a default sees no other and nobody else holds an entry of the index
  (`WriterHolds`). From that follows that at most one party of a circle of waiting
  handlers, of any length, is not a deletion that loaded a default which is none
  any more. *Mirrors*: `MirrorQuiet`: an undisturbed
  file is whole, and once all are idle it holds what is committed; the upserted
  list is a recursive function (`Without`), reasoned about by the least index.
- `CatalogProofs`. *Replacement*: of two requests that may both commit, one has
  listed all that the other did (`ListedInOrder`), and rows besides are of requests
  that found none (`OthersBare`). *Menu*: an edit goes by the version it loaded and
  writes the slug the row had (`GoesBy`, `MenuDraftFits`); a cached page shows the
  committed row, or whoever changed the row has yet to drop it (`Fresh`).
  *Gallery*: `GalleryInv` says of every position which rows its transaction has
  written and what they were (`KindFits`), that no two wrote one row or upload one
  number (`RowsApart`, `UploadsApart`), and that one that makes a primary sees no
  other while nobody else holds an entry of that index (`WriterHolds`). What a
  deletion chose is tied to the uploads it did not see by the product's version:
  who loaded the product at its present version loaded its present cover
  (`LoadedFits`), and one that saw no other image either is overtaken or leaves
  none that is a primary or known as a cover (`LastAlone`). A row that is live has
  its file (`TableFits`). A deletion then commits in one of four ways
  (`DeleteCommits`), and of these only the one that sets the cover it loaded, and
  so does not look at the product, parts cover and primary.
- `PlatformProofs`. *Settings*: a loaded version that is still the row's comes with
  the row (`Seen`). *Limits*: `passed` is cumulative, so that the requests let
  through in any stretch of a window's length are a difference, and such a
  stretch meets two windows at most (`WithinLimit`). *Pricing*: rounding is
  monotone and moves by half a hundredth at most, by integer arithmetic on
  quotients. *Mail*: calls and unsure answers are tallied against the position of
  the task and its log row (`Tallied`). *Gateway*: `GatewayInv` says what each
  position has passed (`Passed`) and that the path of a request is a filling of
  its route's path whose handler is the first route it matches (`Found`). What
  clients put into the parameters is free, so that this is about every request
  there can be; which routes of the table could take another's requests, and who
  may call them, is RouteFacts.
- `StartupProofs`. The seeds are made in transactions that find nothing there:
  `SeedsHold`. *Schema*: `SchemaInv` says that the database is one of `Databases`,
  and that its version is the latest while some process is `current`, serving on an
  upgrade of its own. The steps are proved for any number of
  processes, boots and downgrades; that the set is closed under what a step does,
  and that each of its databases is sound, is SchemaFacts: revisions are folds
  over lists of operations, which the provers cannot compute.

Assumptions: those of the modules, named there (`KindsAssumption`,
`LimitsAssumption`, `AddressBounds` and so on): a worker is not `None`, limits
are naturals, the windows of a limiter are not empty, prices are integers, a mail
has one attempt to five, and the bounds are naturals. `OrdersFailClosed` is
the default of `settings.py`, that orders are refused while Redis is down. The
assumptions of SchemaFacts and RouteFacts have no constants: they are
computed, not assumed (`DatabasesClosed`, `DatabasesSound`, `NamedBeforeOpen` and
so on).

Only model-checked:

- liveness (`RequestsFinish`, `StaleTrackingExpires`, `CheckoutsSettle`,
  `CartSettles`, `PlatformSettles`): fairness and ENABLED are outside the prover's
  reach;
- the assumptions of SchemaFacts and RouteFacts, computations on the one list of
  revisions and the one table of routes: folds over them are induction over data.

## What the models assume

- PostgreSQL at READ COMMITTED: a statement sees what was committed when it
  started, a locking SELECT and an UPDATE wait for a row lock and then look again.
- SQLAlchemy sessions with `autoflush=False` and `expire_on_commit=False`: an object
  once loaded keeps its columns in that session; an UPDATE names the version it
  was loaded with and fails the request with 503 when no row matches.
- A customer has carts one after the other (the unique index), and the model
  follows one customer. Catalog prices do not change, so all amounts are in one
  unit; delivery fee and tax are functions of subtotal and discount and are left
  out. Which coupons a validation accepts is free at every request.
- An insert of a line takes a share lock on its cart row; that it waits for
  FOR UPDATE changes when a request goes on, not what it does, and is left out.
  The insert of a new cart and its commit are one step.
- `cart:checkout` and `cart:coupon` keys are written or deleted and never read.
- `now()` is the start of the transaction; requests start at distinct times.
- In OrderLifecycle the file mirror's upsert is atomic, and the placement's own
  mirror write has happened before later requests; Mirrors has the steps of the
  upsert and only the rows' versions.
- The cancel window may refuse any cancel; coupon dates and the minimum order
  may refuse any coupon when `Lapses` holds; limits of a coupon do not change.
- The first order of a year inserts the number row under a unique index: the
  insert waits like the row lock does, and is folded into `NextNumber`.
- A cancelled handler releases the Redis lock before its session rolls back; in
  the model that is the lock expiring first.

- In Pricing amounts are exact hundredths; a setting that is no number (`NaN` is
  accepted by `Decimal`) makes every recalculation raise, and is left out.
- A person does not submit a contact form twice; a list of recipients fits its
  column. The value of a setting is its default or something else.
- Cloudinary and Brevo do what they answered, or what they were asked without
  answering; a process may die between any two steps of a handler.
- Of the middleware, body limit, maintenance and rate limit decide anything;
  the others add headers and log lines.
- Of the schema only what a later revision, a downgrade or a model depends on;
  a revision fails when an object it makes is there, one it takes is not, or the
  data refuse a constraint (a phone that is NULL, a row that is there twice).

## What the code does and a reader may not expect

Beyond the three runs that expect a violation, reading and modelling showed:

- The timeline is ordered by the start of transactions (`models/order.py:150`); a
  payment update is never mirrored (`order.py:663`), nor are the changes of
  `admin_customer.py`.
- A coupon rejected during checkout is dropped in silence (`cart.py:304`); the
  second recalculation of `apply_coupon` uses the coupon loaded before
  (`cart.py:491`); a request without a lock may add a line to a cart that was
  just ordered (`cart.py:325`); the checkout validation does not invalidate the
  summary it changes (`checkout.py:80`).
- A coupon can make a cart dearer: the threshold of free delivery is compared
  with the discounted sum (`delivery.py:33`). Settings are not validated: a
  negative fee makes every recalculation break a CHECK (`models/cart.py:51`).
- A handler that reads a mirror file while another writes it may find an empty
  list, and then writes its own row alone (`data_mirror/orders.py:128`). A failing
  mirror write of an account's removal answers 500 after the account is gone.
- A deletion looks at the product's version only when it changes the cover. One
  that loaded its product before another request gave it a cover, and sets the
  cover it loaded, leaves the product with the URL of a destroyed image
  (`UncheckedDeletion`, `product_image.py:92-118`); a call to Cloudinary that fails
  after the commit skips the invalidation of the cache (`product_image.py:119`).
- Two replacements of variants or extras mix when one of them found none
  (`OneRequestsRows`). An update of a product that a bulk edit has deleted commits,
  then fails its assertion (`product.py:242`).
- A product with the slug `search`, `featured`, `popular` or `recommended` has no
  page: the named routes come first (`catalog.py`). `/api/v1/health` is not exempt
  from maintenance.
- Two addresses over the limit, and a deadlock of a deletion with a change of
  default, are possible (`LimitNeedsRace`, `DeadlockNeedsStaleDefault` say when).
- After a failed commit of its log a mail is not tried again, whatever its
  status says (`email_service.py:550`).
- The first downgrade keeps its enum types, so a database taken back to nothing
  cannot be upgraded; a failed upgrade of a database that is not empty is only
  logged (`bootstrap.py:85`).

## Plan

Every safety property of a run is a theorem now; liveness stays with TLC.

Not modelled: dashboards, reports and searches (reads behind TTL caches nothing
else reads), the formatting of responses, templates, logging, metrics, health
checks and the scripts, which call the API from outside.
