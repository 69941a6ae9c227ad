# Verification of the neighbourhood shop

TLA+ models, TLC configurations and TLAPS proofs for 近邻小铺子: the server (`server/`,
Koa + Prisma + MySQL, with WeChat Pay and WeChat subscription messages), and the parts
of the mini program (`miniapp/`) and of the back office's pages (`admin-web/`) that keep
state while their calls are under way.
Parse with `tlasany M.tla`, check with `tlc -config X.cfg MCM.tla`, prove with
`tlapm MProofs.tla`. `PROJECT.json` lists every run, what each definition models
(file and lines), the hazards of the code and the theorems.

## The system

| Part | State it keeps | Operations | What is hard | What makes it correct |
| --- | --- | --- | --- | --- |
| Order lifecycle (`order.service`, `order.repository`) | `orders.status`, `stock_released`, `order_status_logs` | fulfilment by the back office, close, refund | many writers of one status | only legal moves; counters follow the status |
| Payment and closing (`payment.*`, `order-closing.service`) | `payments`, `payment_notifications` | initialize, notify, poll, close by resident / back office / job | no lock across a WeChat request; crashes; lost replies; leases | never cancelled after payment, never paid twice, expired orders end |
| Refunds (`refund.*`) | `refunds`, `refund_notifications` | apply, approve, reject, refresh, notify | answers and notifications out of order | no service while money goes back; one restore |
| Order creation (`order.service.create`, `createAtomic`) | `orders`, `products.stock`, carts | preview, create | two residents, one stock; retries; snapshots | no overselling, one order per request and cart |
| Cart (`cart.*`) | `carts`, `cart_items` | add, set, remove, clear | reads and writes that interleave; no common lock with order creation | an order contains what was confirmed; what the cart says can be bought, can |
| Catalog and stores (`catalog.*`, `store.*`, `community.*`) | `stores`, `product_categories`, `products`, `communities` | create, edit, switch, soft-delete | an edit rests on rows it does not lock | nothing on sale in a category that is off |
| Delivery slots (`delivery.*`) | `delivery_slots`, the store's modes | create, edit, switch | the page's clock and the server's | what the page offers is accepted |
| Accounts and addresses (`user-*`, `address.*`) | `users`, `addresses` | login, community, phone; create, choose, remove | look first, write later | one owner per phone, one default per resident |
| Subscription messages (`notification.*`, `wechat-subscription.provider`) | `user_notifications`, `subscription_consents`, receipts | discover, claim, send, conclude; report | several workers, unknown outcomes | at most one message per event and grant |
| Admin alerts (`notification.repository`) | `admin_alerts` | refresh, mark read | four statements, several refreshes | what lasts has an alert |
| Access tokens (two WeChat providers) | a token in memory each | fetch, retry once | each fetch may end the other's token | a stale token costs one retry |
| Jobs (`jobs/`) | a timer and a running flag | close expired orders, run the outbox | overlap, restart, a batch whose head cannot be closed | every due item gets its turn |
| Mini program (stores `order`, `user`, `community`, `cart`) | preview, pending submission, detail, lists, session, community | preview, submit, open, cancel, pay, refund, log in, choose | answers that are late, lost, or for a page that was left | nothing placed is forgotten; pages show their order |
| Admin web (order page, forms) | drawer, draft, dialogs, switches | open, act, write, upload, save | answers that come when another row is open | what is written is saved where it was meant |
| Media, audit, dashboard | their tables | store, query | – | – |

The parts meet in the database. `orders` is written by creation, settlement,
closing, fulfilment and refunding; `products` by creation (deduct), closing and
refunding (restore), settlement (sales) and the catalog; `order_status_logs` feeds
the outbox. WeChat Pay and WeChat messages are called outside transactions and call
back with notifications.

## Modules

| Module | Models | Extends |
| --- | --- | --- |
| `OrderLifecycle` | what all parts promise about one order's status and its share of the counters | – |
| `OrderPayment` | paying for and closing one order; implements `OrderLifecycle` | – |
| `RefundFlow` | refunding one order; implements `OrderLifecycle` | – |
| `Checkout` | carts becoming orders: locks, snapshots, stock, capacity, retries | – |
| `NotificationOutbox` | subscription messages to one resident by several workers | – |
| `Communities` | the areas accounts, addresses and stores refer to | – |
| `Residents` | first login, current community, phone | `Communities` |
| `AddressBook` | addresses and the default one | `Communities` |
| `Shelf` | stores, categories, products as the back office edits them | `Communities` |
| `DeliverySlots` | slots, modes, the dates offered and accepted | – |
| `Shopping` | what residents see, the cart, what an order accepts | `Shelf`, `DeliverySlots` |
| `AdminAlerts` | alerts and their refresh | – |
| `AccessTokens` | the token caches of the two providers | – |
| `ExpirySweep` | the job that closes expired orders, in batches | – |
| `OrderScreen` | the confirmation page, its store, and the calls to the server | – |
| `OrderPages` | order list, order page and refund page over one store | – |
| `OrderDesk` | the back office's order page | – |
| `EditForms` | the back office's forms for stores, products and delivery | – |
| `Visit` | session, community and cart count of the mini program | – |
| `MCShop`, `MCScreens`, `MCBackgroundJobs` | instances of several of these, of which one moves | the modules |
| other `MC...` | model values (and symmetry where no liveness is checked) for TLC | the module |
| `OrderLifecycleProofs`, `OrderPaymentProofs`, `RefundFlowProofs`, `NotificationOutboxProofs`, `CheckoutProofs` | theorems | the module, TLAPS |
| `ShopProofs` | theorems about `Residents`, `AddressBook`, `Shopping` (with shelf and slots), `AdminAlerts`, `AccessTokens` | `MCShop`, `SumLemmas`, TLAPS |
| `ScreensProofs` | theorems about the five screens | `MCScreens`, TLAPS |
| `SumLemmas` | lemmas: sums of functions over finite sets | `FiniteSetTheorems`, TLAPS |

Definitions keep the names of the functions they model (`claimClose` is `ClaimClose`,
`completeSuccess` is `Settle`, and so on). A short database transaction that locks
what it reads is one action. A handler that calls WeChat is a process: `at[h]` is the
point it has reached, and every database transaction and every request is a step,
between which everybody else runs and a crash may come. `claim`, `reply`, `held`,
`found` and `call` are its local variables. A call that is refused changes nothing and
is no step, unless its answer is what a property is about (`answer`, `refused`). A
definition named `Mutant...` is what a plausible slip in the code would make of its
namesake; each property is one that TLC finds violated when the slip is in place.

**OrderPayment.** `order`, `payment` and `product` are the rows, the latter as this
order's share: `stock` counts how often its quantities went back on the shelf, `sales`
how often they are counted in `sales_volume`. Time is the flag `expired` and the
`leased` bit of the payment, which lapses at any moment. `configured` says whether the
deployment has credentials. `wechat` is the transaction at WeChat: its state, whether
its parameters were handed to a resident, and requests whose caller gave up but which
may still take effect (`LateRequest`). `claimClose` mixes a snapshot with a lock; the
header of the module says why one step is enough.

**RefundFlow.** The same for refunds. Transactions here run READ COMMITTED under the
order's and the refund's row locks, so each is one step. `notified` is keyed by outcome,
because WeChat gives each outcome one notification and repeats it.

**Checkout.** `Lock` takes the resident's row and the slot's row, `Read` is the
transaction's snapshot (InnoDB takes it at the first plain read, which comes after the
locks), `Deduct` one conditional `updateMany` per product on the current row, whose lock
is kept to the end (`Holds`), `Commit` the rest. `Abort` is a crash, a lock wait that
is too long, or a deadlock the database breaks; `Restored` is the rollback. If the cart
is gone at commit, the client library may or may not report it, and both are allowed.
`supplied` is a history variable: what the shop ever had of a product. Addresses, store
status, areas and opening hours validate like the conditions kept and are left out.

**NotificationOutbox.** `claimNext` picks from the snapshot and updates the current
row, so it is `ReadCandidate` and `Reserve`. `Ripen` lets the retry delay and the five
minutes of a send pass at any moment: a worker can always be taken for dead while it
lives. `delivered` is what the resident's phone received.

**Residents, AddressBook.** A request is a chain of statements with nothing held between
them (`request`, `form`); every authenticated request starts by reading the account, and
by clearing a community that is not available any more (`Presented`). The transactions
on the default address lock the resident's row, take their snapshot and write. Unique
keys are where the code relies on them: in `CreateAccount`, `BindPhone` and `Commit`.

**Shelf, DeliverySlots, Shopping.** An edit is `Begin...`, which reads what it depends
on, and a write by id. `Shopping` is composed with both: its calls on the cart are a look
at the product, a transaction's reads and its writes. The three places where the code
decides whether something can be bought (`resident-product.service`, `cart.service`,
`order.service`) are operators over the same rows, each translated from its own source.
Time in `DeliverySlots` is a day and one of three times of day; money is a number of
items against a minimum.

**AdminAlerts, AccessTokens, ExpirySweep.** A refresh reads candidates, reopens, inserts
and resolves, each over the rows as they are then. `lasting` remembers what needed
attention since the refresh began. A token is a number; WeChat may end all tokens but
the last one issued, and any token at any time. A batch of the sweep lists the oldest
expired orders once; a close in it is a step that succeeds or does not, because
`OrderPayment` has its inside.

**OrderScreen, OrderPages, OrderDesk, EditForms, Visit.** A screen's store is a record,
and a call is a record in `sent`, `query`, `click`, `fetch` or `asks`: sent in one step,
handled by the server in another, answered in a third, each at any time, with network
errors that say nothing about the server. Where the code numbers its requests, so does
the model. The server is as small as a page can tell: `OrderScreen` has `Checkout` as
seen by one resident, `Visit` has `Residents`.

## Runs

Sizes are distinct states; two TLC workers need at most a few minutes for each.

| Run | Instance | States | Shows |
| --- | --- | --- | --- |
| `order_payment` | 2 initializers, a resident, an administrator, a job, a poller, 1 notification id | 478,020 | rows, counters and WeChat agree; SUCCESS and CLOSED are final; no late parameters; lifecycle implemented |
| `order_payment_live` | 1 initializer, resident, job, poller | 40,062 | the job alone settles paid orders and ends orders WeChat knows |
| `order_payment_paid_cancel` | violation | | finding 1 |
| `order_payment_stuck` | violation | | finding 2 |
| `order_payment_refused` | violation | | finding 3 |
| `refund_flow` | 2 administrators, 1 viewer | 16,971 | no service during a refund; truthful, stable outcomes; lifecycle implemented; a refund made is seen |
| `checkout` | 2 residents, 2 products with one item each, 2 request ids, 2 calls, 2 prices, a slot of one, 2 edits | 1,009,544 | conservation of stock, one order per cart, retries replay, confirmed is ordered, capacity, nothing off sale is sold |
| `notification_outbox` | 2 events, 2 workers, 2 reports, 2 attempts | 695,634 | one delivery, grants spent once, delivered stays |
| `notification_outbox_live` | 2 events, 1 worker; 3 orders, batches of 2, 1 that cannot be closed, 1 stop | 11,408 | every event concludes; every order that can be closed is |
| `notification_outbox_limit` | violation | | finding 4 |
| `shop` | 2 calls at a time on each part (3 on tokens); 2 stores, 2 categories, 3 products, 2 slots, 3 addresses, 5 matters | 522,929 | one owner per phone, one default, shelves in order, page = cart = order, alerts in time, one retry is enough |
| `screens` | 2 calls under way on each page; 2 orders, rows, communities, submissions | 1,371,393 | nothing placed is forgotten, pages show their order, what is written is saved where it was meant, session and server agree |

**Bounds and why they suffice.** One order (one refund, one resident's messages) is
enough where rows of other orders are neither read nor written. Two of each kind of
racing process show every pairwise race, including a process with itself; three-way
races of different kinds (initializer, two closers, notification) are in
`order_payment`. A process name is a stream of calls, so the number of calls is not
bounded. `NotificationIds` has one id besides the query's, since ids matter only as
known or unknown. In `Checkout`, stock one and carts of one or two items make every
contention happen at once; `MaxCarts` and `MaxEdits` cap what would otherwise run for
ever, hence `CHECK_DEADLOCK FALSE`. An order that has ended and been settled with
WeChat leaves nothing to do, hence the same line in the runs of `OrderPayment` and
`RefundFlow`; so does a token count at `MaxTokens` in `shop`.

`MCShop`, `MCScreens` and `MCBackgroundJobs` hold several components that share no row
and no memory. A step of one changes nothing another reads, so interleaving them would
only multiply the states; each behaviour chooses one that moves (`scene`, `looked`) and
the invariants of the others hold as they began. The exceptions are composed for good:
communities with accounts and addresses, communities and shelf with the cart. Within a
scene a few rows are held still to make room (`OneShop`, `OneCounter`, `Raised`,
`Briefly` say which); every action is still taken. All calls of a kind are alike, hence
the symmetry. `LastDay` exceeds the seven days offered by enough that every day becomes
the first one, and the week moves past an earlier choice.

**Exceptions.** Some properties except a window that the code leaves open, and name it
by a history variable: `overlapped` (two edits of the shelf), `abandoned` (submissions
given up), `crossed` (answers that are not numbered), `stray` (a form whose picture,
fields or switches are still on their way), `apart` (overlapping choices of a community; a
count reset under a change), `disturbed` (a token ended by others). The comment above
each property says what happens in that window; outside it nothing is excepted. The
mix-ups inside are reachable in the code, and no document promises their absence.

**Fairness.** The expiry job is a timer that runs in every server process; it is
assumed to run for ever (weak fairness of its steps), not to crash always at the same
point and not to fail each of its requests for ever (strong fairness of the steps that
succeed). Leases lapse and residents leave the cashier because clocks run and WeChat
limits the session. Nothing is assumed of notifications, residents or the back office.
Viewers of a refund (`RefundIsSeen`) stand for the pages that query it while it is under
way; there is no refund job in the code, so this is the one property that rests on
people looking. Outbox workers are timers like the expiry job. `SweepFairness` says the
same of batches: the timer fires, the list is not refused for ever, and a close that can
succeed does in the end; orders that cannot be closed (`stuck`, finding 2) are fewer
than a batch holds. With as many as that, the others would wait for ever.

## Findings

1. *A paid order can be cancelled* (`NoPaidOrderCancelled`). A close that claims an order
   before its payment row exists keeps `paymentId: null` and leaves no mark; its
   `finalizeClose` cancels whatever was initialized, and paid, in between
   (`payment.repository.ts:381`).
2. *An expired order can stay open for ever* (`ExpiredOrderCloses`). A payment whose
   creation never reached WeChat is queried, not found, and left alone, in each batch
   (`order-closing.service.ts:187`). `OpenTransactionCloses` is what does hold.
3. *A settled order can refuse WeChat's notification* (`SettledIsAcknowledged`), once the
   shop has accepted it (`payment.repository.ts:489`).
4. *The last retry of a message ends in PENDING*, where nothing looks at it
   (`RetriesEndAtLimit`, `notification.service.ts:285`).

## Proofs

Every invariant and every action property that a passing run checks is a theorem, and so
are the two refinements of `OrderLifecycle`: for any sets of processes, residents, rows,
calls and requests, where a run has two or three of each. `PROJECT.json` lists the
theorems with the properties they state.

**Assumptions.** They are the named `ASSUME`s of the modules, and TLC evaluates each of
them: the kinds of processes are disjoint (`RolesAreDisjoint`, `ApproversAreNotViewers`),
values that stand for "none" are none of the others (`NothingIsNoValue`, `NoOneIsNobody`,
`NoneIsNothing`, `NoTemplateIsNone`, `NothingChosen`, `PagesHaveOrders`, `DeskHasOrders`,
`FormsHaveRows`, `AlertsHaveKinds`), bounds and times are numbers (`BoundsAreNumbers`,
`AttemptsAreBounded`, `MaxStockIsPositive`, `TimesAreNumbers`, `CallersHaveProviders`), and
what is counted or summed is finite (`SetsAreFinite` in `Checkout` and
`NotificationOutbox`, the calls in `VisitHasAreas`).

**Method.** The properties are seldom inductive. Beside each stands the invariant that
is: `IInv`, or `...IInv` where a module has it next to others. TLC checked each of them
on the run's instance before it was proved; the runs leave them to the proofs. A proof
shows that the invariant holds initially and that every action keeps it, with a lemma or a
step per action; where many actions are a step of one call, a lemma says what a step of
one call may change, and the actions are its instances.

- `OrderPaymentProofs`: `IInv` adds to the properties that `stock_released` and the
  payment row agree with the order (`RowsAgree`), that without credentials nothing ever
  reached WeChat (`CredentialsInv`), that a handler about to settle or to finalize has
  seen what it acts on (`HandlersSaw`), that a claimed payment stays out of other handlers'
  states and is signed by one operator (`ClaimsHonoured`), and that the system's claims are
  on expired orders (`SystemSigns`). `ClosingCutsOffCashier` follows from what a claim
  leaves to an initializer. `ImplementsLifecycle`: every step is a step of
  `OrderLifecycle` or a stutter.
- `RefundFlowProofs`: `IInv` adds that answers and announcements were true of the refund
  at WeChat when they were given (`AnswersWereTrue`) and that order, refund and WeChat
  rows agree (`RowsAgree`). `OutcomesStay` and `ImplementsLifecycle` are proved from it.
- `CheckoutProofs`: `IInv` says what each lock protects. The locks of a resident and of a
  slot exclude (`LocksExclude`), rows updated are one call's (`RowsAreHeld`), an order's
  cart is gone (`CartsAreSpent`), and what was read under the locks is true until the
  transaction ends (`ReadsHold`). `StockConserved` is an equation between sums over orders
  and calls, of which a step changes one term or two. `CapacityKept`, `RetriesReplay` and
  `SoldOnlyOnSale` are about steps and follow from `ReadsHold` and `RowsAreHeld`.
- `NotificationOutboxProofs`: `IInv` adds what a worker with a candidate may rely on
  (`UnderWay`): its row is SENDING or UNKNOWN, and undelivered until WeChat has answered.
  That at most one worker sends a message (`OneSender`) and that attempts stay within
  their limit (`AttemptsBounded`) follow, too. `GrantsSpentOnce` counts messages per
  template; it is inductive once a worker's template is known to be its row's
  (`HeldTemplates`).
- `OrderLifecycleProofs`: the abstract counters balance.
- `ShopProofs`: what a call knows from its reads. `RequestsAreWhole` (a unique key is what
  keeps two bindings of a phone apart, not the look before); `LocksAreHeld` and
  `FormsAreWhole` (the addresses read under the resident's lock are still all there are;
  the row of a create is nobody's); `LookupsHold`, `CreatesAreApart`, `EditsAreWhole` (outside
  overlapping edits a lookup still holds when the edit is written); `CartsAreOfShops`;
  `AlertsHaveCause` and `RefreshesProgress` (after each of its four statements, what a
  refresh has done for what is due all along); `SecondTriesAreFresh`. The store is proved
  as one (`StoreSpec` of `Shopping`), because carts and pages read what the back office
  writes; `CountersAgree` then compares three pieces of code over the rows that
  `StoreIInv` admits.
- `ScreensProofs`: of a call under way, the invariant says what its answer will be about.
  `SubmissionsAreKnown` (a create under way, or still to be received by the server, is of a
  submission the page remembers); `PageIsAwaited`, `TabIsAwaited` (an answer that will be
  written is about what is open); `DraftIsOfItsOrder`; `OpeningIsAwaited`,
  `PictureIsAwaited`, `ModesAreAwaited`; `OneCallSettles` (one call at a time is about the
  community, and what it found at the server still holds).
- `SumLemmas`: sums over finite sets, as the community modules define them. Induction
  over sets is replaced by a least counterexample among the subsets, which needs no
  operator as a parameter.

`MCShop` and `MCScreens` let one part move in each behaviour. The proofs do not: they are
about the parts' own specifications (`ResidentsSpec`, `AddressSpec`, `StoreSpec`,
`AlertsSpec`, `TokensSpec`; `ScreenSpec`, `PagesSpec`, `DeskSpec`, `FormsSpec`,
`VisitSpec`), without the rows that the runs hold still. `ShopIsTyped`, `ScreensAreTyped`
and `NothingIsSavedElsewhere` assume several of these at once, as parts that share no
variable but communities, which all of them leave to the same actions.

**Only model-checked.** Liveness (`PaidIsSettled`, `OpenTransactionCloses`, `RefundIsSeen`,
`EventsConclude`, `SweepConcludes`), which is beyond the prover, and the violations, of
which one instance is enough. `ExpirySweep` promises nothing else. A proof is about the
model: that the model follows the code is for the reader of both, with the map in
`PROJECT.json`.

## Not modelled

Amounts, currencies, merchant identity and signatures are validated before anything
changes; the models start after that. WeChat is assumed to know a transaction and a
refund by its number: a closed transaction is not created again and a repeated refund
request does not refund twice.

Left out altogether are parts without state that another part decides on: media (files
are checked and stored), the dashboard and the audit log (read-only, and a row in the
transaction of each change), parsing, routing and the rate limiter (one synchronous
function over a table of its own), the administrators' login (a password is checked and
a token signed). Of the mini program, the pages that show what one call returned, and of
the back office the pages for refunds, users, alerts, communities and logs; what they
call is modelled on the server's side. Names, texts, pictures' contents, sort order,
paging and wording are left out everywhere.

## Plan

Every safety property the runs check is proved. What is left:

1. An abstract specification of selling (stock goes down only with an order of a cart, once,
   and comes back only when that order ends) with `Checkout` shown to implement it, as
   `OrderPayment` implements `OrderLifecycle`.
2. That an edit under way in `MCShop`'s composition keeps `ShelvesInOrder` also when the
   second edit is of another store: `overlapped` is set by any two edits, and a narrower
   exception may be inductive.
3. The same for `crossed` in `OrderPages`, per kind of call.
