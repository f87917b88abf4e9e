# EliteBooker backend: specifications

TLA+ models of the booking back end (Express, MongoDB through mongoose, Redis,
Stripe, mail), the configurations that model-check them with TLC, and theorems
about them proved with TLAPS. Paths are relative to the repository's root; unless a
path says otherwise, `routes/`, `models/`, `services/`, ... are those under `src/`.

## How the program runs, and what that makes hard

One node process (several behind a load balancer work as well) serves HTTP
requests. Every handler is an async function: it reads documents, awaits, calls
Stripe, awaits, writes. **Between two awaits of one handler all the others run.**
The state is in MongoDB documents, in Redis keys and at Stripe; nothing of it is
changed in a transaction. A document is protected, if at all, by one of

- a conditional update (`findOneAndUpdate` with a status in its filter),
- mongoose's `optimisticConcurrency` (gift cards only),
- mongoose's `__v` in the filter of a write that sets a whole array or an element
  of one by its position,
- a unique index (an admin's e-mail, a tenant's slug, a seminar booking's number),
- a Redis lock (`services/lockService.js`), which no booking route takes.

`save()` writes the fields the handler changed as compared to its own copy, and
nothing else; so two handlers that change different fields do not disturb each
other, and two that change the same one overwrite each other.

Stripe reports what happened by webhooks, which come late, twice, in any order,
or not at all; `routes/webhooks.js` catches every error, logs it and answers 200,
so an event whose handling failed does not come again.

All models share this view: one action for each stretch of a handler between two
awaits, one variable from request to where it waits and what it has read (its name
says who asks: `clerk`, `cashier`, `founder`, ...), and a crash action that ends a
request at any await.

## Components

| component | state | operations | hard behaviour | what makes it correct | modelled in |
|---|---|---|---|---|---|
| Slot lock (`services/lockService.js`) | Redis key, its PTTL | acquire, verify, release, refresh, force-release | resent commands, expiry during a call, unvalidated ttl | at most one client relies on a slot's lock; orphans end | `SlotLock`, `AbstractLease` |
| Appointments (`routes/appointments.js`) | status, start, session; TTL index | book, move, patch, cancel, delete | check-then-act at every write | no overlap the conflict query could have prevented; reservations end | `Booking` |
| Checkout (`routes/checkout.js`) | the appointment, the gift card hold | create-session, confirm, abandon | stale copies across Stripe calls | only payment confirms; a paid appointment is kept | `Booking`, `GiftCard`, `ClientBook`, `Mail` |
| Stripe webhooks (`routes/webhooks.js`) | none of its own | one case per event type | repeated, late, reordered, swallowed events | an event has its effect once, in any order | the module of what each case changes |
| Gift cards (`routes/giftCards.js`) | status, redeemed amount, holds, version | sell, confirm, cancel, redeem, reserve, release | whole copies saved under a version | never overdrawn; no redemption lost; a sold card stays sold | `GiftCard`, `Mail` |
| Cancellation and refunds (`appointments.js`, `users.js`) | status, refund, idempotency key | outcome, refund, write | crash between refund and write | refunded once, and as the status says | `Cancellation` |
| Waitlist (`services/waitlistAutoFillService.js`) | entries, their appointments | join, patch, find a candidate, book, convert | a list read once and walked with awaits | an entry becomes one appointment; nobody is overtaken | `Waitlist` |
| Seminars | sessions, attendees, bookings | publish, edit, pay, cancel | seats in a counter saved from a copy | seats counted; oversold only by a race | `Seminar` |
| Reminders (`services/reminderService.js`) | the sent mark | hourly run, move, cancel | overlapping runs, a move under a run | one reminder, for the day of the visit | `Reminders` |
| Slot computation (`utils/slotPlanner.js`, `slotEngine.js`) | none: appointments, time off, hours | list slots, fully booked days | boundaries of intervals and days | what is offered is free, and all that is free | `Availability` |
| Clients (`services/clientService.js`) | client, relation, figures | find or create, register, Google, delete | figures counted and written later; deletion in three writes | figures current, a deleted client forgotten | `ClientBook` |
| Client portal and users | the appointment, the account | reschedule, cancel, register, delete | unconditional saves | as for appointments and clients | `Booking`, `Cancellation`, `ClientBook`, `Reminders` |
| Shop orders (`routes/orders.js`) | order, payment, stock | confirm, patch, cancel, refund, delete | routes look at different fields | the seller pays back once | `ShopOrder` |
| Terminal payments (`routes/payments.js`) | payment, refunds | intent, confirm, refund | refunds made between read and save | every refund recorded; what is called paid was captured | `TerminalPayment` |
| Connected accounts (`routes/connect.js`) | four fields of the specialist | onboard, status, disconnect, payouts | answers older than another save | the fields tell one story | `ConnectAccount` |
| Premium features (`routes/features.js`) | feature and SMS flags | subscribe, cancel, events | events in any order, matched by id or price | enabled while Stripe says so | `PremiumFeature` |
| Referrals | codes, referrals | get a code, sign up by one, dashboard | look, generate, insert | a dashboard shows all its owner has referred | `Referral` |
| Catalogue (`routes/services.js`) | services, cached count | list page by page | count older than the page; equal names | a walk sees every service | `Catalogue` |
| Pictures (`utils/cloudinary.js`, eight routers) | main picture, gallery; files at Cloudinary | upload, replace, delete | deleted before it is replaced | what is shown is there | `Pictures` |
| Sign-up and tenants (`routes/tenants.js`) | tenant, admin, settings, location, specialist | sign up, change address, delete, flags | eight writes, no transaction; queries redirected to the request's own tenant | a salon is there once and whole, or gone | `SignUp`, `Tenancy` |
| Tenant context (`middleware/`) | the cache of tenants | resolve, authenticate, clear | a look-up overtaken by a write | a request works on its own tenant | `Tenancy` |
| Admin accounts (`routes/auth.js`, `admins.js`) | password, attempts, lock, refresh tokens | sign in, change, reset, rotate | decisions on counts read before bcrypt; a copy built by hand | locked after the maximum; no session without a sign-in | `AdminSession`, `RefreshTokens` |
| Staff (`routes/specialists.js`) | specialist and its login | create, change either address, link, delete | linked in a later write, or by one side only | a deleted specialist cannot sign in | `Staff` |
| Locations | the primary flag | create, patch, close | flag taken from the others before the insert | one primary location | `Location` |
| Consents | templates in versions, records | edit, rename, publish, sign, delete, revoke | an edit or a deletion begun before publication | a signed text stands | `Consent` |
| Mail (`emails/`) | what was sent and recorded | letters of each route; the delivery job | record behind the last letter | a record stands for one letter; scheduled cards arrive | `Mail` |
| Public consents, platform subscriptions, shop content, reporting, calendar, unused code, infrastructure | - | - | - | - | not modelled, see the end |

`PROJECT.json` lists the same components with their files, and every hazard of
the code at its line with the properties that would show it.

## The modules

### SlotLock, AbstractLease

`AbstractLease` is what the service promises: a slot is leased to one id for a
stated time; the lease ends when the time is over, or earlier when its holder or
an administrator has asked for it; it changes hands only through "nobody".

`SlotLock` has Redis (`key`, `pttl`), one request per caller in the server
(`call`) and what each caller was last told (`held`). A command is executed by
`SetNxPx`, `GetKey`, `ReleaseScript`, `RefreshScript` or `DelKey`; `Executed`
then lets the handler go on, or leaves the command to be sent again, up to
`MaxRetries` times, although Redis has executed it (ioredis'
`maxRetriesPerRequest`). `ViewAfter` is the answer: `expiresAt` is computed when
the answer has come back, so `late` records by how much it is off.
`LockTTL` is `ttl || DEFAULT_TTL`; a negative ttl makes SET fail and PEXPIRE
delete. `Trusts(c)`: by the caller's clock, corrected by that delay, its lock has
not run out, and no administrator took it.

`Lease == INSTANCE AbstractLease WITH holder <- key, left <- pttl, asked <- ...`
is the refinement; `LeaseSpec` is both a property of the run and a theorem.

### GiftCard

One card. A handler fetches the document into its copy, and `Save(h)` writes the
copy only while `h \in current`, the set of handlers whose copy has the stored
version: that is `optimisticConcurrency` without version numbers. `VersionError`
is the other case; what follows it differs by handler (500, a logged error with
200, a second attempt, 409). Holds carry their remaining time and run out in the
document and in every copy alike. `payment.giftCard` is not in the payment
schema, so mongoose drops it and the webhook's redemption and release code finds
nothing; a hold therefore ends by expiry or by the checkout's own error path.

### Booking

One specialist's appointments. `Check` is the conflict query, `Create` the write
some awaits later, with `kind` for what is created (an unpaid reservation, one
with a checkout session or a deposit link, or a confirmed one). `PayExisting`,
`OpenSession`, `ConfirmRead`/`ConfirmWrite` and `AbandonRead`/`AbandonDelete` are
the checkout; `CancelRead`/`CancelWrite`, `UserCancelRead`/`UserCancelSave` and
`FillRead`/`FillCheck` the cancellations with the waitlist's filler; `PatchStatus`,
`MoveCheck`/`MoveSave`, `EraseRead`/`Erase` and `DeleteAll` the staff's routes and
the client's rescheduling. `Pay`, `Decline`, `SessionExpires` are Stripe (external)
and `WebhookPaid`, `WebhookFailed`, `WebhookVain` the webhook. `TtlDelete` is the
TTL index, `Tick` the clock.

Two variables are history only. `excused` holds the pairs of appointments of
which the later one could not have seen the other when it came into the slot:
the other arrived after its conflict query, or it came without a query. A pair's
excuse is renewed whenever one of the two begins to occupy its slot again.
`vouched` holds the appointments that staff or the salon confirmed. Every change
of a document that may occupy a slot goes through `Put`, which keeps `excused`.

Abstractions: an appointment covers one slot; the three `cancelled_*` statuses
are one; amounts, `payment.status`, mails, audit entries and earnings are left
out here (refunds are in `Cancellation`, mails in `Mail`); there is one tenant and
callers are authorised.

### Around the appointment (`MCVisits`)

- **Cancellation.** One paid appointment, the refunds at Stripe and the requests
  that cancel, patch and retry. `IdempotencyKey` is the version (`updatedAt`) as it
  was read, `AskRefund` is idempotent under it. History: `touched`, the versions that
  something else than POST /cancel wrote; `looked`, those that its own look-up of
  the payment wrote (`appointments.js:496`), behind the read that the key is made
  of and in front of the refund; and `claimed`, a status set to refunded by a route
  that asks for no refund (`users.js:200`, staff).
- **Waitlist.** The entries by rank, the appointments made for them, and fillers,
  each with the list it read once and the five awaits of its loop. The calendar
  is there as far as the conflict queries see it. History: `madeFor`,
  `excusedTwice`; a filler notes whom it `passed` over and which better entries it
  has `missed`.
- **Seminar.** One session: `MaxSeats`, the counter `count`, the bookings, and
  mongoose's `version` of the sessions array. Events come any number of times.
  History: `drifted` (a counter was saved over another one, a cancellation was
  repeated, or the second write failed) and `late` (a seat was taken on a count
  that was old).
- **Reminders.** One appointment, half-day hours, overlapping runs and the moves of
  client and staff. History: `told`, `toldTwice`, `overlap`, `movedAcross`, `byAdmin`.
- **Availability.** The two slot engines as recursive functions over windows with
  their breaks and blocking intervals, compared with reference definitions
  (`SlotsAreRight`) while the agenda changes. slotPlanner asks each break
  (`InBreak`), slotEngine merges them and keeps a pointer (`MergeSorted`,
  `HitsBreak`). Breaks exist in the legacy form of the hours; the schemas strip
  them from the other two. Times are ticks of a day with one that touches it on either
  side, so that appointments across midnight and a shifted UTC day occur.
- **ClientBook.** One e-mail's clients, the salon's relation with its figures,
  visits and deletion in three writes. History: `crossed` (a booking ran while the
  client was deleted) and `outdated` (a visit has changed where no figures are
  counted, as in the webhook).

### How a salon sells (`MCSalon`)

- **ConnectAccount.** The four fields of a connected account, answers of Stripe that
  come behind another save; history `overtaken`, `counted`.
- **PremiumFeature.** Two features, two subscriptions, their events with the state
  they were sent in; history `disturbed` (reordered, repeated, overlapping or
  lost).
- **Referral.** Look for a code, generate one that is not taken, insert; a unique
  code; the dashboard shows the referrals of one of its owner's codes. History:
  `before`, the codes that were there when an owner without one was about to get
  it, and, next to what is shown, all that could be.
- **Catalogue.** A walk over pages by a count that may be a minute old. The pages are
  sorted by `Name`, which two services may share: each query then puts them in an
  order of its own (`Orders`).
- **TerminalPayment.** The document, the intent and the refunds at Stripe, cashiers
  whose save holds what they computed; history `unrecorded` (died between refund and
  save) and `overwritten` (a status saved over one that a refund is in).
- **ShopOrder.** An order in any state the shop had left it, its product's stock,
  the specialist's share; history `deducted`.
- **Pictures.** A route is a plan of `upload`, `delete`, `save` and the like, with an
  await in front of each; kinds of documents differ in their plans. History
  `lost`: pictures that are excused.

### A salon and its people (`MCAccess`)

- **SignUp.** Two look-ups and eight writes; PUT of an e-mail, which nobody looks up;
  deletion of a tenant. A request may belong to a tenant, and the plugin then puts
  that one into the filters of its queries (`Within`). History: `met` (whom the
  look-up of a sign-up has seen), `given` (an e-mail by PUT), `torn` (a deletion
  overtook a sign-up, or a request of another salon made it), `lost` (a part was
  deleted on its own, or by the deletion of another salon).
- **AdminSession, RefreshTokens.** The account through sign-in, lock, change and
  reset; then the tokens. `raced`: an attempt was counted from an old copy;
  `signIns`, `forked`: tokens not made from another, and a token replaced twice
  or by half.
- **Tenancy.** The cache has an entry for each tenant by slug and by id; a visitor
  resolves, authenticates and runs in a context, an editor writes and then clears.
- **Staff.** Specialists, accounts, and the link written some awaits later; accounts
  made or linked by an admin, which the specialist does not name; changes of either
  e-mail. History: `excused`, and `byHand`, the accounts an admin has linked.
- **Location.** A creation takes the flag, awaits and inserts; history `forced` (by
  PATCH or an overlapping creation), `dropped`.
- **Consent.** Templates in versions with their text, records with the text that
  was signed. A PUT of the name alone is saved without a check of the revision. History:
  `late`, records saved when a deletion had counted the records.

### Letters (`MCCards`)

- **Mail.** Every mail function as the sequence of its letters, every route, event
  and job that sends as a sender that reads the record, sends letter by letter and
  writes the record behind the last. `mailed` counts up to two; history `raced`,
  `lost`.

### Composition

`MCVisits`, `MCSalon`, `MCAccess` and `MCCards` compose components that run beside
each other and share no state. A constant of the behaviour, `focus`, says which of
them moves, so that their state spaces add and do not multiply; each property
still speaks of the whole state. Where components do meet they are in one module: the
appointment with Stripe, the TTL index and the waitlist's filler in `Booking`, the
card with its checkout in `GiftCard`, the seminar with its event in `Seminar`.

## The runs

| run | checks | distinct states |
|---|---|---|
| `slot_lock` | `TypeOK`, `TrustedLockIsHeld`, `MutualExclusion`, `LeaseSpec`, `OrphanIsFreed` | 960,000 |
| `gift_card` | `CardsTypeOK`, `NeverOverdrawn`, `RedeemedIsCredited`, `RecordsAreTrue`, `SentStaysSpendable`, `HoldStands`, `AbandonedHoldLapses`, `ScheduledIsDelivered` | 101,000 |
| `booking_race` | `TypeOK`, `OverlapIsExplained` | 1,770,000 |
| `booking_payment` | `ConfirmedIsPaidOrVouched`, `ReservationEnds` | 350,000 |
| `visits` | `TypeOK`, `RefundsAreJustified`, `BookingsAreTheirs`, `NobodyIsOvertaken`, `SeatsAreCounted`, `OversoldByRaceOnly`, `RemindersStand`, `SlotsAreRight`, `RelationsAreTrue` | 723,000 |
| `salon` | `TypeOK`, `SellerIsConsistent`, `FeatureFollowsStripe`, `ReferralsAreShown`, `WindowIsWhole`, `PaymentIsRecorded`, `SellerPaysOnce` | 1,370,000 |
| `access` | `TypeOK`, `SalonsAreSound`, `AccountIsGuarded`, `TenantIsRight`, `DeletedCannotSignIn`, `PrimaryIsExplained`, `SignedTextStands` | 916,000 |
| `gift_card_stranded` | `PaidCardNotCancelled` is violated | - |
| `double_booking` | `NoDoubleBooking` is violated | - |
| `paid_booking_deleted` | `PaidIsNotAbandoned` is violated | - |
| `paid_booking_expired` | `PaidIsNotExpired` is violated | - |
| `admin_password` | `RightPasswordPasses` is violated | - |

What the properties of the new components say, in a line each; the modules state
them in full, with their exceptions:

- `RefundsAreJustified`: two refunds need a write between their keys, by something
  else than POST /cancel or by its own look-up of the payment, and an appointment
  that POST /cancel marked as refunded was refunded by as much.
- `BookingsAreTheirs`, `NobodyIsOvertaken`: an entry becomes one appointment, its own,
  but for named excuses; a filler books an entry only when it found all better
  ones on its list busy.
- `SeatsAreCounted`, `OversoldByRaceOnly`: the counter is the number of bookings
  until it drifts in one of the named ways; the comparison itself never oversells.
- `RemindersStand`: what is marked as reminded was reminded for the day it has, and
  once, unless runs overlapped or one died.
- `SlotsAreRight`: each engine computes exactly the starts that are free of breaks,
  time off and appointments (the second one of cancelled ones too), and the two
  endpoints agree.
- `RelationsAreTrue`: figures are current once every request has ended; nothing is
  left of a deleted client.
- `SellerIsConsistent`, `FeatureFollowsStripe`: the stored fields agree with each
  other and with Stripe while nobody has written from an old copy and events came
  in order.
- `ReferralsAreShown`: a dashboard shows every salon its owner has referred, but for
  those by a second code made at the same time.
- `WindowIsWhole`: a walk by pages sees every service, but one whose name stands on
  both sides of a page's end (`WalkIsComplete`), and what is shown is at Cloudinary
  (`ShownIsHosted`).
- `PaymentIsRecorded`: every refund is recorded or about to be; what is called paid or
  refunded was captured; what is called refunded had at least half of its amount
  returned, and with no status written over a refund one with refunds is not called
  paid. It does not say that the document agrees with Stripe, which it does not
  (see below).
- `SellerPaysOnce`: a specialist's share is taken back once at most and only for money
  that went back.
- `SalonsAreSound`: an address belongs to one salon, unless two signed up at once or
  one was given it later; an answered salon is whole unless a part was deleted on its
  own or by the redirected deletion of another; nothing is left of a deleted one
  unless the deletion overtook the sign-up or was itself redirected.
- `DeletedCannotSignIn`: the account of a deleted specialist is gone, unless the
  deletion overtook the creation or failed, an e-mail changed while the specialist
  did not name the account, or an admin has linked the account, which no deletion
  looks for.
- `SignedTextStands`: the template of a record has the sections that were signed, and
  is deleted only if the records had been counted before the signature was saved.
- `TenantIsRight`, `PrimaryIsExplained`: as in the table of components.
- `AccountIsGuarded`: an account is locked exactly after the maximum of failed
  attempts, unless counts raced; there are no more live sessions than sign-ins,
  unless a refresh was doubled or cut off.
- `RecordsAreTrue`, `ScheduledIsDelivered`: a record stands for one letter; a
  scheduled card that was sold arrives.

Most of these have the form "P, unless one of these happened". The exceptions are
the findings of the modelling: each was added because TLC had shown a behaviour of
the code that reaches it, and the history variable says exactly which steps set it.
Nothing else breaks P, which is what the run shows, and the mutants show that the
exceptions do not swallow the property.

**Why the bounds are enough to be interesting.** Every component has two requests
at a time, the least number for one to write between the read and the write of
another; what comes from outside (Stripe's events, time, the TTL index, cron runs)
are actors of their own.

- The slot lock has two callers for one slot and two ids, so that an id is used
  again after its lease ended; a ttl of 2 and of 1, missing (0) and negative give
  every branch, and one resend the refused repetition of a successful SET.
- A card of two units can be redeemed in part, held twice and used up; two ticks
  let a hold be renewed before it runs out; two senders write one card's letters.
- Two requests race for one slot while a second one lets an appointment move away
  and back. With Stripe one request at a time is enough for `booking_payment`,
  because the races of two requests with a session are covered by the theorems.
- Two units to refund give a partial and a full refund, three versions a write
  between two keys. Two waiting entries and three appointments give one overtaken, one
  booked twice. A session of one or two seats with two bookings is sold out and
  oversold. Reminder times go to hour 3 (two days with their nights). The day of
  `Availability` has 8 ticks, steps of 2 and a block of 3, so that no boundary
    coincides by accident; schedules are closed, two windows, and one window with
  breaks that are apart, overlap, or end the day.
- Three events let an old one come behind a newer one and once more. Four services
  by two make two pages, and the second and third have one name, which stands on
  both sides of the border. A payment of 4 is refunded in up to three
  parts, of which the first may be a half or less. Three pictures suffice for old,
  new and a third that another request uploads.
- Two salons of three applications share an address or an owner or neither; three
  tokens are a session and its two successors; three failed attempts lock (the code
  has five, 5 in `models/Admin.js`: the maximum is a parameter); three locations
  let two take the flag from a third; two revisions an edit and a new version; one
  account beside the owner's and two specialists let both be linked to one.

An id of a deleted document is used again only when nothing refers to it any more,
which is a fresh ObjectId. Symmetry (`h1`, `h2` and `x1`, `x2`) is used only where
no liveness is checked, and only for values no definition tells apart.

`CHECK_DEADLOCK FALSE` in all configurations but the slot lock's: with every
request answered, time and counters at their bounds and no event outstanding the
system rests. The slot lock's clock always ticks, so there deadlock is checked.

**Fairness.** No request is assumed to come, to go on or to end, and no event of
Stripe to be delivered; time is fair, `WF(Tick)`, and in `Booking`
`WF(TtlDelete(a))`, because MongoDB's TTL monitor runs every minute. In `Mail` the
delivery job is fair: a card falls due (`WF`), the job finds it (`WF(FindDue)`; it
is started every five minutes and looks again until the record is written), and a
sender's letters are attempted and one of infinitely many attempts succeeds (`SF`
of `Deliver` and of each letter): a mail server that refuses for ever delivers
nothing.

- `OrphanIsFreed`: a lock nobody knows any more (the resend of a successful SET
  told its owner "locked by another user", or the owner is gone) leaves Redis.
- `AbandonedHoldLapses`: a hold whose checkout crashed, failed to release it or
  returned early gives the money back, or another checkout of the appointment
  takes it over.
- `ReservationEnds`: no appointment stays `reserved_unpaid` for ever, whatever
  declined payments and retries do; `createdAt` is never refreshed, which is what
  the property rests on (the mutant `SetStatusTouching` breaks it).
- `ScheduledIsDelivered`: a scheduled card that was sold is mailed to its recipient,
  whatever is refused or crashes on the way.

Each property of a passing run has a mutant in `PROJECT.json`: a plausible bug in
one definition (SET without NX, a save without the version check, an idempotency
key from the present version, a forgotten conversion, ...) under which the property
fails. The mutated definitions stand before their originals, marked "Mutant".

## Where the code does not do what it says

- **`double_booking`**: `docs/CLIENT_PROPOSAL.md:74` promises "No double-bookings
  (system prevents conflicts)". The conflict query and `Appointment.create` are
  separated by awaits, nothing locks the slot, no unique index covers it: two
  requests both pass and both are confirmed. `OverlapIsExplained` says exactly
  how far the promise holds.
- **`paid_booking_deleted`**: `routes/checkout.js:1123` "Only delete if appointment
  is reserved_unpaid (hasn't been paid)"; the delete at 1140 is by id, after an
  await, and removes an appointment that the webhook has confirmed meanwhile.
- **`paid_booking_expired`**: `models/Appointment.js:175` "automatically delete
  abandoned unpaid reservations". A paid appointment can be `reserved_unpaid` for
  good: its event's update failed and the event was answered 200, or
  `payment_failed` of a first try arrived after the success of the second
  (`routes/webhooks.js:1003` looks at no status). MongoDB then deletes it.
- **`gift_card_stranded`**: `POST /cancel` asks Stripe, the buyer pays, the webhook
  reads the card, the cancellation is saved, the webhook's save fails with a
  VersionError that is only logged: a paid card stays cancelled.
- **`admin_password`**: `routes/auth.js:201` "Lock has expired, automatically unlock".
  The route builds its document from a raw read, so to mongoose its password is
  modified, and the save that unlocks hashes the stored hash once more: the owner's
  right password fails from then on, until it is reset by mail.

Four more disagreements have no run of their own: a property of a passing run has a
disjunct for each, the modules define what the comment or the document says, and
TLC refutes that definition when it is the run's INVARIANT.

- **`salon`, `RefundStatusSaysSo`**: `models/Payment.js:121` "Full refund issued" of the
  status "refunded". `routes/payments.js:787` adds a refund to a sum that contains it:
  half of the amount makes a payment "refunded", and the rest can be refunded no more.
  `PaymentIsRecorded` says "at least half". Nor does it forbid that a confirmation saved
  late (583) writes "succeeded" over "refunded", or a refund on an old copy the
  wrong one of both: `overwritten`.
- **`visits`, `RetriesRefundOnce`**: `docs/REFUND_POLICY.md:428` "Idempotency key prevents
  double refunds", 429 "Each cancellation attempt uses same key". The look-up of the
  payment in POST /cancel (496) changes `updatedAt`, which the key is made of: look-up,
  refund, crash and a retry refund twice, with no other writer. With the reference
  stored from the beginning that does not happen: `RefundsAreJustified`.
- **`visits`, `CancelledTimesAreFree`**: `utils/slotEngine.js:157` "Filter out cancelled
  appointments (parity with slotPlanner)". It compares with "cancelled", a status no
  appointment has (`models/Appointment.js:122`), so cancelled appointments block.
- **`access`**: DELETE /api/tenants/:id means "to ensure all data is deleted together"
  (`routes/tenants.js:915`). By a request that belongs to another salon, by host,
  header or token, the plugin deletes that salon's specialists, settings, locations and
  accounts instead (`middleware/multiTenantPlugin.js:50`). `SalonsAreSound` excuses both
  salons (`torn`, `lost`).

## The theorems

They hold for every value of the constants under each module's named assumptions:
positive times, sentinels outside the sets, and in `Availability` a step no longer
than the day, lengths between 1 and the day, and schedules within the day. Sets of requests, slots, clients and
entries may be infinite. Assumed finite is what is counted, paged or searched for a
free number: the appointments that hold a gift card, the seats of a seminar, the
visits of clients, the services of a list, the handlers of a subscription's events,
salons, templates, refresh tokens and locations.

An invariant is the conjunction of the type invariant and named parts, proved in
three facts: the initial states have it, every step keeps it (a case for each action,
under it one for each part the action can disturb), and it implies the property.
Only the last line of a theorem is temporal.

**SlotLockProofs.** `TypeCorrect`, `TrustIsJustified` (`TrustedLockIsHeld`),
`Exclusion` (`MutualExclusion`), `ImplementsLease` (`LeaseSpec`).
`TrustedLockIsHeld` is not inductive: a release or refresh in flight could belong
to somebody else, and an answer on its way could grant more than Redis keeps.
`IInv` adds that ids are known to one caller only (`IdsApart`), that a request
carries its caller's lock and asks for no less than the caller still counts on
(`CallsMatchViews`), and that a granted answer on its way is still covered by the
key (`GrantedLockIsHeld`). One lemma for each of the groups `Execute`, `Ask`,
`Finish` and for `Tick`, a case for each action. Exclusion follows from trust and
`IdsApart`. The refinement maps `Tick` to `Pass`, a command to `Grant`, `Extend`,
`End` or a stutter, and everything else to `Request`.

**GiftCardProofs.** `SentIsNotTakenBack` (`SentStaysSpendable`),
`RedemptionsAreCounted` (`RedeemedIsCredited`), `HoldsAreTheirs` (`HoldStands`),
`CardsAreCovered` (`NeverOverdrawn`), `LettersAreRecorded` (`RecordsAreTrue`),
`CardsTypes` (`CardsTypeOK`). The argument is that of optimistic concurrency: a
handler whose copy has the stored version has a copy that may legally follow the
stored document (`Copies`, and `Ledger` for what redeemers were told), since every
save makes the other copies stale; `CopiesAreLegal` is that invariant.
`NeverOverdrawn` needs more of a copy: each one, stale or not, covers its own holds
(`Covered`). What a hold adds to their sum, or takes from it, is a lemma on the
fold over the appointments. The induction it needs is over sets, where the library's
theorems take an operator and no prover here can instantiate them; it is done in
first-order form instead, by the least member of the set of sizes at which the
lemma would fail. The letters rest on who still has a letter to send: a sender that
will write a record has mailed the letter.

**BookingProofs.** `TypeCorrect`, `OverlapsAreExplained` (`OverlapIsExplained`),
`ConfirmationsAreJustified` (`ConfirmedIsPaidOrVouched`). The inductive invariant
has three parts: `Types` (with what each step of a handler has read), `Overlaps`
(a handler behind its conflict query has noted every arrival in its slot since,
`Covered`), and `Payments` (a session id in a document, an event or a stale copy
belongs to that appointment). `PutKeeps` carries the weight: it is proved once for
every write that may occupy a slot.

**VisitProofs.** `RefundsStandUp` (`RefundsAreJustified`): a refund's key is a
version at which the document was not cancelled, and the cancelling write of POST
/cancel, the only one that leaves no trace in `touched` or `looked`, leaves it
cancelled: so of two keys the later one is the trace (`KeysAreTouched`). A request
about to write "cancelled" has its refund already (`RefundedFirst`).
`RemindersGoOutOnce` (`RemindersStand`): until two runs have met, one run holds the list and what it still has to mark it alone has sent
(`OneRun`, `MarkIsRight`). `SeatsStayCounted` (`SeatsAreCounted`) and
`OversoldOnlyByRace` (`OversoldByRaceOnly`): `SeatsAreCounted` names the requests
between their two writes, which makes it inductive; `SeatsLeft` says that a request
about to insert a booking, and not late, has a free seat. `RelationsStayTrue`
(`RelationsAreTrue`): figures are either those of the visits or due to be counted
by somebody (`FiguresAreDue`). `VisitTypes` is the run's whole `TypeOK`; the part
that is not obvious is that a seminar's counter stays below its bookings when
stale copies are saved over it: it is at most the number of bookings whose request
is behind its second write (`Kept`), which never falls. `CancellationTypes` and
`ClientTypes` are parts of it.

`FreeTimesAreRight` (`SlotsAreRight`) says the same of both slot engines for any day,
step, length of the service, schedules and agenda. The state's part is small
(`AgendaInv`: every interval has a length); the rest is about the loops, by the
induction over numbers that the library states for operators and `NaturalsAreIn`
for sets. `SortExists` and `ByStartSorts`: sorting is possible and leaves nothing
out. `MergeBlocks`: taking one interval into the merged ones blocks the slots that
it overlaps and no other, which needs the order; hence `MergedBlocks`. `ClampBlocks`:
within the day clamping changes no overlap. `RoundUpMeetsGrid`: counting steps from the
rounded start visits the multiples of the step. `AdvanceLeavesBehind`,
`HitsAreBlocked` and `ScanningIsRight`: what the pointers of `slotEngine.js` have
passed has ended, so the scan from there finds what a scan of everything would;
`BreakIsBlocked`: of the breaks it is enough to look at the current one, as the code
does, because they are merged.

**WaitlistProofs.** `EntriesAreBookedOnce` (`BookingsAreTheirs`), `QueueIsKept`
(`NobodyIsOvertaken`), from four parts: `Filling` (what a filler has in hand),
`Known` (a booked entry on its list is being marked, or the list is too old),
`Marked` (a booked entry that waits has an excuse) and `InOrder` (what is not on
the list was passed over or never seen).

**TenantProofs.** `SalonsStandWhole` (`SalonsAreSound`): `Progress` says which parts
are there at each write of a sign-up, `Met` that what a request
met when it looked its address up has another one, unless PUT /:id gave it one.
`RequestsKeepTheirTenant` (`TenantIsRight`): `Fits` ties a look-up to the key it
fills.

**SalonProofs.** `DashboardIsWhole` (`ReferralsAreShown`): of two codes of one owner
either was not there when the other's owner was looked at; `SharesGoBackOnce`
(`SellerPaysOnce`; it rests on Stripe refunding a charge once);
`PaymentSaysWhatIsSo` (`PaymentIsRecorded`), where the copy of every cashier who
will write "paid" was read or confirmed as paid (`Paid`); `SellerStaysConsistent`
(`SellerIsConsistent`): until a save overtakes another, the fields and every copy
tell one story (`TellsOneStory`), and payouts are the sum that was counted less what
requests are still adding. `WindowStaysWhole` (`WindowIsWhole`) is about a walk
through an unchanged list: in whatever order a query puts equal names, a
service whose name is on one page only is returned with it (`PlacesFit`, `PageHolds`),
and what a whole walk has not seen shares its name with services on both sides of a
page's end (`WalkSuffices`);
and about pictures: every request follows a plan of steps (`Suits`) whose uploads
are new (`UploadsAreNew`), and galleries and single pictures are kept apart
(`KindsAreApart`, `GalleriesAreExcused`). `FeaturesFollow` (`FeatureFollowsStripe`):
while events are handled one at a time and in order, the last event that was handled
for a subscription tells what is stored of its feature, and the last one that exists
tells what Stripe has. `SalonTypes` is the run's `TypeOK`.

**AccessProofs.** `PrimaryHasReason` (`PrimaryIsExplained`), `TextStands`
(`SignedTextStands`: a template that was signed has been published, and an editor
whose copy is a draft has an old revision by then: `Settled`; a deletion that counted
the records before the signature is the one excuse: `CountStands`),
`DeletedIsLockedOut` (`DeletedCannotSignIn`: the deletion comes to the account that the
specialist names, `LinkHolds`, or finds the one made for it by its e-mail, `MailHolds`,
but for accounts linked by an admin's hand and e-mails changed since).
`GuessingIsBounded` (`AccountIsGuarded`): attempts and lock agree while no attempt was counted from an overtaken copy; live tokens are
no more than the sign-ins and the requests that have made a successor and not yet
revoked its predecessor (`Rotated`), by lemmas on the cardinality of both sets.
`AccessTypes` is the run's `TypeOK`: a first free number for a slug exists, because fewer are taken than there are documents and the
naturals are well-founded; versions and sign-ins are counted by the documents they
took. Proving it showed that the type of `attempts` had been wrong: with three
requests or more, stale copies take the counter past any bound that is fixed in
advance, so its type is the naturals.

**Only model-checked.** The liveness properties `OrphanIsFreed`,
`AbandonedHoldLapses`, `ScheduledIsDelivered` and `ReservationEnds`: fairness and
ENABLED are beyond the prover. Every other property of a passing run has a theorem; the
properties of the five violation runs are refuted there.

## Not modelled, and why

- **Cannot run as it stands.** Creating an order, a product, a blog post or the about
  page fails its validation, because mongoose validates before the plugin sets
  `tenantId` (`middleware/multiTenantPlugin.js:75`); POST /orders/checkout throws a
  TypeError. `routes/subscriptions.js` hands Stripe's signature check a parsed
  body, which always throws. The public signing of consents calls `require` in an
  ES module. `sendReminderEmail` calls a function that does not exist. POST
  /intents with an appointment answers 404. PATCH /me of the working hours answers
  404. The second cases with the same label in the webhook's switch
  (`webhooks.js:1377`, 1537, 1629) are unreachable. `consumeReservation` is never
  reached, `recordFirstBooking`, `createBookingWithClient` and the beauticians'
  router are called by nothing.
- **In place, but without a property.** The result of `verifyLock` (two commands,
  `lockService.js:203`) is used by nothing; `confirm` may add earnings twice
  (`checkout.js:187`); `GET /fully-booked` keeps its answer for five minutes
  (`routes/slots.js:20`); DELETE of a specialist asks whether services name it by
  fields that services do not have (`specialists.js`), so the question never stops
  it; cancelling and then refunding an order gives its stock back twice
  (`orders.js:883`, 960), and reloading the confirmation takes it again (105):
  the model has these steps, and no property would hold of the stock.
- **Data left out.** Fees, commissions, earnings, percentages and dates of a
  cancellation policy, shipping, variants, profile fields, the text of letters and
  documents, paging other than the services', the days on which clocks change.
- **No state, or state of one plain document.** Reports, revenue, analytics,
  receipts, health checks, metrics and the SCAN of locks read; settings, blog,
  hero sections, wishlist, favourites, shipping, support and demo routes each write one
  document that nothing else depends on (their pictures are in `Pictures`). Google
  Calendar is input and output behind an answer. Process set-up, logging and request
  limits stand in front of handlers.
- **Assumed.** Callers are authorised and bodies valid: roles, input validation
  and tenant filters are in front of the handlers (`Tenancy` has what can go wrong
  between requests).

## What is left

The earnings of specialists across checkout, webhooks and refunds would be the next
model: they are incremented in five places, none of them idempotent. Of the proofs, the
refinement of the lease could be followed by one for the optimistic saves that
`GiftCard`, `ConnectAccount` and `Seminar` have in common.
