# Formal models of the Flutter practice app

The repository is one Flutter application (`lib/`, about 10 200 lines of Dart)
that collects independent features behind a home page: a step counter, a product
manager, a CRUD client, a paged list, a ledger, authentication, payments,
Firestore screens and smaller exercises. Everything under `ios/Pods` is vendored,
and the platform runners and `firebase_options.dart` are generated; they are not
part of the models.

All Dart code runs on one thread. What is hard in it is what happens between two
`await`s: handlers that start asynchronous work without waiting for it, screens
that are closed while their work goes on, answers that come in another order,
and a process that is killed between two writes. The modules keep exactly that
control structure and reduce data to what a property can tell apart.

## Inventory

| Component | State it keeps | Operations | What is hard | What makes it correct |
|---|---|---|---|---|
| Step counter (`health/step_counter`) | today's count, baseline, goal, date, history; five preference keys | load, step event, pause/resume, resets, set goal, new day, dispose | every handler starts `_saveData` (five awaited writes) without awaiting it; kills, reboots, midnight, clock changes | stored = shown once saves end; history ordered, one entry per date; no step credited twice |
| Hisabi (`hisabi/`) | SQLite table; list screen; add/edit page | insert, update, delete, search, filter, reload | look-up and write are two statements; any statement may fail; a closed page's submit goes on and pops a screen or answers a dialog | barcodes unique, creation times kept, list follows the table, no screen stuck |
| CRUD client (`project/crud_app`) | product list; add and update screens; requests in flight | load, add, update, delete | answers in any order, after their screen has gone; uncaught exceptions; buttons left enabled | no product twice, none already deleted, spinners end, an update closes its own screen |
| Paged list (`rest_api/complex_json`) | users, page number, two flags | fetch, refresh | refresh during a fetch; end of data | pages in order, without gap or repetition; spinner ends |
| Ledger (`project/money_management`) | earnings and expenses; two preference keys | load, add entry | entry added before the load; amounts that cannot be encoded; kill between two writes | nothing stored is lost; what is shown is saved |
| Authentication (`firebase/`, log-out of `home_page/`) | Firebase user, route stack, two spinners per screen | log in, Google, sign up, log out | the auth stream swaps screens while a call runs; a call's reply and its event come in either order; `pushReplacement` takes whatever is on top | the wrapper ends on the last change; no home page without a sign-in; spinners end; a call replaces its own screen |
| Students (`local_storage/sqflite`) | SQLite table, list | insert, delete, load | overlapping loads, lazily opened connection, calls of closed pages | an idle page shows the table |
| Water tracker (`project/water_tracker`) | tank, snack-bar flag, timer | add, remove, tick | bars queue in the app's messenger and outlive the page | the flag tells the truth and is cleared |
| Stripe (`stripe/`) | one native payment sheet, calls under way | pay 10, 99, 990 | overlapping presses share the sheet; page left or process ended while paying | own price shown, true messages, one charge per success |
| Firestore (`firestore/`) | collection, pending writes, local copy | submit, fetch, save locally | `add` may take for ever; repeated submit; saves nobody awaits | no duplicate without a repeated tap, true messages, the copy follows the last snapshot |
| Calculator (`project/calculator`) | five fields | keys | one synchronous handler | not modelled |
| Recipe app (`recipe_app/`) | the providers' values | first watch | Riverpod keeps the outcomes | not modelled |
| To-do list, counter | a list, a number | synchronous handlers | – | not modelled |
| Home page, router, start-up, notifications, exercises | none of their own | navigation, drawing | start-up awaits three libraries | not modelled |

Components share only the navigator, `SharedPreferences` (disjoint keys) and the
Firebase user; no feature calls another. So each has a module of its own, and no
module composes two features. The navigator is where they could meet: `Auth`,
`Firestore`, `Hisabi` and `CrudApp` each keep the part of the stack above the page
they start from.

## Modules

**`StepCounter`** – `_StepCounterPageState` against `SharedPreferences`. `mem` is
the fields, `cache` the preference map of the process, `disk` the file, `saves`
the outstanding write of each running `_saveData`. `SaveReply` is the platform's
answer to the oldest write: the file gets the value, and the `_saveData` that
sent it reads its next field *now* and sends it. `CheckDateChange`,
`SaveTodaySteps`, `Counted` and `NewDayReset` are the methods of those names;
`Open`, `Load`, `Permission`, `StreamDone`, `StepEvent`, `Pause`, `Resume`,
`Dispose`, `SelectView`, `ResetTodaySteps`, `ResetAllHistory`, `SetGoal` the
handlers; `Walk`, `Midnight`, `ClockBack`, `Kill`, `Reboot` the world. `setState`
on a disposed State throws before its callback in a debug build and after it in
a release build; both outcomes are allowed. `_onError` and the tab texts only
change the status line and are left out.

**`Hisabi`** – the products table and `queue`, the statements sqflite has been
given and runs in order, each with what its caller does next. `RunInsertCheck`
and `RunInsert` are the two halves of `insertProduct`, `RunUpdateCheck` and
`RunUpdate` those of `updateProduct`, `RunAll` and `RunCategories` those of
`_loadData`. Each of them may fail. A submit fails for a barcode in use and for any
other error of its statement (a price that parses to NaN passes the form and is
refused by NOT NULL); its page is told and nothing is stored. A `getAllProducts` that
fails ends the load with the old list still shown, `getAllCategories` answers an error
with no categories (`missed` says which), and a delete that fails leaves the table and
starts no load. `DeleteProduct` opens the delete dialog, `asking` is the product it is
about, `ConfirmDelete` and `CancelDelete` are its buttons. A closed page is in `exiting`
until its animation ends; while it is there it is mounted, and the `Navigator.pop` of
its submit takes the screen on top (`PopTop`); a delete dialog takes that pop's result,
true, for the user's consent. A product is its barcode, category and `createdAt`; the
form's fields are chosen when it is submitted, so the category menu, which only fills a
field, is left out. `scanner` is the dialog of `_scanBarcode`; it goes on reporting
barcodes until it is disposed, and each report fills the field, looks the barcode
up and pops the screen on top (`BarcodeDetected`). `Queries` and `Chips` are the search
texts and the category chips users choose in the list. Run `hisabi` has the third
screen and the third submit, which the index and the refinement need, and leaves out
the scanner (`MaxScanners` 0), the filters and failing loads (`LoadsSucceed`; inserts,
updates and deletes do fail); `hisabi_pages` has all of these, the fairness, and one
barcode. A search text enters `Filter` as a chip does.

**`ProductStore`** – what `DatabaseHelper` promises: a product submitted is stored
or refused in one step. `Hisabi` implements it with `rows` the table and `pending`
the submits in the queue (`PendingSubmits`); `ImplementsProductStore` is checked
by run `hisabi`. A look-up that lets its submit go on is a stuttering step; an
insert or update that is carried out is `Create`, `Change` or `Miss`. A statement of a
submit that fails, for a barcode in use or with any other error of the database, is
`Refuse`, which may happen at any time and leaves no trace of the product. What the
abstract store rules out is the other side: a duplicate accepted, a product half
stored, stored twice, or stored after its refusal.

**`CrudApp`** – the list, its items' menus and the two forms. Each request is a
record that is *sent*, then *served* (this is when the external service changes
its data or reads the list) and then answered, refused or lost, in any order.
`screen` remembers what became of the sender.

**`UserPaging`** – `_ComplexApiState`. `request` is the page asked for.

**`MoneyManagement`** – `_MoneyManagementState`. `waiting` counts the saves that
wait for `getInstance`; `InstanceReady` lets the load and the saves go on in
either order, since that is decided inside the library.

**`Students`** – `DatabaseHelper.database`, `StudentRepository` and
`_StudentPageState`. `awaiting` is the calls that await the opening of the
connection, `sent` the statements sqflite has still to run; a call made once
`_database` is set goes straight to `sent`, past those in `awaiting`. `mine`
tells the calls of the open page from those of pages closed before. A write that
ends sends the load of its own page (`LoadAfter`). Any statement may fail.

**`WaterTracker`** – `_WaterTrackerState` and the queue of the app's
`ScaffoldMessenger`, in which `TRUE` marks a bar of the open page.

**`Auth`** – the routes above and including GoRouter's `/`, whose `WrapperScreen`
shows a log-in screen or home. `events` is the auth-state changes the wrapper has
still to hear of; `flows` the calls of `logIn`, `signInWithGoogle` and `signup`, each
with the await it has reached. A screen is identified by the `State` it keeps, the
wrapper by that of its log-in screen. `PushReplacement` takes the top of the stack:
when that is the wrapper, a page of GoRouter, a debug build trips an assertion and
leaves the navigator locked, and a release build replaces the wrapper. `debug` is
chosen in `Init`. Creating an account also signs in, so `SignUpEnds` may push its
log-in screen over a home page; a home page pushed by a call survives a log-out.
`isLoggedIn` is written and never read; it is left out, the await of its write in the
Google flow is not.

**`StripePayment`** – one record per press, with the await it has reached; `sheet` is
the press whose intent the native sheet holds, `shown` the one whose intent was on
it when a press presented it, `paid` what the server knows.

**`Firestore`** – the view, send and fetch pages. A form's three fields are one
entry; a submit is *sent* until the server takes or refuses it, also when its page
or process is gone. `QueryResult` is what the SDK answers, pending writes included.
`saves` are the `setStringList` calls on their way.

`MC*` modules instantiate them for TLC. A component's proofs are in the module of
its name with `Proofs` behind it (`StepCounterProofs`, `HisabiProofs`,
`StudentsProofs`, `StripePaymentProofs`, `FirestoreProofs`, `AuthProofs`), except that
related small ones share a module: `RestProofs` is about `CrudApp` and `UserPaging`,
`ProjectPagesProofs` about `MoneyManagement` and `WaterTracker`. A module extends both
of its two, so `UserPaging` and `WaterTracker` name their parts `PagingInit`,
`PagingNext`, `PagingSpec`, `WaterInit` and so on.
Definitions whose comment begins with *Mutant* are deliberate faults: none is
used by a specification; each, put in place of the definition that follows it,
must make a named property fail, which shows that the property is about the code.

## Runs

| Run | Bounds | What it shows |
|---|---|---|
| `step_counter` | 2 days, 2 steps, 2 saves at once, 1 fault (kill, reboot or clock set back a day), history limit 2, counter from 0 or 2 | Overlapping saves add up to a complete one (`SavesCatchUp`, `ReloadAgrees`); the history keeps its order, its limit and one entry per date through kills between writes and clock changes (`NewestFirst`, `OneEntryPerDate`); steps are never credited twice, also by a restarted counter (`NoOvercount`) |
| `step_counter_kill` | expected to fail | see Finding |
| `hisabi` | 2 barcodes, 1 category, 3 submits, 3 screens, 2 statements queued, no scanner, no filters, no failing loads | `BarcodesUnique`, `CreatedAtKept` with submits of several pages under way; `ImplementsProductStore`: a submit is carried out or refused as a whole, whichever of its statements fails, and an edit of a product deleted meanwhile brings nothing back, whatever the page reports |
| `hisabi_pages` | 1 barcode, 2 categories, 1 chip, 2 submits, 2 screens, 2 statements queued, 1 scanner, `FairSpec` | `ListFresh`, `FilterMeaning` through failed loads and deletes; `PopsOwnPage` with the scanner and the delete dialog; `PageFreed` |
| `crud_app` | 2 products, 2 requests in flight | `ListFaithful`, `SpinnerHasCause`, `UpdateClosesOwnScreen` |
| `user_paging` | page size 2, totals 0, 1, 2, 5, 6, 7, `FairPaging` | `PagesInOrder`, `SpinnerEnds` |
| `money_management` | 4 entries, 1 kill | `StoredNeverLost`, `ShownIsSaved` |
| `students` | 3 rows, 4 calls under way | `ListFresh`, `LoadsFollowWrites` |
| `water_tracker` | tank of 7, steps of 2 and 4, 4 bars, `FairWater` | `FlagMeansBar`, `FlagClears` |
| `auth` | 4 screens, 3 routes, 2 calls, 1 undelivered event, `FairSpec` | `WrapperFollows`, `HomeNeedsSignIn`, `SpinnerHasCause`, `ReplacesOwnScreen`, `ScreenFollowsUser` |
| `stripe` | 1 price, 3 presses, 2 visits, `FairSpec` | `ShowsOwnPrice`, `MessageIsTrue`, `PaidOnce`, `PressAnswered` |
| `firestore` | 2 screens, 2 submits, 2 saves | `DuplicateNeedsOverlap`, `MessageIsTrue`, `ReplacesOwnPage`, `CopyFollows`, `ShowsStored` |

Why the bounds are enough: every interference in this code is between two
activities (two saves, a submit and a close, a load and a delete), so two of each
kind meet in every order; two days and a history limit of two make the trim and
the replacement of an entry happen; totals on both sides of a multiple of the
page size make the end test happen; a tank of odd size makes the limits fall between
two steps; four entries fill both lists twice; three presses put two overlapping
ones behind or before an undisturbed one; a third route lets a call's screen be
covered and the cover be left again; a third Hisabi screen is what it takes for the
index to refuse an update whose look-up found nothing. The one fault of a step
counter behaviour is chosen freely at any point; two faults of different kinds in
one behaviour are outside the bound. Presses are told apart by
their identity, so that one price is enough for a sheet to show another press's
payment. Steps
taken, days, kills, requests and screens are counted against a named constant in
the guard of the action that spends them.

Every module states its `TypeOK` (`PagingTypeOK`, `WaterTypeOK`). It is proved for all of them, and the runs of
`StepCounter`, `Hisabi` and `Students` check it too.

Several properties have an exception in their statement, because the code does
not keep the plain form. These are facts about the code, and the auxiliary
variable that guards each one says when it happens:

* `lateRoll` – a page left while it loads on a new day stores a reset count with
  the old baseline (release build), and the old day's steps are counted again;
* `torn` – the process ended with three or more saves of the step counter running.
  A save begun before a date change stores the history of *now*, so the file may
  then have an entry of the new day under the old date; a later start banks the old
  day in front of it, or credits the new day twice. It takes the save of the reset,
  one of a step event and one that banks the new day, all still behind the first
  one. This came out of the attempt to prove `NewestFirst`, which holds without the
  exception for two saves at once and fails for five; the run's bound of two never
  meets the case, the proof of `HistoryInOrder` covers any number of saves and shows
  that three is the limit;
* `left` – the user closed a Hisabi page while its submit ran: the list is not
  reloaded, and the submit may pop another screen or answer a delete dialog;
* `searched` – a product edited after a search by id loses its creation time;
* `overlapped` – two loads of the CRUD list append to the same list;
* `broke` – an exception in a load or an add leaves the spinner on;
* `strayed` – an update was sent twice, or its screen left, and a success pops
  the list;
* `raced` – a refresh met a running request for a later page: a gap at the front
  and a page listed twice;
* `early` – a ledger entry was added before the lists were loaded;
* `missed` – the latest load of the student page failed, and nobody repeats it; the
  same of the Hisabi list, which then shows what it had before (`"products"`), or has
  the products and no categories (`"categories"`);
* `overtook` – the student page was opened when the connection was open and calls
  of an earlier page had not resumed: its load runs before their writes;
* `late` – a barcode was reported while the scanner dialog was closing, and popped
  the page below it;
* `away` (`Auth`) – a call's screen was covered, left, replaced or given a second
  call: its `pushReplacement` may take another route. `ScreenFollowsUser` excepts a
  wrapper that has been replaced, after which nobody follows the auth stream any
  more;
* `alone` (`StripePayment`) – only a press that no other overlaps is sure to present
  its own price and to speak of its own payment;
* `strayed`, `again` (`Firestore`) – the page was left or Submit tapped again during
  a submit: another route is replaced, the record is stored twice, and in a debug
  build an error message may follow the success.

## Fairness

`FairSpec` of `Hisabi` asks for weak fairness of the platform only: a statement
that was sent is carried out or fails (run `hisabi_pages`). `UserPaging` asks that every request ends, with an
answer or an error, `WaterTracker` that the messenger closes every bar. `Auth` and
`StripePayment` ask that the services answer or fail, that events are delivered and
that handlers go on. Nothing is assumed of users, of the clock or of the sensor. The
CRUD client has no liveness property: its requests have no timeout and an exception
does leave it waiting.

## Finding

`_saveTodaySteps` begins with the comment “Save today's steps to history before
resetting”. On a new day `_checkDateChange` starts one `_saveData` for the banked
day and one for the reset and awaits neither, and the history is the last key
either of them writes. Run `step_counter_kill` shows a kill after the new date
and the zero count have been written and before the history has: the finished
day is in neither.

## What is proved

All theorems hold for every value of the constants under the assumptions the
modules name: bounds and sizes are natural numbers (positive where the code needs
it), `None` and `Absent` are no ordinary value, the goals are integers, and
`SampleAssumption` of `StepCounter`: the five bundled entries (`_loadSavedData`) are
newest first, fit the limit and are older than the first day. Each safety theorem
follows from an invariant that is inductive, `IInv /\ [Next]_vars => IInv'`, proved
with one lemma per action or per part; TLC also finds each of these invariants true
on the instance of the component's run.

**`StepCounterProofs`**, for any number of running saves, days, kills and goals:

* `TypeCorrect`: `TypeOK` is inductive. The content is in the counts, which are
  differences of sensor values and stored values and yet never negative, and in
  the history, where no entry has zero steps.
* `CatchUp`: `SavesCatchUp`, together with `TypeOK`, is inductive. Its first half
  says that on a loaded page the preference map agrees with the fields on every
  key, except on keys that some running `_saveData` has still to reach; each handler
  that changes fields starts a save at key 1, which covers all keys. Its second half
  says that the youngest write of a key in flight carries the map's value, and that
  without one the file has it.
* `ReloadAgreement` is what both halves give when no save is running. `ReloadAgrees`
  is not inductive alone: while a save runs it says nothing about the values already
  on their way.
* `OncePerDate`: `OneEntryPerDate` speaks of the history in memory, which a start
  takes from the file; the invariant `OnceInv` says the same of every history, in
  memory, in flight or in the file. `Quiet` is needed because a page that is still
  loading must not have anything to save.
* `HistoryInOrder`: `OrderInv` relates the dates in memory, in flight and in the
  file. `DatesFlow`: the writes of `lastDate` are in the order of the dates, none
  ahead of the page's. `PageAhead`: when the file is behind the page's date, the save
  of the date change is still running, and with a count so is one of a step event.
  `EntriesAhead`: when the file is behind the date of an entry, so is, in addition,
  the save that banked it. These are three saves, which is where `torn` comes from:
  a process that ends with at most two of them running cannot leave such a file.

**`HisabiProofs`**, for any barcodes, categories, screens and statements:

* `TypeCorrect`, with the types of the statements in the queue (`HisabiType`).
* `UniqueBarcodes`: inductive with the types. The proof uses the index for both
  writes and the look-ups for neither, as the code's order of statements requires.
* `CreationTimeKept` and `FilterIsCurrent` from `RowsInv`: every row that the table,
  the list, the page or a statement holds was read from the table once (`Genuine`),
  however stale it is; only an edit after a search breaks that.
* `OwnPagePopped` (an action property), which also says that only the user answers a
  delete dialog, from `PagesInv`: a page waits for one statement
  at a time and is loading meanwhile, and as long as no page was closed with its
  submit running, the page of every submit is open with nothing on it.
* `StoreImplemented`: `Spec => Store!Spec`, the refinement of `ProductStore` with
  `rows` the table and `pending` the submits in the queue. Initial states map to
  initial states; `MoveStep`s and look-ups that let their submit go on leave both as
  they are; a submit adds its statement (`Submit`); a look-up or write that fails, for
  whatever reason, is `Refuse`; a write that goes through is `Create`, `Change` or
  `Miss`, and a deletion that finds its row is `Delete`.
* `IdleListFresh` from `ListFollows`: an open list shows the table, or what a failed
  load left it with, and no load is under way; or its last load in the queue ends, if
  it does not fail, with what the table has. And a deletion an earlier list asked for
  is still ahead of every load of this one. `ListFresh` itself says nothing while
  statements are queued.

**`RestProofs`**, the product client, for any number of products and requests:

* `CrudInvariant`: `CrudInv` says of each request that it agrees with the form
  (`Owned`), with the service (`Known`) and with the list (`Fresh`), and of all of them
  that unless `overlapped` only one load, and unless `strayed` only one update, is
  still of interest to a mounted screen. The three kinds of agreement are sets of
  requests, so that sending, answering and marking are dealt with once each (`Added`,
  `Removed`, `Mapped`) whatever the set is.
* `ListTrue`: a load that met no other one still finds the list empty when it arrives
  and was served after every delete the list was told of (`Fresh`); a served delete's
  product is away for good, because ids are given out in order and never again
  (`Known`). `ListFaithful` alone says nothing of products on their way.
* `SpinnersHaveCause`: `ListSpin` and `FormSpin` say it of sets of requests.
* `OwnScreenCloses` (an action property) from `Owned`: unless somebody strayed, an
  update whose form is mounted finds that form open, on top and waiting (`OwnUpdate`),
  so that the pop cannot take the list.

The user list: `InOrder`. `PagesInOrder` is inductive with `Caught`: a request
under way on a list that no refresh disturbed is for its current page, and while there
may be more the pages fetched so far are full.

**`ProjectPagesProofs`**. The ledger: `NothingLost` (an action property) and `ShownSaved`
from `MoneyInv`: each version of a list begins the next one, from the file through the
writes in flight to the map and the page (`Growing`, `PageGrown`), the last write of a
list carries what the map has (`LastWrite`), the load precedes every save
(`LoadFirst`), and the map has what can be encoded (`MapCurrent`). The water tracker:
`FlagTrue` from `OneOwnBar`, which says where the one bar of the open page is in the
queue instead of how many there are.

**`StudentsProofs`**, for any names, any number of calls under way and any failures:

* `TypeCorrect`, with ids never used twice and nothing sent before the connection is
  open;
* `LoadsFollow`: `LoadsFollowWrites` is inductive together with `TypeOK`: a list that
  differs from the table has a query of its page under way, and behind every write of
  an earlier page there is such a query in the same queue or among the calls still
  waiting. The second part is what a running write of a closed page needs: it changes
  the table and loads for nobody. `TailCovered` and `AppendCovered` say what the two
  queue operations do to it;
* `Freshness`: the case of empty queues. `ListFresh` is not inductive: with calls
  under way it says nothing.

**`StripePaymentProofs`**: `MoneyTakenOnce`, `OwnPriceShown` and `MessagesTrue` from
`StripeInv`: a call that is alone is the only one under way, a call about to present
never finds the intent of another that was alone (its own initialisation came after
that one had ended), and so the intent of a call that was alone is shown by itself
only. `PaidOnce` needs none of this: it holds for overlapping presses too.

**`FirestoreProofs`**: `MessagesTrue`, `StoredShown`, `DuplicatesKnown`, `CopyFollowed`
and the action property `OwnPageReplaced`. `FireInv` says that only the route in front
is a screen, all below are pages, and a locked navigator has a page in front
(`StackShape`); that a submit under way that did not stray has its own page in front
(`OwnPageInFront`), so that a refused replacement means it strayed; that what a form
holds was submitted before only with an error or by a submit of that page still under
way (`EntriesOwned`), so that every other repetition is an overlap (`RepeatsKnown`);
that a screen that is gone left no form and no data (`GoneIsBlank`); and that the fetch
page in front shows the pending records too (`ShowsAll`): when one is stored it is on
the page already, and no submit begins while a fetch page is in front.

**`AuthProofs`**, for any number of screens, routes, calls and events:

* `WrapperTrue`: `WrapperFollows` needs the shape of the stack (the wrapper is the
  bottom route, or gone in a release build) and that a screen's identity is new when it
  is given (`Identities`, `NewNoFacts`).
* `HomeEarned` from `Earned`: whatever may still lead to a home page, the user, an
  event under way or a call that was accepted, comes from a sign-in. A call that is
  only sent is not in this list, which is why its answer must set `everIn`.
* `SpinnersEnd`: a call keeps the identity of its screen, so the screens pushed,
  replaced and popped since do not matter; `busy` screens are mounted (`TypeOK`), and a
  screen given up takes its spinner with it.
* `OwnScreenReplaced` (an action property) from `OwnOnTop`: the screen of a call that
  was not covered, left, replaced or given a second call is on top as long as it is
  mounted; the auth event may take it away, and then the call replaces nothing.

Only model-checked: liveness (`PageFreed`, `SpinnerEnds`, `FlagClears`,
`ScreenFollowsUser`, `PressAnswered`), which is out of the prover's reach;
and `NoOvercount`, which compares a sum over the history with the steps taken, and what a
sum over a sequence of any length does needs an induction over data.

## Not modelled, and why

Nearly all of the repository's lines are vendored C and C++ under `ios/Pods`
(Firebase, gRPC, BoringSSL, Abseil); the platform runners and
`firebase_options.dart` are generated. None of it is this program's logic, and none
of it is modelled: what the app uses of it appears as external actions. The models
cover the Dart code under `lib/`.

Of that, the home page, the router, the exercises and `widgets/` draw fixed data;
the calculator, the to-do list and the counter change a few fields in one
synchronous handler; the recipe app shows what Riverpod's providers keep, and what
could go wrong between two requests is decided inside that library;
notifications print a message or push a route; start-up awaits three library calls
and handles no failure. Within modelled components: texts, layout, validation
messages, the fields of a record that no property reads, the log-in's reply without a
user (`login_screen.dart:44`, which would leave `loading` set and which the SDK never
gives), the Hisabi category menu,
the opening and upgrade of its database, and the `DatabaseHelper` queries no screen
calls. `SplashScreen` is not on any route. A second State of the same page alive
while the first is still saving (leave and re-enter within one save) is excluded by
a bound in `Open` of `StepCounter` and `MoneyManagement`; the screens the user opens
in `Auth` leave one identity to the wrapper, so that the bound on screens never
holds up an auth-state change. Feature pages opened from a home page are not on the
stack of `Auth`.

## Plan

1. Done: all modules and runs above; the proofs of all ten modelled components, with
   the refinement of `ProductStore`. Every invariant of the runs but `NoOvercount` is
   a theorem.
2. `NoOvercount`: it needs the sum over a history of any length, which the provers
   cannot do, and an invariant that says for each mixture of old and new keys in the
   file which steps are still credited.
3. A further abstract specification: a durable record that a save replaces as a
   whole, which `MoneyManagement` implements per list and `StepCounter` only up to
   the running saves.
