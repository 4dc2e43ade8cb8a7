# djing2: an internet provider's billing and operations, modelled in TLA+

djing2 keeps the customers of an internet provider: their prepaid accounts, the
services connected to them, payments, contracts, IP leases, RADIUS sessions, network
devices, the work of technicians, and the exports to the authority that such a
provider owes. It is a set of Django applications under `src/apps`, served by FastAPI
and Django REST endpoints in several uvicorn worker processes (each with a pool of
threads), with Celery workers for tasks and a beat that starts the periodic ones,
over one PostgreSQL database and a Redis cache.

What makes it hard is that all of these write the same rows. A handler reads a row
with one query, decides on the Python object it got, and saves some of its columns;
the repository takes no row lock (`select_for_update`) and uses no `F()` expression,
requests are not transactions (`ATOMIC_REQUESTS` is off), and the isolation level is
READ COMMITTED. So every handler is a read-modify-write on a copy, and what is
correct has to be correct for every order of these. Beside the database there are
parties that answer late, twice or never: payment systems, access servers, OLTs, FTP
servers, the broker, Telegram.

The project has three parts: modules with a state for what runs concurrently or
survives failures, modules of operators for what a request computes from what it
reads, and proofs with TLAPS about the first.

## Inventory

| component | state | operations | hard behaviour |
|---|---|---|---|
| `customers`: billing | balance, connected service and its row, last service, flags, log, periodic pays, debts | connect, stop, renew, refuse, expire, auto-connect, one-shot, periodic pay, debt, top-up, profile | stale copies, batches over copies, kills, failing saves |
| `fin_app`: AllTime, RNCB | payment log | pay (repeated, concurrent), then queue a check | duplicates, lost tasks |
| `fin_app`: Payme | transactions, log | create, perform, cancel, check, time-out | reordered and repeated calls, state not read again |
| `services` | price list, kinds of service | cost, refund, deadline, next pay | calendar boundaries, truth of 0.0 |
| `networks` | pools, leases, sessions | reserve, assign, release stale ones, change of authorization | two assignments of one lease, release of a lease in use |
| `radiusapp` | leases as sessions | auth, accounting start, update, stop | packets late, repeated or out of order |
| `customer_contract`, `customers_legal` | contracts, branches, the customer's activity | create, change, finish, guard on saving a customer | two rows changed without a transaction |
| `tasks` | task state and log | create, finish, fail, edit, remove, remind | log before state, check before creation |
| `devices` | ONUs of an OLT, rows, a lock between requests | register, remove, find again, monitoring | the device answers, then the database fails; checks before the lock |
| `profiles`, `djing2.lib` | accounts, tokens, token cache | login, permission checks, generic routes | a cached token outlives its account |
| `addresses` | tree of addresses | create, change, remove | parents checked before the write |
| `messenger` | subscribers of bots | let in, attach a telephone, throw out | updates repeated and overlapping |
| `sorm_export` | stamps, the file of accounting, remote files | nightly and complete exports, single events | appends lost to an upload, names that collide, batches that abort |
| `dynamicfields`, `customer_comments` | fields, comments | create, read, update, delete | batches that are not atomic |
| `webhooks`, `gateways`, `groupapp`, `sitesapp`, `customers_duplicates` | settings, groups | create, read, update, delete | see "Not modelled" |

`PROJECT.json` lists every component with its status, and every hazard with the
line where it bites and the properties that cover it.

How they interact: payment handlers write the account and queue
`customer_check_service_for_expiration_task`; the beat queues `manage_services`
every 30 minutes; connecting and stopping a service send signals that lead to
change-of-authorization packets and websocket messages; finishing a contract disables
the customer, and a `pre_save` receiver refuses to enable him; RADIUS reads the
account's service and activity to decide about access; accounting writes the lease
and queues the row the authority gets; saves of switches, gateways, pools and leases
queue exports of their own; the removal of a device queues a task for the OLT.

What makes each component correct:

* billing: the log explains the balance; the system never takes a customer
  into debt by itself; a task ends expired services only; a periodic pay is
  charged once a month; expired services are dealt with and paying customers are
  connected in the end;
* payments: a payment is credited once, however often it is reported;
* Payme: what is performed was credited, what is answered stays true, what is
  started is settled in the end;
* leases and RADIUS: one address serves one customer, a lease in use is not given away, a
  session follows the rights of its customer, an unused lease returns;
* contracts: a customer with a finished contract stays off, one who is on has a contract;
* tasks: the log tells of the state a task is in;
* ONUs: a number of a fiber is given to one ONU, a removal takes its own, a row keeps
  the number its ONU has, as far as the check before the lock allows;
* tokens: an account that was turned off is let in no longer than its copy lives;
* addresses: levels fall on the way up; bots: nobody ends another's subscription;
* exports: payments once and all of them, no row of accounting lost unnoticed, the
  newest record of an object is of its last save or of its end, every record has its root.

## Modules

### With a state

| module | what it is |
|---|---|
| `CustomerBilling` | the billing core: accounts, web requests, payment systems, Celery tasks |
| `AccountBook` | what the core promises about an account when nothing overlaps |
| `Payme` | transactions of Payme and the requests that work on them |
| `PaymentPromise` | what djing2 promises such a payment system |
| `Contracts` | contracts, legal entities and the activity of customers |
| `TechTasks` | tasks of technicians and their log |
| `AddressTree` | the tree of addresses and the cache of full titles |
| `AccountAccess` | tokens, and copies of accounts in Redis |
| `Bots` | subscribers of Telegram bots |
| `Leases` | leases, sessions, RADIUS packets and the tasks between them |
| `OnuRegister` | ONUs on a fiber of a ZTE OLT |
| `PaymentExport`, `AaaExport`, `EventExport`, `CustomerExport` | the exports of payments, accounting, single events, and all customers |

### Without a state

| module | what it is |
|---|---|
| `SwitchTables` | VLANs and MACs of a port, read from the tables of switches |
| `OnuTables` | numbers of ONUs, free numbers, VLANs of a configuration |
| `DeviceRequests` | which strategy serves a device, what its errors become, monitoring events, lists |
| `ExportFormats` | what each file of the authority asks of a record, and what the exports put into it |
| `RestRoutes` | generated routes: schemas, pages, filters, rows; comments of customers |
| `AccessRules` | rights, filters by rights, sites and groups, rules about accounts |
| `PaymentRequests` | codes of the payment systems' requests; the report by payments |
| `CustomerDesk` | lists, flags, passports, services of groups, dynamic fields of customers |
| `TaskDesk` | lists, comments, reminders, finish documents and reports of tasks |

### Instances and proofs

| module | what it is |
|---|---|
| `Offices` | Payme, contracts, tasks, addresses, tokens and bots side by side, with the bounds of each |
| `Exports` | the four exports side by side |
| `Network` | leases with customers, leases with guests, ONUs, one at a time |
| `MCCustomerBilling`, `MCOffices`, `MCExports`, `MCNetwork` | constants of the instances of the billing core, of `Offices`, of `Exports` and of `Network` |
| `MCProgress` | Payme, leases, accounting and events under fairness, one at a time |
| `MCForms`, `MCTables` | statements about the modules without a state; `MCOffices` and `MCNetwork` extend them |
| `CustomerBilling_proofs`, `Payme_proofs`, `Contracts_proofs`, `TechTasks_proofs`, `AccountAccess_proofs` | proofs about these modules |
| `Offices_proofs` | the properties of `Offices`, from the modules above; proofs about the tree of addresses and the bots |
| `Exports_proofs` | the properties of `Exports`; proofs about the four exports |
| `Network_proofs` | the properties of `Network`; proofs about the leases and the ONUs |

All modules with a state follow one pattern. A thread or worker `w` has a record: what it is at
(`op`) and the copies it has read. A handler is a reading action, whose guard is what
it checks on what it reads, and one writing action for each statement or transaction
after it; one statement is one step, as PostgreSQL makes it visible at once. A
request that is refused changes nothing and is left out unless a property speaks of
its answer. `Crash` ends a thread between any two of its steps. Ghost variables are
named as such where they are declared: no guard reads them, only properties do.
Names that begin with `Bug` are variants of a definition as a plausible mistake would
leave it; nothing uses them. Each shows that a property is sensitive to the code
it is about: put in the place of its original it breaks that property.

### CustomerBilling and the code

State: `balance`, `current`, `last`, `auto`, `active` are the columns `balance`,
`current_service`, `last_connected_service`, `auto_renewal_service`,
`is_active` of `Customer`; `rows` is the table `customer_service`; `nextPay`,
`lastPay` are columns of `PeriodicPayForId`; `settled` is
`InvoiceForPayment.status`; `paid` the keys of the payment logs; `ledger` the
sum of `CustomerLog.cost`. `web[w]` is the request a thread works on with the
copy it read, `job[k]` the task of a worker with its copies, `queue` the check
tasks waiting in the broker. `overtaken`, `unsaved`, `credits`, `times`, `forced`,
`granted` are ghosts. They say whose money was
erased by a write from an outdated copy, what was logged without being saved,
what was credited and charged, who was charged on credit, what staff gave.

Steps. A handler has a reading action (`BuyService`, `PickService`,
`StopService`, `MakeShot`, `BuyDebt`, `ReceivePay`, `AddBalance`), whose guard is
what the handler checks on the copy, and a committing action (`CommitPick`,
`CommitStop`, `CommitShot`, `CommitDebt`, `SaveBalance`, `CommitPay` or
`RejectPay`, then `NotifyPay`). Handlers that
write only what the request carries (`SetAuto`, `UpdateProfile`,
`MakePeriodicPay`, `DeletePeriodicPay`) are one step.

Tasks. `manage_services` is the sequence of stages `toRenew`/`renewing`,
`toFinish`/`finishing`, `toConnect`/`connecting`, `toCharge`/`charging`; in each
a query fixes the set of copies (`RenewQuery`, `FinishQuery`, `ConnectQuery`,
`ChargeQuery`) and one step handles one element: `Renew`, `RefuseRenewal` or
`RenewFails` (the row is gone, `save(update_fields=...)` raises, the task ends),
`FinishDelete` (the delete evaluates the query again), `AutoConnect` or
`SkipConnect`, `Charge` or `ChargeFails`. The check task of one customer takes
one of these stages (`CheckStart`). `WebCrash` and `JobCrash` end a request or a
task between any two of its steps.

Abstractions: amounts are whole units, so the threshold of 0.1 for a refund is
"more than nothing"; months have equal length; the order of the rows a query
returns is arbitrary; a key of `customer_service` is used again only when no
row and no copy has it, which nothing can tell from a new key. A periodic pay
costs its amount (`PeriodicPayCalcRandom` would be one more constant).

Left out: creation and removal of customers; the `pre_save` receiver of
`customer_contract` (in `Contracts`), which makes a save fail; signals to RADIUS
(`Leases`) and the websocket; price changes.

### Payme

`trans[t]` is a row of `PaymeTransactionModel` with its state, the copy of its times
and its customer; `balance`, `ledger` and `checks` as in the core. A method of the payment
system reads the row into `web[w]` (`CreateLate`, `Perform`, `PerformLate`, `Cancel`) and
writes what it decided without looking again (`WriteCancel`, `WriteExpire`); to perform is
to read the customer (`ReadCustomer`) and then, in one transaction, to credit him and
save the row by the copies (`Credit`). Calls that only read are one step (`Check`,
`PerformAgain`, ...). A customer may be disabled,
enabled or removed meanwhile (`on_delete=SET_DEFAULT` leaves his transactions, with no customer).
Ghosts: `credits` counts how often an amount was credited, `told` collects the states
an answer has named. `PaymentPromise` is the abstract machine: none, start, then performed
or cancelled for good, credited once, answers that are true when they are given. `Payme`
implements it with one request at a time: `state` is the column `state`, `credited` the
ghost `credits`.

### Contracts

`contract` and `account` are the tables, `legal` and `branches` those of
`customers_legal`. `finish` is `Finish` (the row is read), `DisableCustomer` (the signal
turns the customer of that copy off) and `SaveFinished`; enabling is `ReadCustomer`, `CheckOn` (the receivers
of the save) and `Enable`. Contracts are changed by a
queryset's `update`, which calls no signal. With `Sorm` the receivers of `sorm_export`
check a customer who is turned on; `settings.py:95` has the application commented out,
so that both values are checked. Ghosts name what the receivers cannot see: `raced`
(enabled while a contract of his was being finished), `moved` (given a finished
contract by a change), `waived` (enabled without a check, or lost what was checked).

### TechTasks

`finish` and `do_fail` log a change and then save the task; the edit form saves the
task and then logs, in a transaction. Creation looks for a new task of the customer
first (`LookForNew`, `Create`), when the request names him. `torn` are tasks whose change was logged by a thread
that died, `refused` the answers to requests that remove a task.

### AddressTree

`save()` compares the level with that of the parent to be (`CheckLevel`), looks for
ancestors of the same type in the database (`CheckAbove`), then writes the fields of the
request (`Write`).
`get_address_recursive_ids` is the recursive query in rounds, so that a cycle ends it.
`cache` is the `lru_cache` of the full title in one process, which nothing clears.

### AccountAccess

`person` and `token` are rows, `redis` the copies of accounts with the time they are
forgotten. `Ask` finds the copy or leaves `Query` to the database; `Query` and the
entry it makes are two steps, so that an old copy may be stored after a change.
`MaxWait` bounds how long a request takes: the clock waits for it.

### Bots

One update of Telegram at a time per thread: `Member`, then `Get` and `Create`
(`get_or_create` looks and then inserts); `Contact`, which counts the subscribers of the
chat (`Count`), may delete others (`Sweep`) and attaches the account of the telephone
(`Attach`); `Kicked`, then `Leave`. `doubled` are chats
that had two subscribers at once.

### Leases

`lease` is the table `networks_ip_leases`; `bras` the session of each device on the
access server, which is external, as is `net`, the accounting packets under way. The
authorization handler picks a lease in one step (`web[w]`) and writes it in another.
Accounting finds a lease by its address alone and queues tasks; tasks ask the server to
change or to drop a session and may get no answer. Stale leases are released by age.
`disturbed` are addresses whose record was rewritten under a session (an operator, the
DHCP server, a released lease), `heard` the age of the last packet that was accepted.

### OnuRegister

`olt` is what the OLT has at each number of the fiber, `row` the devices with the
number in `snmp_extra`, `lock` the socket `zte_olt` of each host. A registration
takes the lock, reads the numbers, configures the first free one, gives the lock
back and writes the row; a removal compares the serial before it takes the lock; a repair
asks the OLT for the number without it. Any number of requests may be about one device, since
nothing in `devices/views.py` or the models keeps a second one out. Staff may type a
number into the form.

Two ghosts name what the check before the lock cannot keep. `crossed` are threads that saw
their device at a number (or put it there) and still rely on it, while the removal of another
request took that number off the OLT (`Cut`). `doubtful` are devices whose stored number was
typed in, outlived the removal of the ONU, or was written by a crossed thread. `RemoveStep` says that a
removal takes its own ONU unless it is crossed; registrations, repairs, typed numbers, deaths and
removals of other numbers may all fall between its check and its lock. `RegisterStep`, and the
first part of `RecordIsOwn`, have no exception while all threads are on one host, as in `Network`. A crossed removal really may take another's ONU: without the
exception TLC answers `RemoveStep` with two removals of one ONU that both pass the check; the first
cuts it, the number goes to a second ONU, and the other removal cuts that one.

### Exports

`PaymentExport`: a run reads the payments since the last successful stamp, uploads and
then stamps its own time. `AaaExport`: a task appends a row to a file, another uploads it
and erases it. `EventExport`: a task per save or removal, one file per kind and second. `CustomerExport`:
the files of `export_all` in their order, each read when its turn comes, with what each
takes of a customer and what aborts the command.

### Modules without a state

They are the answers a request gives and the rows it writes, as functions of what it
reads. `MCTables` and `MCForms` state what they should give, as assumptions that TLC
evaluates over bounded inputs before the runs `network` and `offices`: that reading what was
written returns it, that a list shows what the rights leave and nothing else, that pages
cover a list once, which codes repeat and which do not, which fields of which file a row
of the database can spoil. Where the code gives something else than its name says,
the assumption states what it gives, and the comment says so; the list is below.

## Runs

All runs set `CHECK_DEADLOCK FALSE`: with the budget of requests spent and the
clock at its bound the system is at rest, and so is the real one when nobody asks
it for anything.

| run | question | result |
|---|---|---|
| `web_overlap` | two threads, one account, four requests or crashes in any overlapping | `LedgerAccounted`, `Solvent`, `PaymentCreditedOnce` hold |
| `cron` | one Celery worker with one web thread changing what it iterates over, under fairness | `TypeOK`, `AdminServiceFromStaff`, `CronEndsExpiredOnly`, `ExpiredIsHandled`, `WaitingIsConnected` hold |
| `periodic_month` | the same worker over two ends of a month, with pays made and deleted | `PeriodicOncePerMonth` holds |
| `serial_book` | one request or task at a time, two customers | `NothingLost`, `NoOrphan` hold, and the core implements `AccountBook` (`KeepsBook`) |
| `offices` | Payme, contracts, tasks, addresses, tokens and bots, with overlapping and with one request at a time | `TypeOK`, `PerformedIsCredited`, `BalanceIsLog`, `KeepsPromise`, `FinishedIsOff`, `IndividualHasContract`, `LogTellsState`, `LevelsFall`, `AnswersFollow`, `SubscriptionsAreKept` hold, and the statements of `MCForms` |
| `network` | leases of two customers who want one address, guests, and a fiber of ONUs | `TypeOK`, `OneCustomerPerAddress`, `HeardIsNotReleased`, `RecordIsOwn`, `NumbersAreOwn` hold, and the statements of `MCTables` |
| `exports` | the four exports while uploads fail and workers overlap and die | `TypeOK`, `PaymentsAreExported`, `RowIsKept`, `SentOnce`, `EventsAreTold`, `CustomersAreExported` hold |
| `progress` | what happens in the end although requests and workers die and packets are lost | `StartedIsSettled`, `ServiceFollows`, `NoOrphanSession`, `UnusedReturns`, `RowIsSent`, `EndIsTold` hold |
| `forced_refund` | does `force_cost=0.0` prevent a refund, as the docstring says? | no: `RefusalRefundsNothing` is violated |
| `periodic_batch` | is what a periodic pay logs charged, as the docstring says? | no, for two pays of one customer: `LoggedIsCharged` is violated |
| `stale_refusal` | with two workers, does a task end expired services only? | no: `CronEndsExpiredOnly` is violated |
| `unregister` | does the task queued by the removal of a device take the ONU from the OLT, as its docstring says? | no: `RemovedIsUnregistered` is violated |

The violations, in short. `stop_service` tests `if force_cost:`, so the 0.0 of a
refused renewal counts as no value and the unused part of the service is paid
back. `_manage_periodic_pays_run` reads every due pay with a copy of its account,
so the second of two pays saves the balance read at the beginning. A batch of
`continue_services_if_autoconnect` that read a customer before his payment ends
the service which the check task queued by that payment has renewed.
`unregister_device_task` finds no row when the removal is committed before it runs,
and otherwise compares a number with a list of classes.

### Components side by side

`Offices`, `Exports`, `Network` and `MCProgress` hold the variables of several
components, and a variable `scene` that names the one which moves. The components of
one such module share no table, no queue and no file, so that a step of one neither
enables nor disables a step of another, and no property relates two of them: every
behaviour of a component by itself is a behaviour of its scene, the others being in
an initial state. The state space is the sum of the components', not their product.
Where overlapping requests and serial ones answer different questions, a component
has a scene for each (`payme` and `one payme`). The components that do share rows of
a customer (`CustomerBilling`, `Payme`, `Contracts`, `Leases` all read `is_active`) each
have what the others may do to that row as an action of their own: `UpdateProfile`,
`SetActive`, `Disable` and `Enable`, the changes of access in `Leases`.

### Bounds

Billing. `Month` is 3 ticks, so that a month has a beginning, a middle and an end, and
`MaxTime` 4 reaches the next month, 6 in `periodic_month` the second one, so that a
pay can be charged, come due again and be charged again; `Day` is one tick. `MaxRequests` bounds the
requests and the crashes together: stale writes need two requests in flight, and
with 4 there are two more to bring about the state they start from and to use
what they leave. `MaxRows` 3 allows the connected row, an orphan and one more.
`MaxInFlight` is the number of processes, or 1 in `serial_book`. One customer is
enough where tasks and requests meet on one account; `serial_book` has two, for
the batches and for writes to the wrong account. `TenYears` is beyond the clock.
Services are one whose price is refunded in part (`mon`), one that is not
(`day`), and one only staff give (`gift`).

The others. Every `MaxFaults` bounds crashes, failures and outside changes together, and
`MaxInFlight` the requests at one time, 2 for overlapping and 1 for serial scenes:

* Payme: two transactions of one customer, a clock of two days with a time-out of two (of one
  in `progress`), so that a late perform meets a repeated start.
* Contracts: two contracts and two customers, so that a contract moves from one to the other
  while it is being finished; one legal entity; one date.
* Tasks: one task for two threads, with up to four log lines, so that two changes cross; two
  tasks and one thread for the check before creation and the removal by two kinds of staff.
* Addresses: three rows and two levels, four writes, so that two requests in flight each
  have a parent that the other moves; two rows with all fields.
* Tokens: a copy lives two ticks, a request one, and the clock goes to five, beyond the
  age of an entry made of an old copy.
* Bots: two chats with the telephone of one account, five updates, and three keys.
* Leases: two devices that want one address, one operator action or fault, two packets under
  way; a guest with two guest addresses. `StaleAge` is one tick.
* ONUs: two devices and a fiber of two numbers, two threads on one host, one failure or
  number typed in. Both threads may work on one device, and the number one of them relies on may be freed and
  given to the other device meanwhile. A full fiber is out of these bounds: it ends a registration
  as an ONU does that is registered already.
* Payments: two payments, two nightly runs and two of the command. Accounting: three rows, two uploads, two
  seconds. Events: two switches over three seconds, and a gateway, a pool and two leases.
  Customers: one of any record with one change and one failure, and two who do not change.

Threads and workers are interchangeable, the ONUs of one kind are, and the two customers with their devices; `web_overlap`, `offices`,
`exports` and `network` use such symmetries. Their temporal properties are all of the form
`[][A]_vars` with `A` symmetric; no liveness is checked with symmetry.

### Fairness

`cron`: `Fairness` is weak fairness, for each worker, of the steps of a running task
(`JobStep`) and of starting one when idle (`StartStep`). The code justifies the
first by its loops, which wait for nothing but the database, the second by the
beat (`customers/tasks.py:73`), which goes on for ever. Requests, the clock,
crashes and the customers' decisions are not fair. A task can be killed as often
as the budget says, and always starts again. `MaxTime` bounds the clock, so liveness is
about what a quiet system comes to: whatever was overdue or waiting when the last
request was served is handled.

`progress`: each component has a `Fairness` of its own in its module; `MCProgress` states
the same one conjunct for several components, since in a behaviour only one of
them moves: fairness of a disjunction of actions of different components is fairness of the
one whose scene it is. Assumed is

* weak fairness of a request that is being served and of a worker's task: they wait for nothing
  but the database, the file or the FTP server, and end in an answer or a failure;
* weak fairness of the clock and of the beat (the release of stale leases, the upload);
* strong fairness of what is done by others again and again: the payment system repeats a
  perform it has no final answer to, a session reports its counters, of the packets of a
  device one is taken, a broker hands out a queued task although others come before it.
  Weak fairness would not do, since a full queue or a busy worker disables these for a moment.

Not fair: faults, crashes, lost packets, decisions of staff and of customers.

## What the models found

Beside the four runs that violate what the code says of itself, modelling met these
places. Most are not a disagreement with a text of the repository, so no run states
them; the ghosts and guards named here are where the models have them.

Overlapping requests, crashes, order:

* a cancel of Payme that read `start` writes `cancelled` over a transaction another request has
  performed (`fin_app/models/payme.py:230`): the money stays. `KeepsPromise` holds serially only.
  Two performs credit twice (`payme.py:195`): `CreditedInFlight` bounds it.
* two authorizations pick the same free lease, the second write wins (`radiusapp/views.py:98`), so that
  `OneCustomerPerAddress` holds with one request at a time; of two devices of one customer a start of the
  one changes the MAC between the look-up and the write of an update of the other, and the lease of a
  session that reports is released (hence `OneDeviceEach`); a guest is told the first row
  of a subquery that no longer selects the lease he was given (`views.py:66`).
* a contract is finished while its customer is being enabled (`customer_contract/models.py:66`, ghost
  `raced`); a PATCH of a contract calls no signal (`customer_contract/views.py:83`, ghost `moved`);
  branches of a legal entity are checked by dates at the signal only (`customers_legal`
  signals, ghost `waived`); the check at turning on is weaker than what the export asks for
  (`hier_export/customer.py:324`).
* two new tasks of one customer (`tasks/views.py:739`); a removal by staff that is not allowed is
  answered as an error of the server (`tasks/views.py:711`).
* parents are checked before the write (`addresses/models.py:215`, `:226`), nothing forbids a cycle,
  and a cached title stays when an ancestor is renamed (`:92`).
* a payment added or committed between the read of a run and its stamp is never exported
  (`sorm_export/tasks/payment.py:24`, ghost `late`); of two objects of a kind saved in one second
  one file replaces the other (`hier_export/devices.py:22`, ghost `spoilt`); a switch whose address was removed
  is never reported as ended; a customer without an address aborts `export_all`
  (`hier_export/customer.py:154`), and so does a failure of FTP in the file of binds, while
  one in the file of roots still sends what depends on it.
* two removals of one ONU: the number the second checked may be another's when it has the lock, and then
  that ONU is cut (`onu_zte_f660.py:206`, ghost `crossed`). `process_lock_decorator()` without a name locks "None", one lock
  for all its users, and covers the creation of a generator, not its run;
  `process_lock_cm` turns any `OSError` of its body into `ProcessLocked`.
* the sweep after a contact deletes subscribers of other chats; an account attached elsewhere
  raises `IntegrityError`; a bot that is thrown out ends the chat's subscriptions of all
  bots; a chat that has blocked the bot ends the rest of a broadcast.
* webhooks: observers are looked up by the CamelCase name of a model, content types keep it
  in lower case, so none is ever found and nothing is sent.

Devices (`SwitchTables`, `OnuTables`, `DeviceRequests`): Eltex loses the VLANs that end a table, its
`is_native` is never true; Huawei is off by one; the Dlink walk does not end without VLAN 1, and
`read_all_vlan_info` walks its generator after the session is closed; `_rng` drops the last
of a range; the order of a set chooses the VLAN of a user; the FD511G strategy looks for a ZTEG
serial; device type 0 has no strategy and raises `TypeError`; `RuTimedelta` looks at the last digit; tests of
the views that a context is of the wanted family always hold, so a wrong family is a 500; the answer 452 for a device
that cannot be reached is never given; routes that answer with a generator fail
outside of `catch_dev_manager_err`; a monitoring event without a status marks a device as up;
a filter by address gives the whole locality, and everything when there is no locality.

Files of the authority (`ExportFormats`): a name longer than 64, a house "12a", a distributor longer than
128 or a missing index leaves the record out silently, while the record of the root is sent; so does a
payment of 100000 or more, or of a removed customer; the post corpus is filled from
the building, whose name is mistyped "builing".

Payments (`PaymentRequests`): RNCB answers 1 for a customer who is turned off, also to a repeat; an
unknown gateway is a 500 with nothing credited; the RNCB gateway is looked for on any site;
the balance report is a 500 with a payment of a removed customer; a sum too large is code 1. AllTime takes a
bad amount for 0 and answers success. Payme: `CreateTransaction` of a new id without a time is a 500, `GetStatement` with one end
a 500, with none -31051. The report's limit without an order shows any groups. Serializers' assertions
do not run, since the Dockerfile sets `PYTHONOPTIMIZE=1`.

Routes and rights (`RestRoutes`, `AccessRules`): schemas of one model share their columns; page 0
repeats the first page; values equal to a default are left to the model's default; a removal looks
past `filter_qs`; unknown columns are dropped; addresses with a parent of 0 or less ignore the type. `check_perm` and
`has_perm` differ for an inactive superuser; pools of two groups are listed twice and those of none
not at all; the cache of sites is never cleared; `is_secure` compares a function with a text, and header
names with underscores never match; a subnet with host bits refuses all; `set_object_perms` is not
atomic; new profiles are superusers without sites; ages are counted in years of 365 days; the search by IP is one
for a part of its text.

Desks (`CustomerDesk`, `TaskDesk`): the payment log of a customer who is not seen is a 500 (`objects.empty()`), as are `get_afk`
(`date_limit` against `since_time`, `customers/models.py:361`), the list of customers without an address (no request for its pages), a
search or rights by object together with an address (`remove_filter` on an OR, `mixins.py:118`); filters
and search are joined by OR; `attach_group_service` ends services of the group the user may not see,
`set_service_group_accessory` keeps those of other sites but has removed the rest when a service is
unknown; a token by telephone needs the main and an additional number; `update_all` of dynamic fields
changes a content by its id whoever's it is, row by row; the right to view is enough to change a passport. Counts of
comments and files multiply each other; the list of comments filters ids of comments by the number of
the task; the reminder needs a permission nobody has and then fails on `task.abon` unless the
author is among those told; the details of a task whose customer has no group are a 500; the
report by states divides by the number of tasks, zero included.

## Theorems

TLAPS checks these for every value of the constants that satisfies the assumptions of the
component's module: any number of customers, transactions, threads and workers.

Billing (`CustomerBilling_proofs`):

* `TypeCorrect`: `Spec => []TypeOK`. `TypeOK` is inductive as it stands; besides the
  types it has the foreign key (`References`: the row a customer refers to exists)
  because renewal and refunds look the row up. One lemma per group of variables and
  action.
* `LedgerIsAccounted`: `Spec => []LedgerAccounted`. Inductive with `TypeOK`: every writer
  goes through `Post`, or through the two halves of a top-up. It speaks of the
  customers no outdated copy was written for; the next theorem says when these
  are all of them.
* `SerialLosesNothing`: `Spec => []NothingLost` under `Serial`: `MaxInFlight = 1`,
  finitely many threads and workers, no customer with two periodic pays. Not
  inductive: a batch is read in one query and written one element at a time, so the
  invariant `SerialInv` says that at most one process is busy (`OneAtATime`), that
  its copies agree with the table (`RequestsFresh`, `CopiesFresh`) and that the
  copies of a batch are of distinct customers, so that writing one leaves the
  others fresh. `periodic_batch` shows why two periodic pays are excluded.
* `CreditedOnce`: `Spec => []PaymentCreditedOnce`. Inductive with `TypeOK`: it rests on
  the unique key, not on the look-up of RNCB.
* `NeverInDebt`: `Spec => []Solvent`. Not inductive: a commit writes `seen + amount` of
  a copy. The invariant `SolventInv` adds that every copy in flight of a customer
  not charged by staff was solvent when it was read and still covers what will be
  posted from it (`RequestsSolvent`, `CopiesSolvent`, `RequestsPriced`). That no
  later write needs to be looked at is the point: a stale copy loses other
  writes, but it cannot create a debt.
* `AdminServicesAreGiven`: `Spec => []AdminServiceFromStaff`, for any number of workers. `GrantInv` adds that
  a request in flight connects such a service only for staff, and that no copy held by a task will
  (`RequestsGranted`, `CopiesGranted`): the test of `CanConnect` is made on the copy that connects.
* `OneWorkerEndsExpired`: `Spec => CronEndsExpiredOnly` under `OneWorker` (`stale_refusal` shows that two
  break it). `CronInv` says of the batch a task renews that each row it names has expired or is gone
  and is named once (`BatchExpired`): nobody but the task itself renews a row, and a key held by a copy is
  not given again.
* `OneWorkerChargesOnce`: `Spec => PeriodicOncePerMonth` under `OneWorker`. `MonthInv`: the next time of a pay lies
  after the month it was last charged in (`NextAfterLast`), and a pay held in a batch was due by
  that (`BatchDue`). It rests on four lemmas about months as quotients, and on `CronInv` for
  the time of a batch not being ahead of the clock.
* `SerialLeavesNoOrphan`, `SerialKeepsBook`: `NoOrphan` and the refinement of `AccountBook` under `Serial`.
  `OwnInv` adds to `SerialInv` that every row is owned, that services start in the past, and that
  the copies in flight name the rows of their customers; each action then maps to a
  step of `AccountBook` or a stutter.

Payme (`Payme_proofs`): `PaymeKeepsTypes`; `PerformedMeansCredited` by `CreditInv`, which adds that a
request about to queue the check has credited, and that no perform time is set before; `CreditedAtMostInFlight`, whose invariant `CountInv` counts: the
credits of a transaction that is performed and the requests still performing it are together
at most `MaxInFlight`, so that a request that credits passes from the one to the other. With one request at a time `SerialInv`
(the one request saw the state and the balance the table still has) gives `LogIsBalance` and
`PromiseKept`, the refinement of `PaymentPromise`: each action maps to a step of it or a stutter.

Contracts (`Contracts_proofs`): `ContractsKeepTypes`; `FinishedStaysOff` by `FinishInv`, which adds that the
customer of a contract about to be saved as finished is off (`SavesDisabled`) and one about to be
enabled has no finished contract (`EnablesUnfinished`), unless a ghost names him, and that a copy of
a contract names its customer (`FinishKnown`); `EnabledIsBound` by `BoundInv`: who is on, and who is about to
be enabled, has a contract or is a branch, or a ghost names him.

Tasks (`TechTasks_proofs`): `TasksKeepTypes`; `StateAlwaysLogged` by `LogInv`: the state a request is going to save
is already in the log, because `finish` and `do_fail` log first, and so is the state the edit form
read, whose change is saved and logged in one transaction. `LogTellsHistory`: `Spec => []LogIsHistory` when
`MaxInFlight = 1`, by `HistoryInv`: one request at most is at work (`Alone`), the state it read is still the
task's, and what it is about to save is the last line of the log (`Fits`).

Accounts (`AccountAccess_proofs`): `AccessKeepsTypes`, and `OldAnswersEnd`, `Spec => [][AnswerStep]_vars`. `AccessInv`
says how old what is held may be: a request is answered within `MaxWait` (`RequestsTimely`), and a copy,
in a request or in Redis, that differs from its row was read before the last change, so
that the time since the change is bounded by the time it has been held (`RequestsSound`, `EntriesSound`).

Addresses and bots (in `Offices_proofs`). `LevelsFall` speaks of the way up from an address, a recursive
function, so that its proof is an induction over the steps of the way; `SetInduction` proves the principle for
a set of numbers by counting, since the induction theorems of the library cannot be used here. `TreeInv` says that
the level of a parent is at most that of its child unless one of the two was relevelled (`Edge`), and that a request in flight which has
checked its parent still writes such a row (`Checked`), since it changes one field of a row
whose level it read (`Fresh`) or makes a row nobody else can name yet. `BotInv`: two subscribers of one chat make it a chat of the
ghost (`DoubledKnown`), the sweep that deletes others is of such a chat (`SweepDoubled`), and one update at a time for one bot makes none.

Payments (in `Exports_proofs`). `MissedInv`: a payment that no run noticed too late is among the rows of a run
that uploads, or was sent before; a run that reads reads from the last stamp or before it, so that nothing
between two stamps is skipped. `OnceInv`, with one run at a time, counts for each payment the files it
is in: at most one more than the workers that died before the stamp, while the stamp has not passed it, and
afterwards at most the full exports and those deaths together; a run that is going to send it again is counted before it does.

Accounting (in `Exports_proofs`). `RowInv`: a row is taken from the queue once (`RowsTakenOnce`), what an upload is about to
erase is settled or known as unsent (`RowsSentBeforeErased`), and a row is in the queue, carried by a task, in
the file, or settled: arrived, or lost for one of three reasons (`RowsKept`). `SerialRows`, with one task at a
time: a row that waits to be appended was not sent, one in the file that nothing is about to erase was sent
at most as often as there were faults, and any other at most once more.

Events (in `Exports_proofs`). Workers take tasks in any order, so that a late task meets a row that has changed since.
`EventInv` follows one object. `Live`: its latest save is in a waiting task, a running one or a file, under some second
(`Carried`), and no task and no file tells of it at a later second or of a newer version (`Within`); `Alive`: until it is
removed nothing tells of an end; `Dead`: after that its end is carried at the second it was
queued, and nothing of it is later. When no task waits, what is carried is in a file and the newest there
(`CarriedIsNewest`).

Customers (in `Exports_proofs`). `RootInv`: whoever was not changed since has the root that was read. It rests on
`RecordsAreRoots`: no filter of a later file is wider than the first. `DoneInv`, while nothing fails and nobody
changes: the files sent so far hold all their records, and the command died of a row only, which `CommandSays` shows is the
row of a customer who is not complete.

Leases (in `Network_proofs`). `NetworkKeepsTypes` needs that who answers a device has found its customer, or a guest
address, so that the type is inductive with what the requests carry. `AddressesAreOfOneCustomer` by `CustInv`, with requests one at a
time (`OneAtATime`; with two the property is false): an internet address that a customer uses is recorded as his in the table
unless somebody rewrote the record (`Recorded`), and what a request is about to write it writes for the customer who uses
the address, if any does (`Chosen`). Sessions, packets and tasks may come in any order, since none of them gives an address to somebody.
`HeardLeasesStay` by `HeardInv`: the lease of a session that was heard of is at most as old as what was heard
(`Fresh`), and a request that has found the lease of an update will still find it when it writes
(`Counted`). The theorem assumes `OneDeviceEach`, no customer with two devices on his ports; without it
TLC shows the release of a lease in use.

ONUs (in `Network_proofs`). `OnuInv` speaks of threads between commands of a telnet session, any number of them about
one device. Who changes the OLT has the lock (`Locking`); the number a registration is about to write
is the first free one (`FreeIsKnown`), and the one a request relies on is its device's unless the request is
crossed (`OwnIsKnown`): a registration takes free numbers only, and a removal crosses whoever relies on the number it
frees; each device has one number (`OneNumber`), and its row has
this number unless the ghost names it (`RowsAreOwn`). It rests on there being one host, since the lock is a socket
of a host; nothing is assumed of what staff ask for and when. `FreeNumberIsFree` says that a fiber with a free number has a first one, again by
induction over a set of numbers.

`Offices_proofs`, `Exports_proofs` and `Network_proofs` then show that in its scene each component behaves as its own specification
says (`PaymeRuns`, ..., `CommandRuns`, `ComponentsRun`), and carry its theorems over to the properties the runs check. Each of the
invariants was first checked by TLC on the instances of the runs.

Model-checked only: all liveness (fairness and `ENABLED` are beyond the prover), which are the
properties of `progress` and `ExpiredIsHandled` and `WaitingIsConnected` of `cron`; the modules without a state, whose statements
are evaluated over bounded inputs.

## Not modelled

* `webhooks`: each save queues a task, and by the names it compares (see above) none ever sends
  anything; a model of deliveries would be one of code that does not run.
* `gateways`, `groupapp`, `sitesapp`: create, read, update and delete of settings by the
  generic routes, which `RestRoutes` has; access servers as parties are in `Leases`.
* `customers_duplicates`: one query that reads. The bot of Viber: switched off in
  `messenger/models/__init__.py`.
* Parts of components that are modelled: creation of customers and the websocket (billing), forms of
  pools and VLANs and the search for a free address of a pool (`NetworkIpPool.clean`
  is not called by the API), vendor attributes of RADIUS, names of ports and counters
  of switches, other OLTs than ZTE as state machines (their tables are in `OnuTables`), texts of the exported files, the parser of
  FIAS, avatars and logs of logins, settings, logging, translations.

## Plan

1. Proofs: which of two overlapping requests an address belongs to, so that `OneCustomerPerAddress` can be stated for any number of
   them; `HeardIsNotReleased` for customers with two devices, up to a ghost for what a start of the other changes.
2. A module for pools: `clean`, the free address of a pool, the pool of an address, two devices with one MAC.
3. OLTs of other vendors as instances of one module with `OnuRegister`.
4. Creation and removal of customers in the billing core, with the guard of contracts on
   saves, composed from `CustomerBilling` and `Contracts`.
