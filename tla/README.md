# A verification project for the OCR engine

The repository is an asynchronous OCR service: a tenant uploads a document over
HTTP, a worker recognises it and extracts its figures, and the tenant either
polls for the result or is called back. This directory holds TLA+ modules that
model that engine from its code, TLC configurations that check them on small
instances, and TLAPS proofs of the results that hold for every instance.

## 1. The system

| part | code | state it keeps | operations |
|---|---|---|---|
| API server | `api/routers/jobs.py`, `api/deps.py` | none between requests; a request is a thread | `create_job`, `get_job` |
| jobs table | `db/models.py`, Postgres | one row per job: `status`, `file_path`, `webhook_delivery_attempts`, `webhook_delivered_at`, the extracted data | committed statements |
| document volume | `storage/files.py`, tmpfs `storage-tmp` | a directory per job | `save_upload`, `delete_job_files` |
| queues | `workers/queue.py`, RQ on Redis | lists `ocr-jobs` and `webhook-delivery`, the failed registries, the scheduled registry | enqueue, take, fail, retry |
| OCR worker | `workers/tasks.py` | the execution in progress | `process_document` |
| webhook worker | `workers/webhook.py` | the execution in progress | `deliver_webhook` |
| BCTC pipeline | `workers/pipeline.py`, `ocr/table.py`, `extractors/`, `validation/` | none between documents | `find_table_html`, `extract_bctc`, `parse_vn_number`, `evaluate_rules`, `load_rules` |
| tenants | `db/models.py`, `scripts/create_tenant.py` | one row per tenant: `is_active`, the allowed domains, two secrets | `create_tenant`, edits by an operator |
| callback guard, signing | `api/security.py` | none | `resolve_safe_callback`, HMAC |
| connections, threads | `db/base.py`, `api/deps.py` | the pool of connections, FastAPI's threads | `get_db`, `get_current_tenant`, connect with three tries |
| health check | `api/routers/health.py` | none | `health` |
| others | `ocr/engine.py`, `ocr/preprocess.py`, images, CI | a cached model | not modelled, see section 8 |

How they interact. `create_job` commits a row, writes the upload, commits its
path and enqueues the job id on `ocr-jobs`. A worker takes it, commits
`processing`, runs the pipeline, deletes the document, commits the result with
`file_path = NULL` and enqueues the job id on `webhook-delivery`. Another worker
takes that, loads the row, resolves the callback again, commits the attempt,
sends the request and commits the delivery date; an exception gives the
execution back to RQ, which schedules it again up to three times. Nothing holds
a lock or a transaction across two of these steps: the processes share the row,
the directory and the queues, and order is all that protects them.

What is hard about it: the four effects of `create_job` are not atomic; two
commits, a deletion and an enqueue of `process_document` can be cut anywhere by
a database error, by a killed work horse or by RQ's time-out; a delivery can
have reached the tenant although it failed; Redis may forget what Postgres
believes is queued; inside one process, requests hold connections while they
wait for threads and threads while they wait for connections; and the tenant's
domain, addresses and secret change under deliveries that have read them.
`PROJECT.json` lists every such place with its line.

What makes the parts correct:

- intake: a job is enqueued only when its row, path and complete document are
  there; a refusal leaves nothing behind;
- processing: no job runs twice at a time; a final status is never taken back;
  the document is gone before the result shows; a failure is visible;
- delivery: the tenant is told the final status and nothing else; the counter
  accounts for what was sent; a result is delivered or visibly given up;
- resources: every request ends and gives back its thread and its connection;
- callbacks: what is connected to is what was checked, a removed domain goes
  quiet, a rotation of the secret loses no delivery;
- extraction: an amount keeps its digits and its row, a row is filed under its
  code or an item that has its name and none is lost, the rules judge the figures
  that are returned, catch a misread figure and flag a sheet that is read properly
  only where it does not add up. (The sources promise more: a row under its own
  item or under none, and no flag on a sheet that balances. Section 4 shows where
  the code does not keep that.)

## 2. Modules

| module | what it is |
|---|---|
| `JobStore` | the row and the directory of each job, one operator per committed statement or file operation |
| `RqQueues` (extends `JobStore`) | both queues, the registries, retries, the scheduler, what Redis may lose |
| `ApiServer` (extends `RqQueues`) | `create_job`, step by step, its refusals and failures |
| `OcrWorker` (extends `RqQueues`) | `process_document` for a set of workers, and its failures |
| `WebhookWorker` (extends `RqQueues`) | `deliver_webhook` for a set of workers, its failures, and the endpoint |
| `OcrEngine` (extends the three) | the running system, the set `Faults`, fairness, and every property of it |
| `JobContract` | the abstract specification: what a tenant can see |
| `OcrEngineInv` | the inductive invariant `IInv` |
| `OcrEngineDelivery` | the invariants next to `IInv`: one delivery of each job, documents where a pipeline looks |
| `OcrEngineProofs`, `DeliveryProofs`, `RecoveryProofs`, `ContractProofs` | the theorems and their proofs |
| `MCOcrEngine` | instances of the engine for TLC |
| `RequestPool`, `MCRequestPool`, `RequestPoolProofs` | the API process under load: the threads and connections of `create_job`, `get_job` and `health` |
| `CallbackGuard`, `MCCallbackGuard`, `CallbackGuardProofs` | one tenant and the deliveries of its jobs while allowlist, addresses and secrets change |
| `NumberParser` | `parse_vn_number`; apart from it, what the Vietnamese notation prints for an amount (`Prints`) |
| `TableRows` | the search for tables in a recognition result, the HTML row parser; apart from them, the tables and rows that are there (`AllTables`, `RowsIn`) |
| `Catalogue` | the codes of `ma_so_200.py`, their shared names, the shipped rules |
| `BalanceSheet` (extends `NumberParser` and `TableRows`), `MCBalanceSheet`, `BalanceSheetProofs` | `extract_bctc` and the rule engine; its documents for TLC; its theorems |
| `ParserProofs` | theorems about `NumberParser` and `TableRows`, by induction over their recursive functions |

`OcrEngine` is the composition over the whole life of a job. `RequestPool` and
`CallbackGuard` open two of its nondeterministic choices: why a request aborts
between two steps (`AbortRequest`), and why a callback is refused or a delivery
fails (`Reject`, `PrepareRaises`, `SendFails`). `BalanceSheet` opens the third,
the outcome of `RunPipeline`. They are modules of their own because they share
no variable with the engine but the position of the request, of the delivery or
of the document, and each would multiply its states without a new interaction.

### How state and actions correspond to the code

- `status`, `filePath`, `attempts`, `delivered` are the columns of a row; a
  change of them is a commit. `JobStore` says for each statement which columns
  it writes. `set_attempts` writes the value the execution loaded earlier plus
  one, as `+=` on a loaded object does.
- `file[j]` is the directory of the job: `absent`, `partial` (an upload that was
  interrupted) or `whole`.
- `req[j]` is where the request that creates job j is. A job id is created by
  one request, so the request needs no other name. `AbortRequest` is any
  exception or crash, before or after the interrupted call took effect.
- `ocrPc[w]` and `hookPc[h]` are where the execution of a worker is. A step ends
  at a commit, at a file operation or at a call to Redis or to the endpoint;
  between two steps every other process may act. `ocrOutcome[w]` is the status
  the session holds and has not committed, `hookBody[h]` the payload, and
  `hookSeen[h]` the counter as it was loaded. The fields
  of an idle worker keep their last values and mean nothing.
- A delivery is a record of the job and RQ's `retries_left`. `retry_or_fail` is
  what RQ does when an execution raises or its work horse dies.
- `DatabaseRaises` holds the three places where a database error leaves
  `process_document`. The second of them is easy to miss: SQLAlchemy expires the
  row at the commit, so the next `job.id` is a query; when it fails inside the
  inner `try`, the session can no longer be used and the `job.id` of the
  `finally` clause raises before `delete_job_files` is called.
- In `RequestPool` a request has a position `pc[r]`; `threads` are the requests
  that run, `conn[r]` what its session has of the pool (`waiting` for a place,
  `opening` a connection in one, `held`). A statement without a connection checks
  one out; commit and close give it back; an exception goes on to `Teardown`, the
  `finally` of `get_db`. The statement that checked a connection out may raise as
  well as a later one (`FirstStatementRaises`, `StatementRaises`). `job[r]` is the
  second session, of a job that the enqueue runs in the same thread.
- In `CallbackGuard` `grant[j]` is the tenant as an execution loaded it, `pin[j]`
  the address it resolved. `dns` and `homes` (where the certificate of the domain
  is) change at any time, the operator's columns by `RemoveDomain`, `Deactivate`,
  `Rotate` and `EndTransition`. Secrets are numbered in the order of rotation. That a
  transition ends only when the endpoint has the new secret is the operator's care;
  no code enforces it.
- A text is a sequence of characters; `x` stands for any character the parser
  does not look for. `parse_vn_number` gives {the amount} or {}, and an amount is
  the sign with the two strings of digits `float()` receives.
- The doubles. `Hundredths` of an amount is the decimal number that `float()` is
  given, and `Delta` the exact difference of two sums of them; the code has the
  nearest doubles, adds them and subtracts. Amounts with decimals are rounded
  there: 2.2 - 1.2 is 1.0000000000000002, above the tolerance, and 3.3 - 2.3 is 1.0.
  `RoundingError(r, amounts)` bounds, in hundredths, how far the difference of the
  doubles may be from `Delta`: with n amounts, n conversions and at most n additions
  and subtractions are off by 2^-53 of at most the sum of the magnitudes each. It is
  0 when all amounts are multiples of a quarter below 2^51 units (`IsExact`: such
  numbers and their sums are doubles), as whole amounts are. `evaluate_rules` gives
  all sets of rules that offsets below that bound can report (`Offsets`, in halves
  of a hundredth, the exact difference among them). So a difference clearly inside
  or outside of the tolerance is decided, and one within rounding of it is not.
  Infinite floats are not modelled.
- A table is the sequence of tokens `HTMLParser` calls its handlers with. Each
  cell also carries the row and the column of the source, which only properties
  read. `DetectTables`, `ParseTable` and `ReadRow` are one iteration of each of
  the three loops of `extract_bctc`, `load_rules` the loading of the YAML file,
  `Evaluate` the rules and `review_required`.

### The contract

`JobContract` has three variables for each job, the status that polling shows,
whether any of the document is held, and what the tenant was told, and five
actions: register, hold, discard, begin, finish (only when nothing is held) and
notify (only with the status that shows, once it is final). It has no queues, no
workers and no failures. `OcrEngine` implements it with `view <- status`,
`held <- file # "absent"` and `notified <- told`; the run `engine_faults` checks
the refinement and the theorem `EngineImplementsContract` proves it.

## 3. Runs

| run | instance | faults | shows |
|---|---|---|---|
| `engine_faults` | 2 jobs, 2 + 1 workers, 1 retry | all | types, `IInv`, `FinalMeansCleaned`, `WebhookAgreesWithPolling`, `OneExecution`, `AttemptsAccountForSends`, the refinement |
| `engine_recovery` | 2 jobs, 1 + 1 workers, 1 retry | api, db, kill, endpoint | `PipelineFindsDocument`, `NoSilentLoss`, `AcceptedIsAnsweredOrShown` |
| `engine_liveness` | 2 jobs, 2 + 1 workers, 1 retry | endpoint | `AcceptedIsAnswered`, `ResultIsSettled`, `DocumentIsDiscarded` |
| `request_pool` | 2 uploads (1 inline), 1 poll, 1 probe, 2 threads, 2 connections | all | types, `OneConnectionEach`, `NothingHeldAfterwards`, `HealthReports`, `RequestsEnd` |
| `callback_guard` | 1 job, 3 retries, 2 + 1 addresses, 2 rotations | all | types, `PayloadStaysOutside`, `RemovedDomainGoesQuiet`, `RotationCostsOneAttempt` |
| `sheet_rules` | the shipped catalogue and rules, about 16,700 documents | - | eight properties of the extraction |

"2 + 1 workers" are two on `ocr-jobs` and one on `webhook-delivery`. The other
six runs end in a violation; section 4 reads them.

Why the bounds are enough. Jobs meet only in the queues and in the workers, so
two jobs show every way one can disturb another, and two workers on a queue
every race between workers. One job with two workers on both queues and the
deployed three retries is the instance for what several executions of one job
could do to each other in the webhook half (`engine_faults` has one webhook
worker: two would only meet on a second delivery of the same job, of which
`OneExecution` shows there is none). One retry is enough where the number does not matter:
it already gives a delivery that failed and is tried again, and one that is
given up. `attempts` and `sends` need no bound of their own: they are bounded by
the retries. The safety runs use the symmetry of jobs and workers; the liveness
runs do not. `Rest` lets the finished system stand still, so that TLC's deadlock
check still finds a state in which something is left to do and nothing can do it
(it is switched off only in `no_scheduler`, whose point is such a state).

Why these faults. The safety of the contract has to hold whatever fails.
`NoSilentLoss` and `PipelineFindsDocument` rely on Redis and on the volume
keeping what they hold, and say so by leaving these faults out. Liveness: with
database errors or kills a job can end in the failed registry, which
`AcceptedIsAnsweredOrShown` allows; `engine_liveness` shows the full promise when only
endpoints fail.

`request_pool`: with two threads and two connections the four requests, one of
each kind and one more upload, can exhaust both pools at once, and every wait
there is between them occurs: a thread that waits for a connection held by a
request that waits for a thread, an inline job that waits for a second one, a
health check behind both. More threads or connections only add idle ones.

`callback_guard`: one job is enough because jobs share nothing but the tenant's
row, which no delivery writes. Three retries are the deployed number; two
rotations (`MaxRotations`) are the least that has a transition after another; two
public addresses and a blocked one give an answer of the name server that is
good, bad or mixed, and a domain that moves between them. A rotation waits for
the end of the one before (the row has room for two secrets), and a transition
ends when the endpoint has taken the new secret: the operator's side of the
rotation that design/api.md describes. `RotationCostsOneAttempt` depends on both.

`sheet_rules`: sheets of twenty-one rows with every code of the shipped rules,
whose totals are computed from `SUBTOTAL_COMPONENTS`, seven rows to a page: with
two sets of amounts in three notations; with one row whose amount was lost; with
a difference of 0.6 or of exactly one unit, in amounts that doubles hold and in
2,20 against 1,20; with the two rows 141 and 149 of the inventories, and with a row
whose closing cell alone is blank, also both in one sheet; with pages without a table, tables under
two keys and tables in two branches of a result; with one amount wrong by 2.6, -3 or 70,000, in its only row, in a row that
repeats it or before one. A table of one row with every text of up to four
characters (`TextLength`) of the eleven that the parser tells apart; a table of
two rows with every one of the 256 sets of missing end tags; a code column;
amounts of three digits; pairs of items that share a name. Four characters hold
every pair of signs around a digit, a comma between two digits, and white space
inside parentheses; longer texts repeat them. TLC also evaluates the three assumptions
about documents on all of them: what the proofs assume (`DocumentsAssumption`,
`ReadingAssumption`, `BalanceAssumption`) is true of every document of the run. `RulesFile = "list"` is the form
`load_rules` is written for; the shipped file is a mapping, see below.

## 4. What the violations show

- `no_scheduler`: docker-compose.yml starts `worker-webhook` without
  `--with-scheduler`. A delivery that fails once goes to the scheduled registry
  and stays: neither delivered nor failed, against design/api.md section 9.4.2.
- `redis_loss`: docker-compose.yml says that a lost queue "can be run again".
  Nothing runs it again: the row stays `queued`, its document on the volume.
- `null_path`: `file_path IS NULL` is documented as the audit signal that the
  document was removed. A request that fails between the upload and the second
  commit leaves the document with a NULL path.
- `commit_leak`: the `finally` of `process_document` "always runs", but the first
  commit is outside it, and the reload after that commit defeats it. One
  database error leaves the document for good.
- `rules_file`: `load_rules` expects a list and rules_bctc.yaml is a mapping.
  Every BCTC document fails; no test loads the shipped file.
- `read_sheet`: a sheet in order, every cell of which is read without error, is
  flagged. The trace shows three reasons, each on rows of its own.
  Eleven codes have the name of an earlier one; without a code column a row of such
  an item is filed under the earlier one, with full confidence, although bctc.py says
  that skipping a row is better than mapping it wrong. So 141 replaces the value of
  140, the total that the rule of 100 needs. (So do 155 for 150 and 268 for 260.)
  The numbers of a row are the cells that are left without the blank ones, so 240,
  with an opening amount only, has it judged as the closing one by the rule of 200.
  And they include the cell of the code: on the second page, whose table has a code
  column, every closing amount is the code, which the rules of 300, 400 and 440 flag.

`OnlyImbalanceIsFlagged`, which holds, is what is left of the
promise: the rows that share a name have the same amount, no closing cell alone is
blank, there is no code column, and a difference within rounding of the tolerance
may be flagged. The last is a false alarm of its own: engine.py says that a
difference of one unit is no error, but compares doubles, and 2,20 against 1,20 is
flagged. The model leaves open which of such differences are (section 2).

## 5. Fairness

`Fairness` gives weak fairness to each request that has begun, to each worker and
to each entry of the scheduled registry (when there is a scheduler). The code
justifies each: the containers have `restart: unless-stopped`; a worker loops
over its queue; a work horse that runs is not stopped by anything but the end of
its function, RQ's time-out or a kill; every call of `_send` ends because urllib3
is given connect and read time-outs, which is why the fair step of a webhook
worker is "answer or failure"; the pipeline ends at the latest with RQ's
time-out. No failure is fair and no tenant has to submit. Weak fairness is
enough because nothing another process does disables a step of an execution, and
a worker that is idle while its queue is not empty stays enabled.

`RequestPool` gives weak fairness to `Proceed(r)`: threads are scheduled,
`connect_timeout=10` ends an attempt to connect, the pool's time-out ends a wait
and each statement ends in a result or an exception. Failures, refusals and
failed attempts are not fair. Without the time-out `RequestsEnd` is violated (its
mutant): requests that hold connections wait for threads whose requests wait for
connections. So the code relies on a default of SQLAlchemy there, and a request
can end in an error although nothing failed.

## 6. What is proved

`TypeCorrect`, `Invariance`, `ResultsAreCleaned`, `NotificationsAgree`
(`OcrEngineProofs`) and `EngineImplementsContract` (`ContractProofs`), for every
set of jobs and workers, every number of retries, with and without a scheduler,
and for every subset of the faults. The assumptions are those the modules name:
`RetriesAssumption` (the number of retries is a natural number),
`SchedulerAssumption` and `FaultsAssumption`.

The argument. `WebhookAgreesWithPolling` is not inductive: an execution that
started on a job whose result is out would take the status back. So `IInv` says
(`OcrQueueInv`, `OcrWorkerInv`) that a job is in `ocr-jobs` at most once, that no
two executions hold it and no execution holds a job that is still queued, and
that the step of an execution determines the status of its row: `queued` when it
was taken, `processing` until the result is committed, final after. `RequestInv`
says that before its request enqueues a job nothing else touches it, which is
why enqueueing cannot make a second entry; and that a final status means a clean
job. `DeliveryInv` says that only jobs with a result are announced and that each
payload carries it. The proof of `InvStep` has a lemma for each process
(`ApiInv`, `OcrInv`, `HookInv`) with a case for each action and each failure.
Under them are the facts the cases share: `RequestStepKeepsInv` (a request that
enqueues nothing disturbs nobody), `ExecutionStepKeepsInv` (an execution that
writes only its own row and document disturbs nobody) and `DeliveriesKept`
(deliveries stay sound as long as no final status changes).
The refinement proof uses the invariant in two places only: a worker begins a
job whose status is `queued`, and commits a result when the document is gone.

`DeliveryProofs`: `AttemptsAccount` and `ExecutionsNeverOverlap`, for the same
constants and every subset of the faults. The increment of
`webhook_delivery_attempts` is a read and a later write without a lock, so the
counter is right only because nobody else counts for the job meanwhile.
`OneDelivery` says why: the delivery of a job is in the queue, in the scheduled
registry or on one worker (`OnceInv`); a job that is about to be announced has
none and was never counted (`UnannouncedInv`, `FirstCountInv`); the attempts made
and the retries left stay within the limit, and a counted attempt is ahead of the
requests until it is answered (`CountInv`). The steps are of five kinds, a lemma
each: nothing of a delivery changes (`QuietStep`), Redis loses some (`LossStep`),
one is put in the queue (`AppendStep`), taken (`TakeStep`), or its worker goes on
or ends (`InPlaceStep`, `ReleaseStep`).

`RecoveryProofs`: `DocumentIsThere` assumes that "storage" is not among the
faults, `NothingIsLostInSilence` that "redis" is not; everything else may fail.
`DocumentInv` extends `PipelineFindsDocument` to every place a job passes before
its pipeline. `NoSilentLoss` is inductive next to `IInv`; its proof follows the
work of a job from hand to hand (`PassedOn`): each step passes it on, finishes it
or leaves it in a failed registry. The run `redis_loss`
(section 4) is what happens without the second assumption.

A failure can lose entries of the queues but cannot add one, so the proofs need
no hypothesis on what fails. That is exactly what a returning Redis snapshot
would break, see section 8.

`RequestPoolProofs`: `PoolTypeCorrect`, `WaitersHoldNothing`, `NothingLeaks` and
`ProbesReport`, for all sets of requests and all sizes of the pools. The
invariant says at which positions a session may have what of the pool, and that
only an inline job in its enqueue has a second session; what makes it inductive
is that every way out of a function leads to `Teardown` or, for the probe, closes
its session first.

`CallbackGuardProofs`: `GuardTypeCorrect`, `PayloadNeverInside`,
`AtMostOneLateRequest` and `OneRefusalPerRotation`, for all sets of jobs and
addresses and any number of retries and rotations. The invariant relates what an
execution has loaded to the row: a pinned address is public; an execution that
loaded a registered domain after which the domain was removed has no late
request yet; the endpoint verifies with the current or the previous secret, and
the refusals so far leave room for one more exactly when an execution in flight
has secrets of before the last rotation.

`ParserProofs` and `BalanceSheetProofs` are about what the extraction computes. The
parsers are recursive functions, which a definition only chooses
(`CHOOSE f : f = ...`), so a lemma first shows that a function with the equation
exists (`KeptExists`, `ParsedExists`, `FoundExists`, `SumsExist`, ...). The
induction that follows looks for a smallest counterexample in a set: over the
numbers (`NumberInduction`), the sequences (`SequenceInduction`) and the subsets
of a finite set (`SmallestSubset`). The results about
the extraction:

- `JudgedIsReported`: the two accumulators of `extract_bctc` agree.
- `DigitsAreKept`, for texts of every length and of any characters. The lemma
  `AmountOfText` follows the digits and the signs of a text through
  `parse_vn_number`: each step (`strip`, the parentheses, the spaces, the sign,
  the cut at the last comma, the dots) drops only characters that are neither a
  digit nor a sign, or a sign whose effect is recorded. The lemmas `OnlyCut`,
  `OnlyMiddle`, `OnlyStrip`, `OnlyWithout` say so of each kind of step.
- `RowsAreSourceRows`, for tables of every length. The invariant of
  `_TableRowParser` (in `RowsOfTable`, preserved by `FeedInRow`) relates the open
  row and the open cell to the tokens since the last row started; it holds
  because a start tag drops what was open.
- `AllTablesAreRead`, for trees of every size and depth. `AllTablesFound` counts in
  two ways: what is found below the nodes is, summed over all nodes, the tables
  they have plus what is found below all nodes but the root (`EveryNodeCounts`),
  since every other node is once the child of one node. `TablesAccounted` carries
  the count through the loops.
- `RowsAreRead` and `TablesAreFound` (`ParserProofs`) say the same of the two parsers
  alone, and from the other side: what is there is found. `parse_html_rows` is a
  parser with a state fed with tokens; `RowsIn` is a set comprehension without one:
  a row is a pair of matching tags with no other tag of a row between them, a cell
  the like inside a row, its text all pieces of text between its tags, stripped. For every
  table of tokens in the order of the source, the parsed rows are exactly these.
  `find_table_html` is a recursion through a tree, `AllTables` the tables under the
  keys of all nodes; the two are the same set for every tree.
- `ItemsAreFiled`: an item of a row with a code has that code, any other clean one the
  code of an item with the name of its row. `SheetFiled` is the inductive invariant: an item has the code that
  `match_ma_so` gives to a row of a table of the sheet (`Filed`), and so have the rows
  still to read. The lemma `RowIsReadWell` computes that code. It needs that the name is the
  longest cell without a number, so that amounts that are printed have a number
  (`PrintedIsRead`) and names have none (`NamesAreNoNumbers`); and in a table with a
  column for the code, that nothing left of that column reads as a code.
- `RowsAreExtracted`. `RowsAccounted` is the inductive invariant: each row of each
  table of the sheet is on a page, in a table or among the rows still to read, or its item
  is in `chi_tieu` (`Extracted`). That no row escapes between the loops is
  `TablesAreFound` at `DetectTables` and `RowsAreRead` at `ParseTable`; that `ReadRow`
  makes the right item of one is `CleanNumbers` (the amounts of the row are the closing and
  the opening amount, in this order) with `PrintedIsRead`: for amounts of every length, in
  each notation, `parse_vn_number` gives one number and `Hundredths` of it is
  what is printed.
- `MisreadingIsCaught`, for every set of rules of the two forms. A rule compares two
  sums over disjoint sets of codes (`Sides`), so when one of its amounts changes, the
  difference changes by as much (`ChangedDelta`). What is printed is within the
  tolerance, and a misreading beyond twice the tolerance and the rounding error of
  the doubles leads out of it on either side, whatever the offset (`ChangeBreaks`).
- `NoFalseAlarm`, for every set of rules. It does not assume that the sheet balances:
  its content is that what is judged is what is printed. `NothingIsWrong` shows that
  from the cells: a value is that of the last item with its code
  (`JudgedAsReported`); an item is of a clean row, as a row without amounts gives none
  (`LostRow`), and its number is the closing amount of the row (`Filed`, by
  `PrintedIsRead`); the row has the name of the code. From there a rule that reports
  a flag compares printed amounts (`SameDelta`, `SameRounding`), and they differ by
  more than the tolerance up to the rounding error.

Their hypotheses are three assumptions about documents. `DocumentsAssumption`: a
recognition result is a JSON tree, and its tables keep the order of the source,
whichever end tags they lack (`FollowsTheSource`: pieces of text without the start
of a row between them are of one source row, the one in a later cell is further
to the right, and a cell that ends has started in its row). `BalanceAssumption`: a sheet
is a balance sheet, what it prints satisfies every rule within the tolerance and
gives each code of a rule one amount. `MisreadingIsCaught` uses all of it,
`NoFalseAlarm` the last part only.
`ReadingAssumption` says what "clean", "lost" (both amounts blank), "closed" (the
closing one blank) and "coded" mean, of cells and never of what the code
makes of them: a row that is printed so is in some table; a row of a table that is
about it has its name, with a character that no amount has (`HasLetter`), its closing and its
opening amount or blank cells for them, each amount in one of the notations (`Prints`: groups of digits between
dots or spaces, one or two digits after a comma, a minus sign or parentheses) and,
if "coded", its code. A clean row has no amount of three digits that is a code: the code of
another item would then be taken for that of the row, a limit of `_match_ma_so`; such rows,
printed "small", are in the run, and the assumption does not speak of them. Only `ItemsAreFiled`,
`RowsAreExtracted` and `NoFalseAlarm` use this assumption. The
other constants have the assumptions their modules name: codes have three digits,
the first code of a name is its own namesake, and the target of a rule is not among its components, as in rules_bctc.yaml.

## 7. What is only model-checked

- Liveness and everything under fairness, which the prover cannot treat:
  `AcceptedIsAnswered`, `AcceptedIsAnsweredOrShown`, `ResultIsSettled`,
  `DocumentIsDiscarded`, `RequestsEnd`.
- That the assumptions about documents are true of sheets as they are printed:
  `MCBalanceSheet` writes them, TLC evaluates the assumptions on each.

Every safety property that a passing run checks is proved.

## 8. What is not modelled

- Redis restarting from an older snapshot: an execution could run again after its
  result is out. The model loses keys and never brings one back.
- The fuzzy match of a name is external: a piece of text says which item it names,
  and the model adds what the code makes of items that share a name.
- HMAC and Fernet are ideal: a signature verifies with its own secret only. The
  checks of the form of a callback URL are one refusal.
- `pages_processed`, `confidence_overall` and the wording of flags.
- `rmtree` is taken to succeed. Rows of jobs and tenants are never deleted by the
  code, so the early returns for a missing row are in the model and never taken.
- OCR and preprocessing (`ocr/engine.py`, `ocr/preprocess.py`): wrappers of
  third-party models without a state that another part depends on. The angle of
  `deskew` depends on the convention of an OpenCV that is not pinned (a hazard).
- Settings, images and CI, except what docker-compose.yml says of commands,
  restarts and volumes.

## 9. Plan

1. Done: the engine (`JobStore`, `RqQueues`, `ApiServer`, `OcrWorker`,
   `WebhookWorker`, `OcrEngine`), the contract, the invariant and its theorems.
2. Done: `RequestPool`, `CallbackGuard`, the extraction (`NumberParser`,
   `TableRows`, `Catalogue`, `BalanceSheet`) and their theorems.
3. Done: `OcrEngineDelivery`, `DeliveryProofs` and `RecoveryProofs`: every safety
   property of the engine that a run checks is proved.
4. Done: `ParserProofs` and the theorems of the extraction.
5. Done: the notations through `parse_vn_number` for every amount, the rows and the
   tables that are there are found, and from these `ItemsAreFiled` and `RowsAreExtracted`.
6. `Redelivery`: at-least-once execution (a snapshot of Redis from before a take
   comes back). Which properties of the engine survive, and what the tenant can
   then see.
