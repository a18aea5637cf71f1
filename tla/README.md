# WordWell: models, checks and proofs

WordWell delivers one word lesson a day to a learner, and produces those lessons with a
pipeline of paid model calls whose money, evidence and outcomes must survive crashes,
retries and competing operators. This directory holds TLA+ modules that model the program,
TLC configurations that check them on small instances, and theorems about them that TLAPS
proves for every value of the constants. All paths below are relative to the repository.

## 1. Inventory

| Component | Files | State it keeps | Operations | Module |
| --- | --- | --- | --- | --- |
| Receipt ledger | `pipeline/storage/receipts.ts` | an append-only file of receipts | `append`, `read` | `ReceiptLedger` |
| Attempt and request rows | `pipeline/storage/postgres.ts`, migration 001 | `attempts`, `requests` | `createAttempt` to `finishAttempt` | `RequestStore` |
| Stage executor | `pipeline/execution/executor.ts` and the adapters | locals of one `execute()` call | `execute` | `StageExecutor`, `PaidAttempts` |
| Claim and gate coordinator | `pipeline/run.ts`, `postgres.ts` 403-503, migrations 006, 008 | runs, trials, claim, results, selections, authorizations | `create`, `run`, `recover` | `ProductionRun` |
| Planner and writer coordinators | `pipeline/planner-run.ts`, `writer-run.ts`, `storage/writer.ts`, `saved-results.ts` | the same tables, two more stages | `create`, `run`, `recover` | `GenerationRun` |
| Promotion | `promotion.ts`, `planner-promotion.ts`, `writer-promotion.ts`, `planner-revalidation.ts`, `gate-promotion-compatibility.ts` | reviews, decisions, assessments, revalidations, compatibilities | assess, review, decide, revalidate, require | `OwnerPromotion` |
| Authoring store and file locks | `evals/authoring/*.ts`, `pipeline/storage/files.ts` | workspace revision, frozen versions, lock and guard files | save, splits, freeze, recover | `FileLock`, `AuthoringStore` |
| Evaluation runner | `evals/private-appropriateness.ts`, `trials.ts`, `planner.ts`, `writer.ts`, `durable-usefulness.ts` | experiments, trials, frozen summaries | create, run, recover, finalize | `EvaluationRun` |
| Publication | `pipeline/publication/*.ts`, migrations 016-018 | reviews, revisions, lessons, practice items | review, publish | `Publication` |
| Learner API: delivery | `api/database.ts`, `src/learner-state-contract.ts` | deliveries, reserved words, skips | read, synchronize, skip | `DailyDelivery` |
| Learner API: access | `api/database.ts`, `api/http.ts`, `src/profile-*.js` | profiles, sessions, passkeys, codes, links | sign in, recover, revoke, delete | `ProfileAccess` |
| Learner sync | `src/learning-sync.js`, `src/js/main.js`, `api/database.ts` | outbox, cache, saved record; accepted operations | record, synchronize, hydrate, skip, link | `LearnerSync`, `LearnerLog` |
| Stages, intake, sources, encryption, reports, interface, tests' in-memory servers | see section 8 | none that another part depends on | | not modelled |

How they meet: a coordinator claims a candidate and calls the executor for each trial; the
executor reads permissions through `beforeDispatch`, which come from promotions; promotions
read evaluations, which call the same executor over cases the authoring store froze;
publication takes a written lesson and its review and changes what the API's transactions
read; the browser reaches the API through the sync client and the profile client.

### What is hard in each, and what makes it correct

* **Executor, rows and ledger.** One physical request touches a row, the ledger file, the
  provider and the process, and each fails on its own. The connection that carries the lock
  may fail while its process goes on, so that an obsolete process and a new owner run side
  by side. Nothing is sent without a durable intent; nothing released was sent; bills stay
  within the cap; saved charges are the bills; what a caller is told is settled; an attempt
  that is resumed is decided.
* **Coordinators.** A paused run keeps its claim, a crashed one must be recovered, a finished
  one must release it. Selections are replaced, plans change and permissions are withdrawn
  while a reply is in the air; what commits must rest on what is selected at that moment.
* **Promotion.** Commands read evidence, reviews and code identities one after the other and
  save without a lock; production then reads only the decision. A permission that it reads
  must still be earned.
* **Evaluation and authoring.** Lock files outlive their process and recovery competes with
  release; two tabs save from the same revision; finalization freezes a digest before it
  writes a file; held-out cases must be unseen through every edit.
* **Publication and delivery.** A version check and a review under serialization retries;
  items retired by a trigger; one delivery a date in a time zone that the client chooses; a
  queue that is skipped, discarded and refilled out of order; skips and answers that follow
  an old reply, or repeat a request whose reply was lost.
* **Sync.** A bounded outbox with a lifetime over a network that loses and delays; calls that
  bypass the chain of reconciliations; requests that arrive after their caller gave up.
* **Access.** Single-use challenges, codes and links presented twice; sign-ins and
  recoveries open across a deletion or revocation; a protected profile keeps a passkey.

## 2. Plan and order

1. `ReceiptLedger`, `RequestStore`, `StageExecutor`, `PaidAttempts` and their proofs. Built.
2. `ProductionRun` and its proofs. Built.
3. `LearnerSync`, the abstract `LearnerLog` and their proofs. Built.
4. `Publication`, and `DailyDelivery`, which composes with it, and their proofs. Built.
5. `ProfileAccess` and its proofs. Built.
6. `FileLock`, `AuthoringStore` on top of it, `EvaluationRun` on top of that, and their proofs.
   Built.
7. `GenerationRun` and its proofs. Built.
8. `OwnerPromotion` and its proofs. Built.
9. Left: the recall schedule as a function.

`MC*` modules instantiate a specification for TLC. Most only name symmetric sets and
values. `MCDelivery`, `MCEvaluation` and `MCOwnerPromotion` also cut their instance into
parts whose union is checked (section 5).

## 3. The modules

### ReceiptLedger (`pipeline/storage/receipts.ts`)

The file is `ledger`, the set of its complete lines, and `torn`, whether it ends in an
incomplete one. `append` has three outcomes: the event is on disk (`Append`); it refuses to
write behind a torn line (`AppendRefused`); or the file system fails (`AppendFaulted`)
before the write, after part of the line, or after all of it, and the caller cannot tell
which. A receipt carries its type, its request, and for an outcome its status and charge
(`Unknown` is the code's null).

### RequestStore (`pipeline/storage/postgres.ts`)

A request id is the pair of its attempt and sequence, which a UNIQUE constraint makes a key.
Each statement is an operator on a row, its WHERE clause a condition: `AbandonedRow`,
`RecordedRow` with its fallback to `ReconciledRow`, `FinishedStatus`. `reserveRequest` is
one transaction under `FOR UPDATE`, hence one step. A row's `reply` stands for its encrypted
payload and `retryable` column together.

### StageExecutor (`pipeline/execution/executor.ts`)

Each process runs one `execute()` at a time. One action covers the code from one await to the
next, so everything another process can do between two awaits is interleaved. `owner` holds
the lock, a candidate claim or an experiment lock. `sent` and `bill` are the provider's side,
which the program never reads except through a reply; `told` is the last outcome a caller got.

| Actions | Code (`executor.ts`) |
| --- | --- |
| `ReadAttempt`, `CreateAttempt` | 134-141 |
| `ReadReceipts`, `ReconcileLate` | ledger read and late charges, 144-148 |
| `ReadAgain`, `RestoreReceipt` | second read and missing receipts, 149-160 |
| `ReturnSaved`, `HonourCancellation`, `AbandonCancelled` | 161-167, 231-232 |
| `BeginSettling`, `AbandonUnsent`, `ImportOutcome`, `MarkUncertain`, `EndSettling` | open reservations, 169-191 |
| `Loop`, `Dispatch`, `Conclude`, `Settle` | the decision at the top of the loop, 96-131, 193-211 |
| `PreCheck`, `ReserveRequest`, `AppendIntent`, `AbandonUnrecorded` | 211-223 |
| `CheckAgain`, `RefuseSend`, `AppendCancelled` | 225-233 |
| `Send`, `Receive`, `AppendOutcome`, `RecordOutcome` | 234-253 |
| `ReadOutcome`, `Withheld` | 254-261 |
| `Finish` | `finish`, 91-95, in the lock's own transaction |
| `Stop` | process death, and 263-269 |
| `LoseLock` | the lock's connection fails and the process does not notice until it asserts |

The ledger is read once, at 144, and `recs` keeps that value for the rest of the call; rows
are read at 149 and again at 190 and 254; `finish` is fenced, `abandonRequest`,
`recordOutcome` and the ledger are not; retries are counted over rows that are not abandoned,
sequence numbers over all rows. `StallPoints` are the places from which a process may outlive
its lock. Left open because control depends on time or text: what a reply says, whether it
states its charge, whether a retry waits or is deferred, what a request costs (`Bills`).

`PaidAttempts` is what the executor promises, free of rows, ledger and processes: a request
is sent at most once, only for an undecided attempt all of whose earlier requests may be
retried and are accounted for, within the allowance; an attempt is decided once; a verdict on
a reply needs a request that may not be retried and, on the Luna route, is accounted for. A
reply that may be retried can still be recorded for an attempt that was given up, never after
a verdict on a reply. `ImplementsPaidAttempts` gives the mapping; every other step of the
executor is a stutter.

### ProductionRun (`pipeline/run.ts`, `storage/postgres.ts` 403-503)

One candidate, its runs and the operators' processes over the two gates. `lock` is the
connection that holds the advisory lock; `identity` stands for everything `compatible` and
the reuse identities compare.

| Actions | Code (`run.ts` unless stated) |
| --- | --- |
| `Create`, `Begin` | 208-238, 305-315 |
| `Claim`, `ClaimRefused` | `claimCandidate`, postgres.ts 403-432 |
| `ChooseSaved`, `ChooseTrials`, `SkipGate`, `Reuse` | checkpoint, matching and reuse, 244-264, 281 |
| `UsefulnessSaved`, `UsefulnessTrials` | the preceding result, saved usefulness, provenance, 276-289 |
| `BeginTrial`, `NextTrial`, `CompletePaused`, `CompleteFailed` | `trials`, 172-192 |
| `CreateAttempt`, `Check`, `Send`, `Finish`, `Pause` | one `execute`, abstracted |
| `Recheck`, `CommitResult` | 292-299, 266-274 |
| `ListTrials`, `RecoverTrial`, `CompleteRecovery` | `recover`, 314-335 |
| `Throw`, `Interrupt`, `LoseLock`, `Deploy` | exceptions, crashes, lost sessions, other code |

The transactions of `completeProduction` are one step each, fenced by `Fenced`: its query
runs on the lock's connection and finds the row with run and token. A trial's answer is a
boolean and the gate's decision the majority, in place of means and thresholds.

### GenerationRun (`pipeline/planner-run.ts`, `writer-run.ts`)

The two coordinators share their shape (`PR` and `WR` differ in what they authorize), so one
module has both, with `stage` in a run's instructions. `permits` are the gates and the two
promotions as the coordinators read them. `Create` to `Conclude` follow 100-141;
`Authorize` and `Commit` are 143-158 with `completeWriter`; `Pause`, `Stop`,
`CompletePaused`, `CompleteFailed` and `SendThrows` the catch at 152-165, which keeps the
owner while a request may be in the air; `SettleOpen`, `RestoreBlocked` and `Restored` are
`recover`, 69-89. Reuse of a saved result goes through `Validated`, `SameIdentity` and
`Usable` (`saved-results.ts`). `code` stands for the implementation identity and for the
reuse identity together.

### OwnerPromotion

An experiment is its trials' outcomes; a decision, review, assessment, revalidation
(`rereadings`) or compatibility is an immutable row, in the order of `created_at` where the
newest counts. Each command of a desk is split at its awaits:

| Actions | Code |
| --- | --- |
| `OpenReview`, `SaveReview` | `recordPlannerReview` 44-52, `recordWriterReview` 23-30 |
| `OpenDecision`, `ReadReviews`, `CheckDecision`, `SaveDecision` | `recordPlannerDecision` 53-79, `recordWriterDecision` 31-49 |
| `OpenRereading`, `ConfirmRereading`, `SaveRereading` | `revalidatePlannerAnswers`, planner-revalidation.ts 95-130 |
| `OpenAssessment`, `ReadIdentity`, `SaveAssessment` | `assessSavedPromotion`, promotion.ts 44-119 |
| `OpenPromotion`, `SavePromotion` | `recordOwnerPromotion` 127-138 with `recordPromotion` |
| `OpenCompatibility`, `Reassess`, `ConfirmCompatibility`, `SaveReassessment`, `SaveCompatibility` | `revalidateSavedGatePromotion`, gate-promotion-compatibility.ts 64-97 |
| `EndTrial`, `Account`, `Finalize`, `Deploy` | the evaluation, late charges, its frozen summary, other code |

What production reads is `LunaPermits` (`requirePlannerPromotion`, `requireWriterPromotion`)
and `GatePermits` (`requireGatePromotion`). A trial's result is good or poor, where the code
compares fingerprints and averages; `code` is one of the two rules that the compatibility
policy and the revalidation's scope pin, and stands for every rule identity at once.

### FileLock, AuthoringStore and EvaluationRun

`FileLock` has a lock file and its guard file separately: `Create`, `Sign` and `Remove` are
`withFileLock`, `RemoveStopped` is `recoverStoppedLock`, `RemoveGuard` what the documentation
tells the owner to do about a guard that a crash left. `AuthoringStore` runs the commands of
`store.ts` (save, splits, freeze) over it, one action per await, from browser tabs whose form
shows some revision; `Edited` and `Revised` say what a command makes of the workspace,
`rememberInspection` what it remembers of exposed cases. `EvaluationRun` takes a frozen
version, and creates, runs, recovers and finalizes an experiment over it under a session lock
that a process may lose without noticing.

### Publication and DailyDelivery

`Publication` takes a snapshot (`BeginPublish`), then waits for the lesson's lock
(`LockLesson`), and `CommitPublish` or `RetryPublish` depends on what others committed since
(`Overtaken`). `revisions` is the table in the order of its rows; a lesson's revisions are
found by lesson and ordered by version (`OfLesson`, `Latest`). A meaning is its sources and wording; `Resolve` gives it an identity as
`identities.ts` does; `Invalidated` is the trigger of migration 017. `DailyDelivery` extends
it: a request is a transaction that holds the profile's row, and its statements (`Discard`,
`Deliver`, `Fill`, `SkipWord`, `AcceptPractice`, `ReadLessons`, `ReadRest`) each see what
publication has committed by then. Deliveries and reserved words are sets of rows; a reserved
row has its `queue_position`, `NextReserved` takes the least and `NextPosition` is behind the
greatest, and `UniqueKeys` are the tables' unique constraints. A row's random id is a number
that was not drawn before (`drawn`), so a word that is discarded and reserved again has
another id. `SkipWord` goes by that id: the reserved word under it is skipped, an id that was
skipped is answered once more, and any other ends in `Refuse`, the 404. A request that failed
on a unique key is in phase `failed`, one that an `ApiError` ended in phase `refused`; both
roll back. `Requests` is what a client asks for with what it keeps, however old: `kept` has
the words it was shown and the items of `Projected` (`projectLearnerState`), and a reply may be
lost after its commit. The lessons of a reply are not kept, since no request names one.

### LearnerSync and LearnerLog

A device has a session, an outbox, a cache, the saved record and one call of each kind in
progress. `Reconcile`, `StartSync`, `Skip`, `StartFresh`, `SignIn` and `OpenLink` are what
main.js starts; `Serve` the API; `Answer` the reply, with `Unsent` for what stays in the
outbox (`Only` is the array's filter, a recursive function); `Lose` a lost message, after which `ServeLate` may still apply the request. `LearnerLog` says that a
change takes effect at most once, and changes of one device to one delivery in the order they
were made; `ImplementsLearnerLog` maps the accepted operations, the recorded changes and those
a rule gave up.

### ProfileAccess

A transaction that goes through `authorize()` holds its session and profile rows and is one
step. A sign-in, a recovery and the start of a recovery have two, with the rows they hold in
between (`KeyLocked`, `TicketLocked`); a deletion waits for those. A ticket is a challenge, a
continuation code, a verification or a recovery link. `pages` is the browser's session,
cached profile and deletion dialogue.

## 4. The runs

| Run | Question | Instance | Distinct states |
| --- | --- | --- | --- |
| `exec_crash` | Do rows, ledger and answers agree after crashes and failed appends at any await, and is every attempt decided? | 1 attempt, 1 process, 5 requests, 3 faults, 1 retry, cap 10, `FairSpec` | 243,807 |
| `exec_budget` | Do two attempts stay within one cap, is an obsolete process harmless in the dispatch loop, and is `PaidAttempts` implemented? | Luna route, 2 attempts of 2 requests, 2 processes, cap 4 of a possible 8, 1 fault, locks lost at three places | 1,217,995 |
| `run_crash` | Do results follow from the run's own trials over resumes, and is the candidate freed? | 2 runs through both gates, 1 process, 2 trials a gate, 2 faults, `FairSpec` | 399,927 |
| `run_deploy` | Do runs end once, free the candidate and rest on authorizations that are current? | 2 runs of every kind, 2 processes, 1 trial, 2 identities, 1 fault, locks lost anywhere | 1,030,274 |
| `generation` | Do selected results stay usable, requests keep their owner, and lessons follow their plan? | a selected plan and 2 more runs of either stage, 2 processes, 3 plans, 2 codes, 2 faults | 3,336,077 |
| `learner_sync` | Is every change taken once, in order, never forgotten, and does the outbox drain? | 1 device, 2 profiles, 3 changes, an outbox of 2, 2 calls at a time, 1 fault, `FairSpec` | 333,666 |
| `delivery` | Is a word the learner's once and in order, and only a late skip refused, whatever is published or withdrawn meanwhile? | 4 candidates of 2 lessons, 3 older lessons, 2 items, 2 publishers, 2 zones, 2 days, 3 requests | 1,962,627 |
| `profile` | Can nobody act for a deleted profile, or twice with one ticket? | 2 profiles, 2 passkeys, 2 sessions, 2 tickets, 2 open transactions | 1,648,081 |
| `evaluation` | Are edits atomic, held-out cases unseen, and finalized summaries the evidence? | 2 tabs of 2 lives, 2 cases, 3 words, 2 groups, 3 revisions; 2 runners, 2 trials, 2 requests | 554,493 |
| `promotion` | Is a permission that production reads earned? | an experiment of the gate, two of the planner, one of the writer, 2 trials, 2 commands at a time, 5 commands | 642,220 |
| `stale_recovery` | Is a released reservation unsent if a process outlives its lock in recovery? | locks lost before the loop, 2 faults | violated |
| `page_deletion` | Is a profile that the page shows as deleted deleted? | 1 profile, 2 passkeys | violated |

Where an instance is symmetric the counts vary a little with the order in which TLC's workers
find the states. Each property is stated in words where it is defined. The state types of a module are checked
once each; where they say more than types (`LearnerSync`, `AuthoringStore`, `GenerationRun`)
the comment says so.

## 5. Bounds, parts, fairness

**Executor.** `MaxRequests` bounds sequence numbers, abandoned rows included: one retry means at most two
sends, so five leave room for abandoned rows between them. When numbers run out
`reserveRequest` fails, as with the code's smallint. Three faults cover a torn append, a crash
and another crash during recovery. A cap of 4 with reservations of 2 admits two open reservations and
refuses a third until both are priced at 1, so a budget pause, a late price and another dispatch
all happen. Two requests an attempt suffice there, and `exec_budget` loses locks at the three
places where a late process still writes: before it reserves, with a reply in its hands, and
before `finish`. Bills stay within their reservation, which is what the reservation is computed for;
only `WithinCap` depends on it. Two processes suffice: only one holds the lock, and the
other is the obsolete one.

**Coordinators.** Two runs are the least that compete, and enough to replace a selection
between one run's gates. `run_crash` has two trials a gate, so that saved and new trials mix.
In `generation` a third run is the plan that the writer starts from and that a later planner
replaces; `b` is a different plan and `empty` one that teaches nothing.

**Learner sync.** An outbox of two overflows with three changes; `MaxCalls` of two makes a
skip or a link overlap a reconciliation. The single fault is a lost message, a reload, an
expiry, a lost save or a deletion, wherever it hurts.

**Delivery and publication.** The candidates split a lesson's meaning, reword it and bring the
wording back, and rename a lesson; two lessons share a word. `MCDelivery` checks two halves:
two publishers with reviewers and no learner, and one learner with one publisher of the
approved candidates. In the learner's half the publisher starts and commits between two of the
learner's statements, which see only what is committed, and a day passes only between
requests, since a request reads the date when it starts; in the publishers' half the lessons
nobody publishes are left alone. The third older lesson refills the queue after a skip behind
a word that waits. Three requests are a reply that shows the queue, a skip whose reply is lost
or a delivery by another session, and the late or repeated skip.

**Evaluation.** `MCEvaluation` checks all contents from one tab whose locks work, then crashes,
recoveries and two tabs over few contents, and evaluates what was frozen undisturbed.

**Promotion.** The stages share only the deployed code, so `MCOwnerPromotion` takes one stage
at a time; the planner's trials end before its owner starts, the writer's while she works. Two
trials instead of three keep the review of each trial and the mixture of good and poor.

**Deadlock** is not checked where the instance may stop: runs that ended, requests used up.
In the executor's runs it is checked, since another resume can always start.

**Fairness.**
* Executor: `WF(Step)`, because each await is answered or times out (`requestTimeoutMs`,
  statement timeouts); `SF(Resume)`, because the documented answer to a pause is another
  resume; `SF(Undeferred)`, because the eligible time of a deferred retry is fixed and passes.
  Nothing is assumed of the provider. A torn ledger stops everything until somebody repairs
  the file, which no code does, and `EventuallyDecided` says so.
* `ProductionRun`: `WF(Step)` and `SF` of a recovery of a run that owns the candidate (the
  documented answer to `candidate_recovery_required`). Code is not changed there: a run whose
  code is gone can be neither resumed nor recovered.
* `LearnerSync`: weak fairness of the turn of the chain that waits, of the page's periodic
  and visibility-driven starts while it is shown, and of an answer or a failure of each call.
  `Blocked` lists what keeps an outbox from draining for good.
Liveness is checked without symmetry.

## 6. Disagreements between code and documentation

1. **A released reservation that was sent** (`stale_recovery`). `executor.ts:174` abandons a
   reservation for which the ledger read at 144 has no intent; the rows are from a later
   read, and `abandonRequest` is not fenced. A process whose lock connection fails in between
   abandons the new owner's fresh reservation, which the new owner then sends.
   `postgres.ts:301` says: "A reservation with no intent or a durable cancellation was never
   sent." Without such processes, and for locks lost from the first dispatch check on, the
   property holds (`exec_budget`, theorem `ReleasedIsUnsent`).
2. **A profile shown as deleted that is not** (`page_deletion`). The page signs in before it
   deletes; `signIn` opens a session without a recent authentication; the deletion is answered
   with `authentication-required`, which is a value and not an error, and the page renders the
   tombstone (`main.js:244-253`). `PRODUCT-BRIEF.md:220` says the learner can permanently
   delete the profile.

## 7. Proofs

All theorems hold for every value of the constants that satisfies the named assumptions of
the modules; a theorem that needs more says so in its statement.

`StageExecutorProofs`:
* `ExecutorTypes`: `Spec => []TypeOK`. Actions index rows by the locals they carry, so
  `TypeInv` adds that a process past its reservation has a request of its own attempt
  (`LocalsOK`).
* `IntentBeforeSend`: `Spec => []SendsAreRecorded`, wherever processes lose their locks.
  `SendInv` adds who may write what: a request in a process's hands is in nobody else's, and
  from the check on its intent is in the ledger and its cancellation is not.
* `ReleasedIsUnsent`: if `StallPoints` holds no place before the dispatch loop,
  `Spec => []AbandonedNeverSent`. `ReleaseInv` adds that a process in recovery holds the lock,
  that what it read of the ledger is complete for what it may release, and that the row of a
  request about to be sent by the owner is live. `stale_recovery` shows that the assumption is
  necessary.
* `SavedChargesAreBills`: `Spec => []ChargesAreBills`, wherever locks are lost. A charge travels
  from the provider through a process's hands, the ledger, what a recovery read of the ledger
  and the row; the invariant follows it through all of them.
* `BilledWithinCap`: `Spec => []WithinCap`, for finitely many attempts whose bills stay within
  their reservation, if `StallPoints` holds no place before the dispatch loop. By the two
  invariants before it, the row of a sent request is never released and its known charge is
  its bill, so a row never comes to stand for less than its request is billed (`NewRowHeld`,
  `BillsCommitted`), and `reserveRequest` adds to a sum that it has compared with the cap. The
  sums of the library are taken apart by the well-foundedness of the naturals (`SumsExist`,
  `SubsetsHave`): growing summand by summand they grow (`SumGrows`), and one changed summand
  changes them by as much (`SumExcept`).
* `ExecutorImplementsPaidAttempts`: if no lock is lost during recovery or between the last check
  and the send, `Spec => ImplementsPaidAttempts`. The mapping reads the abstract reply of a
  request from wherever it is by then (the row, the ledger or a process's hands); the invariant
  has a part about what is stored and one about what each process may do next, so that a send
  finds the earlier requests of its attempt answered, and a verdict finds its request. Each
  action is then a send, a reply, a decision or a stutter of `PaidAttempts`.
* `ToldOutcomesSettled`: if no process outlives its lock, `Spec => []ToldIsSettled`. The
  assumption is needed: when a process loses its lock at the check, its durable cancellation
  decides the attempt while the new owner has a reservation open (a trace of 31 states; with
  locks lost at the await of the reply only, the property holds).

`ProductionRunProofs`:
* `EndedOwnsNothing`: `Spec => []TerminalReleases`; `EndIsFinal`: `Spec => FinalRuns`.
  `StepsAreGuarded` reduces every action to four ways of touching the run rows and the claim;
  a status is written only by a process whose claim the row names, and by `TerminalReleases`
  that run has not ended (`FencedIsOpen`).
* `ProductionTypes`: `Spec => []TypeOK`; `AcceptanceIsAuthorized`: `Spec => []AcceptedIsAuthorized`;
  `UsefulnessFollowsSelection`: `Spec => AuthorizedWhileSelected`, all three wherever locks are
  lost. Tables only grow, one process moves in a step, and only the lock's owner changes claim
  and selection; the invariant then says what a process that goes on to the next statement has
  already saved.
* `LiveRunOwns` and `VerdictsAreEvidenced`: without processes that outlive their locks,
  `Spec => []OneLiveRun` and `Spec => []ResultsEvidenced`. With them both fail: two runs have a
  request in the air after 15 states, and with two faults a result mixes provenances after 49.

`GenerationRunProofs`:
* `GenerationTypes`: `Spec => []TypeOK`, with `Called`: a process outside `idle` has a run.
* `OpenOwnsCandidate`: `Spec => []OpenKeepsOwner`, from `OwnerInv`: the lock's holder owns the
  claim (`HolderOwns`), a process with a request in its hands holds the lock (`HandsOnLock`),
  the claim's owner has not ended (`OwnerLives`), an open request belongs to a pending attempt
  of the owner (`OpenIsPending`, `OpenPays`), and a process that is about to conclude has none
  (`Landed`).
* `SelectedResultsStand`: `Spec => []SelectedStands`, and `LessonIsOfItsPlan`:
  `Spec => LessonFollowsPlan`, from `StandInv`, which adds to `OwnerInv` that a request being
  sent is open (`OpenAtHand`), that what a committing process picked is valid (`Ready`), and
  that a writer about to commit has the plan it authorized (`Planned`).

`ProfileAccessProofs`:
* `ProfileTypes`: `Spec => []TypeOK`.
* `DeletionCloses`: `Spec => []DeletedStaysClosed`. A deletion waits for the rows that an open
  sign-in or recovery holds (`Held`), so what is open across it is only the start of a recovery,
  whose link lets nobody into a deleted profile.
* `TicketsOpenOnce`: `Spec => []SingleUse`: a call that goes on with a ticket holds its row, and
  no two hold the same; a ticket that is still there was not used (`Unopened`).
* `ProtectedByAPasskey`: `Spec => []ProtectionIsAPasskey`: a recovery is only under way for a
  profile that was protected (`Recoverable`), and replaces passkeys where it revokes them.

`DailyDeliveryProofs` has `Publication` and `DailyDelivery` together, since a learner's
transaction reads what publishers commit between its statements:
* `RevisionsAreInOrder`: `Spec => []PublishedOnce`. A transaction's snapshot is a past of the
  tables (a prefix of the revisions, a subset of the reviews), and a commit that was not
  overtaken sees its lesson as it is. Versions of a lesson are gapless and increase with time,
  so the latest is unique (`GreatestNumber`, from the well-foundedness of the naturals).
* `PracticeMatchesShelf`: `Spec => []BankMatches`, from the trigger.
* `WordIsLearnersOnce`: `Spec => []WordsOnce`, from `RowsOK` of the committed rows and of those of
  the open transaction: a lesson's word never changes once it is published (`ShelfNamed`).
* `OnlyLateSkipsAreRefused`: `Spec => []OnlyLateSkipsFail`. What the client keeps was served from
  rows that are still there (`Served`), and while nothing was withdrawn each word it was shown
  is reserved under its id, delivered or skipped (`Held`): a transaction loses no reserved row
  but by its skip or its delivery (`AddsTo`, `DeliversFirst`), and a discard finds all lessons
  available (`QueueOK`).
* `WordsComeInOrder`: `Spec => UpcomingInOrder`. The queue is in the order of its ids (`QueueOK`),
  and `Follows` says what an open transaction made of the committed rows: it numbers what it
  reserves anew and delivers what waited longest, which needs that its delivery is its first
  statement after the discard (`Early`).

`LearnerSyncProofs`:
* `LearnerTypes`: `Spec => []TypeOK`, from `Types`: the fields of every call and saved record,
  and that a request at the API has a session.
* `ChangesAreKept`: `Spec => []NothingForgotten`, `TurnShowsChanges`: `Spec => ReconcileShows`,
  and `LearnerSyncImplementsLearnerLog`: `Spec => ImplementsLearnerLog`, all from `Inv`. A reply
  removes by id, and after a reload an id may be used again: `SentMatches` says that a call in
  progress and the outbox still mean one change by one id. A late batch may arrive at any time:
  `SendsComplete` says that whatever is older and competes with a change in it goes with it, is in
  the log or was given up, so that `LogSound` survives it. `AnswersTrue` follows an answer from
  the server to the device: its batch is in the log and the state it brings shows what the
  outbox no longer holds. `Moves` reduces every action to six ways of touching an outbox. What
  `filter` returns is proved from its recursive function by taking the least length at which
  it would fail (`OnlyFacts`).

`OwnerPromotionProofs`:
* `PermissionsAreEarned`: `Spec => []PermissionIsEarned`, from `RowsStayTrue`. A command writes
  what it read several awaits ago, so the invariant (`Holds`) says of each of its places what
  still holds of that: evidence only grows (`Grown`: a trial ends once, a finalized experiment
  has no more trials, reviews are appended), and what a row or a command rests on survives such
  growth (`StandingStays`, `HoldStays`). A proof's evidence is pinned from both sides: it
  was read before the assessment it is compared with, and is read again after it, so a charge
  that arrives between the reads is noticed (`ConfirmCompatibilityKeeps`). The assumption that a
  configuration names its stage is needed: the model keeps the decisions of the three stages,
  each in a table of its own, in one sequence.

`EvaluationRunProofs` has the lock files, the authoring store and the evaluations together, for
a finite set of cases and the two lock names:
* `EditsNeverLost`: `Spec => AtomicEdits`, from `LockInv`: a guard has one command under it, what
  recovery removes names a life that is over (lives only grow, so it stays over), and whoever
  works inside the write lock is named in it, so at most one does (`OneInside`). What it holds
  (`TabDataOK`) is then still about the workspace that is saved.
* `HeldOutUnseen`: `Spec => []UnseenHeldOut`. The connection of keys is a recursive function; taking
  the least step at which it would fail, it is the least set that holds its seed and is closed
  under the links (`ConnectedIsLeast`), and it is closed after as many steps as there are links
  (`ConnectedIsClosed`). The remembered history therefore holds all that was inspected
  (`InspectionIsRemembered`), every change keeps the history (`SavedSucceeds`, `MovedSucceeds`),
  and `validateWorkspace` bars the inspected from the held-out split.
* `SummariesAreEvidence`: `Spec => []SummaryIsEvidence`, `FailuresStopRuns`:
  `Spec => StopsOnFailure` and `EvaluationTypes`: `Spec => []TypeOK`, from `EvalInv`. `RunnerOK` says
  what a process may rely on while it holds the experiment's lock (its trial is pending, no
  summary is frozen while it runs, what it summed still counts the trials) and what stays true
  when it has lost it. Counts look only at decided trials (`SameCounts`), so the row that an
  obsolete process may still insert changes none.

Each proof has one step per action of `Next`, over lemmas on what the helpers do to the state.
The inductive invariants were checked by TLC before they were proved. Some cases are hardly
reached by the runs and rest on the theorems: two different known charges of one request, a retry
allowance that is used up over several restarts, a deployment between a run's gates with a
fresh checkpoint, and a delivery of one word from either of two lessons.

**Only model-checked:** liveness (`EventuallyDecided`, `ClaimFreed`, `Drained`), which is out of
the prover's reach. Every invariant, action property and refinement of a passing run is proved.

## 8. Not modelled, and limits

**Components.** Stage definitions, intake, sources, encryption, reports and the interface are
rendering, validation of text, input and output: a stage is whether a reply validates. The
stages' thresholds are in `EvaluationRun`. `daily-lessons.js`, `profiles.js` and
`LearningStateServer` are in-memory implementations that only tests use. Product
signals change no state another part reads; the recall schedule's arithmetic decides which
reviews are due, which `DailyDelivery` leaves out with the recall list. The
passkey operations no route reaches (`createPasskeyChallenge`, `protectProfile`,
`authenticate`, `addPasskey`) are left out.

**Executor.** `verification_pending` (no adapter implements `verify`), `deferAttempt`'s time
and checks that throw before anything happens are left out. With a lock that may also be lost
between the last check and the send, `ImplementsPaidAttempts` fails: the obsolete process
sends after the new owner closed the request, since `sendRequest` follows the check without a
fence. `exec_budget` therefore loses no lock there, and the theorem excludes it.
A resume also honours any cancellation of its attempt before it looks at open reservations
(163), so one that an obsolete process appends late can leave a later reservation unsettled;
and `execute` compares a saved attempt's stage and request with the caller's, not its
provenance (139), so an obsolete process can create the first attempt of a gate with an older
provenance than the resumed run's. `run_crash` and `exec_crash` have no obsolete processes;
`run_deploy` does not check provenance.

**Coordinators.** `reserveRequest` is not fenced by the claim. A terminal run that learns a
charge late imports it without the claim; only accounting columns change. In `GenerationRun`
`create` is one step, the execution kind is live, and processes do not outlive their lock
inside `execute` and `recover`'s restoring, which are `StageExecutor`'s. `SettleOpen` is taken
only by a recovery; an ordinary resume settles an open reservation too (planner-run.ts:137,
executor.ts:169-191), which is equal to a recovery followed by a run. A run whose
implementation changed is not recovered (planner-run.ts:64): the claim stays with it until the
earlier code is back.

**Promotion.** A promotion that began before a "do not promote" and is saved after it is the
newest, and counts; a failing review recorded after a promotion does not withdraw it. The
properties are about evidence and do not exclude either. The three `require` functions are
evaluated in one step; production calls them again before each dispatch and commit.
The report of development experiments and the compatibilities of single production results
are left out.

**Authoring and evaluation.** A guard file left by a crash blocks every later lock until the
owner removes it. A conflict page shows the attempted values again, and a second save from it
uses the current revision. A charge that arrives after finalization changes an experiment's
spend and not its summary.

**Publication and delivery.** Assembly is immutable and content-addressed, and stands as the
set of candidates. Lessons of another starting band are left out. A skip of a word that the
client was shown may be a 404 (database.ts:808): the word was delivered meanwhile, also by the
skip's own `ensureDailyDelivery`, whose delivery is then rolled back and made by the next
request; or, once something was withdrawn, the reservation was discarded, and the word may be
back under another id. `OnlyLateSkipsFail` says that nothing else is refused. `BankMatches`
assumes that whoever adds an item waits for a publication of its lesson that is in progress:
the pipeline that adds items is not in the repository, and migration 016 takes no lock that
would make it wait, so an item added next to an uncommitted publication is not covered.

**Learner.** The replies of `skipUpcoming` and `hydrate` do not go through the reconciliation
chain and may replace a newer cache with an older one; `ReconcileShows` is about what a turn of
the chain shows. A batch with a change to a delivery that does not belong to the profile is
refused as a whole; the outbox is then blocked. A deleted profile's row keeps its recovery
email; if another profile verifies the same address, `startRecovery` takes whichever row
comes first and may answer not-found, which in the model is a recovery that does not start.
