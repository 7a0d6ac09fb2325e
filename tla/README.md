# Vzaimno backend: specifications, model checking and proofs

TLA+ modules of the backend of *Vzaimno*, a marketplace where customers publish
tasks, performers send offers, one performer is chosen and works through the
stages of the order, and the two sides may open a dispute that a language model
mediates and a moderator settles if that fails. Paths below are relative to the
repository.

## 1. How the program runs, and what that means for the models

* `app/main.py` is a FastAPI application. Handlers declared with `def` run in a
  thread pool, so requests of different users (and of one user's two devices)
  interleave anywhere. `async` handlers run in the event loop and push their
  database work to threads.
* All state that matters is in PostgreSQL. `app/db.py` gives handlers
  `fetch_one`, `fetch_all`, `execute`; outside `transaction()` **every statement
  takes a connection and commits by itself**. Only a few handlers use
  `transaction()` (accepting an offer, session and account operations).
  A typical handler reads a row, decides, and issues one or several
  UPDATEs `WHERE id = ...` that do not look at the status again.
* One Python process holds volatile state: `_MODEL_INFLIGHT` (disputes a model
  turn works on), asyncio tasks, the WebSocket hubs, circuit breakers.
* `services/admin_panel` is a second process (SQLAlchemy sessions) that writes
  the same tables.

The models therefore take **one SQL statement, or one transaction that locks
what it reads, as one step**. A handler that reads and then writes is a step
that reads, keeps the columns it will write back (`draft` in `Dispute`, the
fields of `loc[s]` in `Task`), and one step per later statement. Any other step
may happen in between. `Slots` are the threads that execute requests, `Actor`
says for whom; a slot executes one request at a time.

## 2. Inventory

| Component (source) | State | Operations | Hard behaviour | Correct means |
|---|---|---|---|---|
| Dispute procedure (`app/disputes.py`, endpoints in `app/main.py` 4502-4627) | row of `disputes`, `_MODEL_INFLIGHT`, asyncio tasks | open, counterparty accept / respond / silence, clarifying answers from chat messages, votes in two rounds, final acceptance, model turn | lost updates of JSON columns, stale status checks, dropped or failed model turns, restart, lazy deadline | no imposed outcome, closed is final, nobody waits in vain, one turn per dispute, one active dispute per thread |
| Administrators in the chat of a dispute (`services/admin_panel/app/crud.py` 2678-2965) | `moderator_hook`, messages of administrators | join, post | second process and the handlers of the sides write back a hook they read before | an administrator is introduced before it is heard |
| Task lifecycle (`app/main.py` 3470-4343, `app/task_compat.py`) | rows of `tasks`, `task_offers`, `task_assignments` | create, photo check, offer, resend, reject, accept, stages, archive, appeal, delete | acceptance (locked) against unlocked handlers, two-statement updates, long detector calls | one performer at work, stages in order, offers, task and counter agree |
| Administrators' decisions (`crud.py` 1742-1889) | `tasks` | approve, needs fix, reject, archive, delete | read, then UPDATE, from another process | as above |
| Settlement options (`app/disputes.py` 860-1706, 1873-2120) | options and votes of the dispute | expansion, compromise, adjustment of amounts | rounding, clamping, fixed number of options | amounts in range, round 2 no farther apart than round 1 |
| Accounts and sessions (`app/user_auth.py`, `app/auth_context.py`) | `users`, `user_sessions`, `password_reset_tokens` | register, login with lock, refresh rotation, logout, revocation, reset, deletion; admission of every other request | repeated refreshes and lost answers, a counter read before it is written, admission in two reads | a session that is over stays over, a client that repeats itself keeps its session, a lock ends |
| Administrators' accounts (`services/admin_panel/app/auth.py`, `crud.py` 1340-1640) | `admin_accounts`, `admin_sessions` | login, refresh in two commits, logout, grant, disable, enable, reset | checks and writes in separate statements, refresh that dies between its commits | an administrator remains, a disabled one has no session |
| Account deletion (`app/main.py` 1114-1640) | announcement, photos, offer, work, storage | collect, erase in one transaction, remove objects one by one | the storage knows no transactions; other requests of the user and of the other side | what is referred to is stored, nothing of a deleted account is live |
| Chat threads and read cursors (`app/chat.py`) | `chat_threads`, `chat_messages`, `chat_participants`, `message_reads` | get or create, post, receipts, unread count | check-then-insert, receipts out of order | one thread per offer in the end, receipts are true, read stays read |
| WebSocket hub (`app/chat.py` 22-72) | sockets per thread | connect, disconnect, broadcast, restart | sends outside the lock while sockets come, go and break | a client that has loaded the thread misses nothing |
| Support (`app/support.py`) | `support_threads`, `chat_threads` | get or create with merge, post | a dozen statements without a transaction or an index | a quiet call leaves one open thread, the user stays heard |
| Reviews (`app/main.py` 1652-1940) | `reviews`, `user_stats` | submit, erase | average read by one statement and stored by another | a quiet operation sets the rating right |
| Reports, restrictions (`crud.py` 2132-2250, 3215-3497, `app/ops.py`) | `reports`, `user_restrictions` | report, resolve, restrict, extend, revoke, expire | two moderators at once, writes the database refuses | lifted is over, an outcome has its restriction |
| Circuit breaker (`app/external.py`) | failures, `opened_until` | call with retries | late successes, retries in an open circuit | opens for cause, closes again |
| Rate limiter (`app/rate_limit.py`) | counters in Redis | enforce | two Redis commands, requests that die or are delayed | never more than the limit per window |
| Moderation detectors, geocoding, route planner, storage, notifications, devices, profile, configuration, metrics, admin web pages, migrations, scripts | - | - | external I/O, geometry, formatting, one-time DDL | not modelled, see section 8 |

Interactions: an accepted offer creates an assignment and a chat thread; a
dispute belongs to the thread of an assignment; a chat message is taken as a
clarifying answer (`capture_clarification_answer_from_chat_message`); endpoints
schedule a model turn as an asyncio task (`_schedule_dispute_model_cycle`);
the photo check and administrators rewrite the status of a task that offers and
stages also write. `PROJECT.json` lists every hazard with its line and the
properties that cover it.

## 3. Modules

| Module | What it is |
|---|---|
| `Dispute` | the dispute procedure of one chat thread, statement by statement: users, model turns, moderators, restart and failures |
| `DisputeProtocol` | the abstract specification: what the two sides are promised, without rows, snapshots, threads or slots |
| `DisputeSerial` | the refinement mapping to `DisputeProtocol`, and the properties that need users' requests not to overlap |
| `DisputeProofs` | proofs about `Dispute` |
| `MCDispute` | instances of `DisputeSerial` (and so of `Dispute`) for TLC |
| `Task` | moderation, offers, acceptance, execution, archiving and deletion of one task |
| `TaskRaces` | `Task` with a history of its races: which requests write from a read that is out of date, and what they wrote |
| `TaskProofs` | proofs about `Task` and `TaskRaces` |
| `MCTask`, `MCTaskRaces` | instances of `Task` and of `TaskRaces` for TLC |
| `Settlement` | the amounts of a dispute: options of both rounds, adjustments, choice among common options, final amount |
| `SettlementProofs` | proofs about the amounts, of any size |
| `MCSettlement` | instances of `Settlement` for TLC |
| `Sessions` | accounts of one e-mail address, their sessions, refresh and reset tokens, and the admission of requests |
| `AdminAccess` | accounts and sessions of the administration panel |
| `Restrictions` | reports, their resolution, and what becomes of restrictions |
| `ChatHub` | the WebSocket hub of one thread, posts and broadcasts |
| `ChatReads` | cursors, receipts and unread counts of one thread |
| `OfferThread` | the chat thread of an accepted offer |
| `Support` | the support threads of one user and their merging |
| `AccountData` | deletion of one user's account or data, database and storage |
| `Reviews` | reviews and the ratings computed from them |
| `Moderators` | administrators in the chat of a dispute |
| `CircuitBreaker` | the breaker in front of one external service |
| `RateLimit` | the counters of one kind of request from one sender |
| `DisputeSerialProofs` | proofs about `DisputeSerial`, the refinement among them |
| `AccessProofs` | proofs about `Sessions`, `RateLimit` and `CircuitBreaker` |
| `ChatProofs` | proofs about `ChatReads`, `ChatHub`, `OfferThread` and `Support` |
| `AccountProofs` | proofs about `AdminAccess`, `Restrictions`, `Moderators`, `AccountData` and `Reviews` |
| `MCServices` | the twelve modules from `Sessions` to `RateLimit` side by side, for TLC |
| `ServicesProofs` | proofs about `MCServices`: what is proved of a component holds in the company of the others |

### Dispute and the code

| Code | Model |
|---|---|
| row of `disputes` | `row[d]`: status, initiator, round (`active_round`), `asked` / `answers` (clarifying questions and answers), `ready` (rounds that have options), `votes`, `selected`, `hook` (`moderator_hook`: its state and the final acceptances) |
| `counterparty_deadline_at < now()` | `d \in expired`, set by `DeadlinePasses` |
| a request in a thread, between two statements | `loc[s]`: the next statement (`pc`), the dispute, the columns it will write |
| asyncio task of a model turn | `turn[w]`: `scheduled`, `acquired` (slot taken), `calling` (row read, waiting for the model), `posting` (UPDATE done, event and message outstanding), `returning` |
| `_MODEL_INFLIGHT` | `inflight` |
| (none) | `past`: history of what sides asked for; `faults`: number of faults |
| `open_dispute` | `ReadOpen`, `InsertDispute` |
| `counterparty_accept`, `counterparty_submit_form` | `ReadAccept`/`WriteAccept`, `ReadRespond`/`WriteRespond` then `StartModel` |
| `_apply_counterparty_timeout_if_needed` | `ReadOverdue`, `WriteTimeout` |
| `capture_clarification_answer_from_chat_message` | `ReadAnswer`, `WriteAnswer`, and after the last required answer `WriteComplete`, `StartModel` |
| `select_settlement_option` | `ReadVote`, `WriteVote`, and when the handler's own copy has both votes `AdvanceToAcceptance`, `AdvanceToRound2` (then `StartModel`) or `AdvanceToModerator` |
| `submit_final_acceptance` | `ReadFinal`, `WriteFinal` |
| `process_dispute_model_turn` | `AcquireSlot` (or the turn is dropped), `ReadTurn`, one of `AskQuestions`, `OfferRound1`, `OfferRound2`, `TurnFails`, then `ReleaseSlot` (`finally`) |
| `join_dispute`, `_set_moderator_hook` | `ReadJoin`, `WriteJoin` |
| deployment, database errors | `Restart`, `RequestDies`, `TurnDies`, `TurnRaises` |

Abstracted: texts, amounts and the contents of options (an option is a member
of `Kinds`; their amounts are the subject of `Settlement`); which of several common options is taken
(`_choose_compromise_option_id`) is nondeterministic; whether the model asks or
proposes, and whom it asks, is its choice. `dispute_events` and system messages
are left out because nothing reads the former and
`_safe_post_system_message` swallows every error of the latter, except that an
event insert that raises after a turn's UPDATE is `TurnRaises`. Left out as
well: `resolution_summary`, `closed_at`, `model_attempts`, `last_model_error`,
who joined. The unique index `ux_disputes_thread_active` is part of every write:
a write it refuses ends the request (`Write`) or the turn (`TurnFails`, whose
refused hand-over needs two requests of one side and two disputes at once: the
proofs cover it, the instances do not reach it).

### Task and the code

| Code | Model |
|---|---|
| row of `tasks` | `task`: status, moderation, deleted (`deleted_at`), accepted (`accepted_offer_id`), responses (`responses_count`) |
| rows of `task_offers` | `offer[o]`: `absent`, `sent`, `accepted`, `rejected`, and `can_reoffer`; `By[o]` is the performer |
| rows of `task_assignments` | `asn[o]`, the assignment made for offer `o` (its `offer_id` is unique): status and execution stage |
| `task_to_announcement_status` | `Shown`; `announcement_status_to_task_fields` is `Fields`, `_update_task_content` is `Content` |
| a request between two statements | `loc[s]` |
| (none) | `reached`: the stages a performer reported; `faults` |
| `create_announcement` | `Init` (the verdict of the text classifier is the choice) |
| `create_offer` | `ReadOffer`, then `InsertOffer` or `ResendOffer`, `CountOffers`, `SyncTask` (`_sync_announcement_offers_count`) |
| `reject_announcement_offer` | `ReadReject`, `WriteReject`, `CountOffers`, `SyncTask` |
| `accept_announcement_offer` | `AcceptOffer`: one transaction that locks task and offer, so one step; with `NewAssignment` or, for an offer that a stale resend has reopened during its own work, `SameAssignment` |
| `update_announcement_execution_stage` | `ReadStage`, `WriteStage`, `WriteTaskStatus` |
| `archive_announcement`, `appeal_announcement` | `Archive`, `Appeal`: one step, the UPDATE comes out the same whatever was read |
| `delete_announcement` | `CancelWork`, `EraseTask` |
| `upload_announcement_media` | `ReadMedia` (status and detector), `FetchTask`, `WriteContent` |
| `apply_announcement_decision` | `ReadDecision`, `WriteDecision`, in a slot that acts for an administrator |

Abstracted: prices, schedules, addresses, messages, the JSON copy of the status
in `data`, `task_events`, notifications, chat threads, the legacy
`announcements` projection. The reads with which `create_offer` starts are one
snapshot. Offers withdrawn or cancelled by account deletion do not occur.
The properties of overlapping requests need to say which request spoils what,
so `TaskRaces` adds four history variables and changes nothing else: `overtaken`
holds the requests whose reads (`View`) have changed before they write,
`strayOffers` the offers such requests wrote while work goes on, `revived` the
work that goes on although it was over, `miscounted` whether the last refresh of
the counter left it wrong.
The model keeps what is odd but undisputed in the code: `Archive`, `Appeal`, photo checks and
approval reset `deleted_at`; archiving and an administrator's deletion leave the
assignment active; acceptance looks neither at deletion nor at moderation.

### Settlement and the code

`Settlement` follows one dispute from both forms to the option that awaits
final acceptance, handler by handler, because it asks what values come out;
`Dispute` follows the same columns statement by statement and asks what
overlapping handlers do to them.

| Code | Model |
|---|---|
| `initiator_form`, `counterparty_form` | `form`: who opened, the amount requested, the percentage acceptable |
| `round1_options`, `round2_options` | `offered[round]`: id, lean, `rub` (`compensation_rub`), `percent` (`refund_percent`, read only while there is no amount) |
| `round1_votes`, `round2_votes` | `votes[round][party]`: option ids in the order picked, adjusted amounts |
| `_normalize_llm_response` | `Proposed`: the answer or `Fallback`, then `Closer` (`_enforce_round2_compromise`), `Expand`, and `Arrange` (the loop that orders by lean, `AddFirst`, and adds the rest, `AddNext`) |
| `_target_option_count`, `_expand_options_to_target` | `TargetCount`, `Expand`, `WithFallback`, `Fill` and `AddAmount` |
| `_normalize_option_adjustments`, `_adjustment_range` | `Vote`, `FindLast` (its dict `option_by_id`), `Adjusted`, `Lowest`, `Highest` |
| `_choose_compromise_option_id` | `Median`, `Goal`, `Score`, `Choose` |
| `_apply_final_compensation_adjustment` | `Final`, `FinalAmount` |
| `process_dispute_model_turn`, `select_settlement_option` | `Propose`; `Cast` with `Await`, `Agree` or `Differ` |

`Round` is Python's `round`, halves to even. The source multiplies and divides
floats; for whole roubles the factors 0.1, 0.2, 0.6 and 0.65 give the same
result as the fractions of the model, because a product that is exactly a half
is a float itself and the nearest one. Abstracted: texts and the enrichment of
options with context, the upper limit of a million, whether the model asks
questions first, how uncertain the case is (`unsure`, a free choice). The model
is assumed not to use one id for two options of an answer, as its contract
asks, nor one that the code gives to options of its own; the code does not
check this. The loops of `_expand_options_to_target` and of the ordering run
over at most five options, so `Fill` and `Arrange` are five nested applications
of one step: a list built that way can be reasoned about without an induction.

### The other components and the code

Each of these modules is about one instance of its component (one e-mail
address, one chat thread, one user's support, one service), at the granularity
of section 1. A request is a record per server thread: the next statement and
what the request has read. Every module has an action by which a request dies
between two statements, unless its last statement is its only write.

| Module | State | Code and actions |
|---|---|---|
| `Sessions` | `user`, `session`, `reset` (rows; locks and lives count down with `Tick`), `held` (what a client holds), `call`, `lost` | `register_user`: `ReadRegister`, `InsertUser`; `authenticate_user`: `ReadLogin`, `FailLogin` or `SucceedLogin`; `refresh_user_credentials`: `SendRefresh`, `Rotate`, then `DeliverAnswer` or `LoseAnswer`; `logout`: `SendLogout`, `Logout`; revocations: `RevokeSession`, `RevokeAll`; `request_password_reset`, `confirm_password_reset`: `RequestReset`, `ConfirmReset`; `user_from_token`, before every other request: `ReadUser`, `ReadSession`, `OtherRequest`; deletion: `EraseData` |
| `AdminAccess` | `account`, `adminSession`, `desk`, `clashed` (history) | login: `ReadAdminLogin`, `IssueAtLogin`; refresh: `ReadRefresh`, `RevokeOld`, `Reissue` (two commits); `LogoutAdmin`; grant, disable, enable, reset: `Admit`, `ReadManage`, `WriteManage` |
| `Restrictions` | `report`, `measure`, `verdict`, `lifted` (history) | `create_report`: `SubmitReport`; `resolve_report`: `ReadReport`, `WriteResolution`; `create_restriction` by hand: `DecideByHand`, `WriteRestriction`; extend and revoke: `ReadMeasure`, `WriteExtension`, `WriteRevocation`; deletion of the user: `EraseMeasures`; time: `MeasuresAge` |
| `ChatHub` | `posted`, `post`, `hub`, `socket`, `fetched`, `shown`, `dropped` | a post: `InsertMessage`, `Snapshot` (under the lock), `SendNext` per socket, `EndSending`, `CleanStale`, or `PostRaises`; a socket: `Connect`, `FetchMessages`, `ClientGoes`, `Disconnect`; `Restart` |
| `ChatReads` | `log`, `cursor`, `reads`, `seen`, `posts`, `acked` (history) | `_insert_message` and the sender's cursor: `PostMessage`, `MoveCursor`; a client: `ShowMessage`; `mark_thread_messages_read`: `HandleReceipt`; the count of the previews: `Unread` |
| `OfferThread` | `made`, `members`, `offerLink`, `workLink`, `listing`, `agreed` (history) | `get_or_create_offer_thread`, one action per statement |
| `Support` | `thread`, `recent`, `serve`, `given`, `spoken`, `overlapped` (history) | `get_or_create_support_thread`: `ReadCandidates`, `Adopt` or `InsertThread`, `InsertTicket`, `Join`, then `ReadDuplicates`, `CloseDuplicate`, `ArchiveDuplicate` for each, `ReturnThread`; `PostByUser`, `PostByAdmin` |
| `AccountData` | `owner`, `ad`, `sentPhotos`, `bid`, `work`, `stored`, `errand`, `late` (history) | `delete_my_account_data`: `Collect`, `Commit`, `RemovePhoto`, `EndDeletion`; beside it uploads, appeals, offers and stages of the user (`StoreChatPhoto` to `WriteWork`) and the answer of the other side (`AnswerBid`) |
| `Reviews` | `reviews`, `rating` (the set of reviews it was computed from), `gone`, `writing` | `submit_announcement_review`: `ReadContext`, `InsertReview`, `ReadSummary`, `StoreRating`, `Notify`; deletion: `ReadReviews`, `CommitErase`, `EndErase` |
| `Moderators` | `awaited`, `joined`, `talk`, `chair`, `side` | `join_dispute`, `post_dispute_message`: `BeginTalk`, `ReadHook`, `CommitJoin` or `CommitPost`; the handlers of the sides that write the hook: `ReadSide`, `WriteSide`, `AgreeOption`, `Escalate`, `TurnFailed` |
| `CircuitBreaker` | `failures`, `opened`, `attempt`, `failed` (history) | `call_external_sync`: `StartCall`, `CallSucceeds`, `CallFails`, `RetryCall`; time: `Elapse` |
| `RateLimit` | `now`, `counter` (Redis), `guest`, `came`, `admitted` (history) | `app_rate_limit_middleware`, `enforce_rate_limit`: `Arrive`, then `Incr` and, for a new key, `Expire` per rule; `GuestDies`; `ClockTicks` |

`MCServices` composes the twelve by interleaving. They share tables (a
deletion ends sessions, reviews and restrictions), but none of them reads what
another one writes to decide anything, so each states in its own variables what
the others may do to it (`EraseData`, `EraseMeasures`, `CommitErase`, `WriteSide`)
and the runs let one component move at a time: the variable `focus` says which.

## 4. Runs

The constant `Overlap` says whether users' requests may overlap (below). Every
disjunct of the next-state relations fires in a passing run. Deadlock is
not checked: once all disputes are closed, all offers answered and all bounded
faults used, nothing need be left to do; users are never obliged to act; and
the components of `MCServices` come to rest at their bounds.

| Run | Bounds | Shows |
|---|---|---|
| `dispute_overlap` | `Overlap`; either one dispute with 2 options and a performer who wavers, or two disputes of one thread whose sides agree on one option; 1 slot per side, 2 turns | type invariant; `NothingImposed`, `EscalatedForCause` although requests overlap; `OneActiveDispute` although closed disputes come back |
| `dispute_serial` | no `Overlap`; 1 dispute, both sides and a moderator, 2 turns, all ballots over 2 options, one restart, dying request or dying turn | `TurnExclusive`, `NobodyWaitsInVain`, `ClosedIsFinal`, and refinement: `ImplementsProtocol` |
| `dispute_fair` | `Overlap`, `FairSpec`; 1 dispute, 1 option, one dying request or raising turn | liveness: `TurnEnds` |
| `dispute_lost_turn` | no `Overlap`, no faults | **violated**: `ThinkingIsServed` |
| `dispute_unclosed` | `Overlap`, no faults | **violated**: `ClosedIsFinal` |
| `task_overlap` | `Overlap`; 2 performers with an offer each, the customer, at most two requests at once (`TwoAtOnce`), one dying request; no administrators or photos | type invariant, `OneActiveAssignment`, `StageEarned`; `NoOpenOffersOnAssigned`, `CountAtRest`, `StageForward` but for what overtaken requests write |
| `task_serial` | no `Overlap`; 2 performers with an offer each, the customer, an administrator, photo checks and one dying request | `TaskAndWorkAgree` |
| `task_stale` | `Overlap` | **violated**: `AcceptedStaysAccepted` |
| `settlement` | requests of 0 and 300, 0, 70 and 90% acceptable, either side opens; no answer, one with two options, one of 0, 1 and 0 roubles, and three that have amounts, percentages, zeros or nothing; single and several picks, adjustments inside and outside of the range | type invariant, `EnoughToChoose`, `FairSettlement`, `MostCompromise` |
| `settlement_second_round` | request 300, 90% acceptable, no answer of the model | **violated**: `SecondRoundCloser` |
| `services` | every component of `MCServices` in turn, two requests at once in each (below) | type invariants and the 19 properties listed below |
| `restrictions_refused` | `Restrictions` alone; no moderator is known as a user | **violated**: `ResolutionRestricts` |

The properties of `services`:

| Component | Instance, states | Properties |
|---|---|---|
| `Sessions` | 1 account, 2 sessions of which one is refreshed, 2 requests, 2 rotations, 1 lost answer; looked at once without resets (focus `refreshes`, 92,000) and once with 1 reset token and no refreshes (focus `resets`, 46,000) | `ClientKeepsUp`, `NoLateAdmission`, `TimeHeals` (liveness) |
| `AdminAccess` | 2 administrators, one there at the start, 2 sessions, 2 requests; 29,000 | `AnAdminRemains`, `NoSessionWhileDisabled` |
| `Restrictions` | 1 report, 2 restrictions, 2 moderators of whom one is known as a user; 110,000 | `LiftedIsOver`, `OutcomeHasRestriction` |
| `ChatHub` | 2 sockets, 2 posts at once, 2 messages; 79,000 | `NothingMissed` |
| `ChatReads` | 2 users and the system, 2 messages (the older of which a late receipt can name); 3,000 | `TruthfulReceipts`, `NothingUnreadAgain` |
| `Support` | 2 threads, 0 to 2 of them older than the tickets, 2 requests; 71,000 | `QuietCallHeals`, `UserStaysHeard` |
| `AccountData` | 1 photo in a message, 1 of the announcement, 2 requests, all or some categories; 65,000 | `ReferencedIsStored`, `NothingLiveOfDeleted` |
| `Reviews` | 3 users, 2 jobs that share one, which may leave, 2 requests; 88,000 | `QuietSetsRight` |
| `OfferThread` | 2 listings, 2 threads; 3,000 | `ThreadSettles` |
| `Moderators` | 2 administrators, 2 requests of either, 1 request of a side; 30,000 | `IntroducedFirst` |
| `CircuitBreaker` | 2 callers with 2 retries, threshold 3, window and opening of 2; 2,400 | `OpensForCause`, `TimeHeals` (liveness) |
| `RateLimit` | two rules (1 per 1, 2 per 3), 3 requests, two at once; 68,000 | `WithinLimits` |

Why these bounds. In the components of `MCServices` a hazard is always one
request between two statements of another, so two requests reach it; each
instance has the second row (session, administrator, restriction, socket,
thread, reviewed user) that a wrong choice would have to hit, and its limits (threshold,
window, retries) are the smallest in which reaching and exceeding differ. Two
rotations are what lets a second refresh with a spent token do harm. A reset and a
refresh do not meet in a run (a reset revokes the sessions as `RevokeAll` does,
which meets every refresh); the theorems about `Sessions` cover them together.

The shortest interference in either model needs two requests
and one row; two slots (three with a moderator) reach it, and the second turn
is what makes the slot contended. Two options give agreement, disagreement and
overlap of ballots; two disputes give reopening. In `Task` two performers are
needed for losing offers and for a second acceptance after a cancellation. A request
is overtaken by one other, so `task_overlap` has two at a time; the theorems about
`TaskRaces` are for any number. One
fault at any step reaches every prefix of every handler; two unrelated faults
add combinations, not new kinds of remainder. `Turns` bounds the asyncio tasks
alive at once: a request that cannot schedule a turn waits, which loses no
behaviour of safety and is why fairness is not asked of anything it depends on.
In `Settlement` the percentages give a gap of all, 30% and 10% of the request,
so a target of 5, 4 and 3 options; a request of 0 takes the branches that have no
amount to go by; the answers reach the fallback, an expansion from one amount
and from none, and the amounts put sums on both sides of a rounding. What the
bounds cannot show, larger amounts, is what the theorems of `SettlementProofs`
are for.

Turns are interchangeable, so the runs that check only invariants of overlapping
requests reduce by symmetry; the liveness and refinement runs do not.

`Overlap = FALSE` (in `Dispute` and `Task`, `MayBegin`) lets the users' requests run one
after the other while model turns, moderators, administrators and faults stay
concurrent. **The code does not enforce this.** The properties checked under it
say what each handler delivers when no other user's request interferes; the
violated runs say what happens without the assumption. The theorems about these
properties assume `~Overlap`; all the others hold for both values. In `Task` only
`TaskAndWorkAgree` is such a property: it is about administrators and photo
checks, which stay concurrent. Offers, stages and the counter are written by users'
requests alone, so what is said of them is said with `Overlap` and with deaths,
and what may go wrong is named request by request instead (`TaskRaces`): an
overtaken request may spoil the row it writes, no other one, and only until the
next acceptance or refresh.

Fairness. In `MCServices` only time is fair: weak fairness of `Tick` and of
`Elapse` says that clocks run, which is all that `TimeHeals` needs. No request,
client or user is assumed to do anything. `FairSpec` asks weak fairness of the statements of a started request
and of the steps of a started model turn, because the thread pool and the event
loop run what they have started. Users, moderators, deadlines and faults get
none. Weak fairness of the whole turn is enough: from `calling` on, exactly one
statement comes next whatever the rest does. The bound on faults is what lets a
turn that fails hand the dispute over; with the database away for good
(`"turn dies"`) the dispute may stay in `model_thinking`, so that fault is not
in this run.

## 5. What the violated runs show

1. **A model turn is lost** (`dispute_lost_turn`, `app/disputes.py:1723`). The
   turn that asked the questions has updated the row and still posts its
   message; the sides answer at once; the answer schedules a turn, which finds
   the slot taken and returns. Nothing schedules another: the dispute stays in
   `model_thinking`, where no user action is accepted, though the sides were
   told that the model continues.
2. **A closed dispute is reopened** (`dispute_unclosed`, `app/disputes.py:759`).
   The counterparty's form, or the time-out of a reader, was checked before the
   acceptance and is written after it.
3. **An accepted offer is un-accepted** (`task_stale`, `app/main.py:3897` and
   `4133`). A resend or a rejection that read the offer before it was accepted
   overwrites it; the assignment stays active for an offer that is `sent` or
   `rejected` again.
4. **A second round that leaves the first** (`settlement_second_round`,
   `app/disputes.py:1191`). Round 1 offers 300, 270 and 285. The customer takes
   285, the performer 270; round 2 is announced as more of a compromise and
   offers the customer 257. The squeeze towards the middle is as the comment
   says (`SqueezeNarrows`), but the option that favours a side is then pushed a
   tenth below what this side chose, with nothing to stop it at the other end.

5. **A resolution nobody is restricted by** (`restrictions_refused`,
   `services/admin_panel/app/crud.py:3255`). The panel resolves reports under
   the id of an `admin_accounts` row; `user_restrictions.issued_by` refers to
   `users` (`app/schema.sql:861`). The INSERT is refused and the resolution is
   rolled back with it. A time in the past is refused as well
   (`chk_user_restrictions_time_order`, `app/schema.sql:886`), because the panel
   does not look at `ends_at`; that is the moderator's mistake, while the reference
   stops every moderator whose id `users` does not have. `OutcomeHasRestriction` shows that the rollback at least
   leaves no report with an outcome that was not applied.

`EnoughToChoose` has an exception, which the proof attempt found. When round 1
offered 0 and 1 rouble and nothing else, the second round of a language model that
does not answer may offer `r2_opt_1` twice, once for 0 and once for 1 rouble. The fallback was
squeezed by `_enforce_round2_compromise`, so the same fallback is not found in
`options` any more (`item not in options`, `app/disputes.py:1085`, compares
whole dicts) and is added again. A vote for the id is then a vote for both. What
is settled on is then the first of the two as it was offered, whatever the sides
put to it: `_normalize_option_adjustments` looks the options up in a dict
(`app/disputes.py:1917`), so amounts are kept for the last one, worth 1, and
`_apply_final_compensation_adjustment` (line 1977) takes the first one, worth 0,
which it leaves. Both sides may name 50 and settle on 0; `FairSettlement` says so
(`twice`). `MostCompromise` needs no exception.

`MostCompromise` is stated for common options that do not exceed the request.
`_choose_compromise_option_id` takes the acceptable percentage of the largest
common amount instead of the request: with a request of 100, 90% acceptable and
common options of 250, 100 and 350 it takes 250, although 100 is nearer to both
sides. The message calls it the most compromise solution; what it should mean
when the model offers more than was asked is nowhere said, so it is not kept as
a run. Two sides that both name 80 for an option of 130 are asked to confirm
100: the final amount is rounded to 50 again (`FairSettlement` allows half a
step, and `SameAmountKept` proves that multiples of 50 are kept).

Two more consequences of unlocked statements appeared while modelling and are not
kept as runs either. When both sides vote (or answer) at once, one vote is lost and
the dispute waits for a side that has voted; voting again helps. And
a performer's `en_route` that was checked before `delete_announcement` cancelled the
work is written after it and revives the cancelled assignment; likewise an offer
inserted after an acceptance stays open beside the work, and a counter that was
stored late stays wrong until the next refresh. `StageForward`,
`NoOpenOffersOnAssigned` and `CountAtRest` except these writes and nothing else;
`StageEarned` and `OneActiveAssignment` except nothing.

What the models of section 3 show besides, and what therefore stands as a
condition in the properties:

* Two administrators may disable each other when their requests overlap:
  `disable_admin_account` refuses oneself only and locks nothing
  (`AnAdminRemains` asks that no two such requests have overlapped).
* A client whose refresh answer got lost holds a token the server has rotated
  away (`ClientKeepsUp` asks that none was lost).
* A late receipt moves the read cursor back (`app/chat.py:874`); the rows of
  `message_reads` keep the unread count right (`NothingUnreadAgain`).
* Overlapping first listings of an offer's thread, searches of a user's support
  thread and computations of a rating leave two threads or an old average; the
  next operation that nothing overlaps repairs it, which is what `ThreadSettles`,
  `QuietCallHeals` and `QuietSetsRight` say.
* Messages of administrators are dated by the beginning of their transaction
  (`created_at DEFAULT now()`), so of two overlapping requests of one
  administrator the message may be shown above the introduction that was
  committed before it. `IntroducedFirst` speaks of what was committed.
* A request that dies between INCR and EXPIRE leaves a counter in Redis for
  ever. Its key holds the window, so nobody is refused for it.

## 6. Proofs

All theorems are checked by TLAPS for every value of the constants that meets
the named assumptions of the modules (`BallotsAssumption`, `ActorAssumption`,
`OffersAssumption`, ...: typing of the constants, finitely many offers). TLC
evaluates the assumptions in the runs.

* `Typing` (`Spec => []TypeOK`). One lemma for requests, statements and turns
  each; `Referents` gives the types of what a slot or turn refers to.
* `Exclusion` (`Spec => []TurnExclusive`). Inductive as it stands given the
  types: only `AcquireSlot` starts work and it needs a free slot, `ReleaseSlot`
  and `Restart` are the only ways out and take the slot with them.
* `Consent` and `Escalation` (`NothingImposed`, `EscalatedForCause`). Neither
  is inductive: a handler writes what it concluded earlier. `ConsentInv`
  therefore says it of the rows (`RowInv`: also every vote and acceptance on
  record was given) *and* of every slot (`SlotInv`: the statement it is about to
  execute carries only what history has, by kind of statement). History only
  grows (`PastGrows`), so what a slot has read stays justified however long it
  waits (`RowStays`, `SlotStays`); a write moves a justified draft into a row
  (`RowWritten`, `WriteStep`). This is why lost updates are harmless for
  consent: they lose what was said, they never invent it.
* `OneDisputeAtATime` (`Spec => []OneActiveDispute`). `OneActive` states it
  without cardinality; every write of a row, that of a stale handler as well,
  is one the partial unique index allows (`RowAllowed`).
* `NoVainWait`, `ClosedForGood` and `Refinement` (`NobodyWaitsInVain`,
  `ClosedIsFinal`, `ImplementsProtocol`; `DisputeSerialProofs`). They assume
  `~Overlap` and that no turn raises. `SerialInv` says that users' requests are
  one at a time (`OneByOne`) and administrators only join (`AdminsJoin`), that
  what a request has read is still so (`Sees`) and what a turn has read as well
  (`Calls`), which votes and acceptances a row of each status has (`RowFits`),
  and that a row that is ready to move has a request that will move it
  (`Moving`). `Sees` is the heart of it: moderators and turns run beside
  the request, but write only rows in statuses in which no user's request has
  read them. Each statement, turn step and fault is then a step of
  `DisputeProtocol` under the mapping `Cases`, or changes nothing in it.
  The second hypothesis is needed: a turn whose event insert raises
  after its UPDATE hands over a dispute that users have meanwhile moved on,
  even a resolved one (TLC finds it when `"turn raises"` is put into the
  `Faults` of `dispute_serial`, which leaves that fault out too).
* `SettledByAgreement` (`DisputeSerialProofs`, same hypotheses) is what the
  refinement buys: `AgreedCases` is an invariant of `DisputeProtocol`, which
  needs no more than a look at its fourteen steps, and `Refinement` carries it to
  the rows. It says more than `NothingImposed`, which holds with overlaps as
  well: not only has each side at some time chosen the selected option, the votes
  of both still name it, in the same round.
* `TaskTyping`, including that the counter never exceeds the number of offer
  rows (`PendingType`, from cardinality).
* `TaskExclusion` (`Spec => []OneActiveAssignment`). The invariant `OneAtWork`
  states it without cardinality; acceptance looks under its lock, and a stale
  stage is stopped by the index.
* `StagesEarned` (`Spec => []StageEarned`). `EarnedInv` adds that a request
  about to write a stage saw all earlier ones reported. `reached` is monotone,
  so the request stays entitled although the assignment may be cancelled,
  completed or replaced meanwhile.
* `WorkAndTaskAgree` (`TaskAndWorkAgree`), under `~Overlap`, from `SerialInv`:
  again `OneByOne` and `Sees`; `StagesFit` (status and stage of an assignment go
  together), `WorkAccepted` (who works has the accepted offer, and no offer is
  open beside it) and `WorkShown` (the status of the task is right, or the
  request that sets it is under way). Administrators and photo checks overlap with
  everything: their decisions are stale when written, and it holds all the same.
* `NobodyLeftWaiting`, `OffersCounted` and `WorkGoesForward`
  (`NoOpenOffersOnAssigned`, `CountAtRest`, `StageForward`, of `RaceSpec`) for any
  number of requests, overlaps and deaths. `RaceInv` says of each request that is
  not overtaken that what it has read is so (`Current`); of an overtaken one
  nothing is known, and the history says which row it may have spoilt.
  A request that has just read is current (`ActsCurrent`), it stays so as
  long as nothing it read changes, because otherwise the step marks it
  (`WaitingCurrent`), and so a current one writes what it should. `OfferWriters` and
  `CountWriters` say which steps touch offers and counter at all, `AcceptanceHeals`
  that an acceptance, which looks under its locks, needs no history.
* `AdjustedInRange`, `FinalAmountFair`, `SameAmountKept`, `SqueezeNarrows`: the
  arithmetic of `Settlement` for amounts of any size. `RoundHalves` and
  `StepNear` bound what a rounding moves; since the middle of two amounts of a
  range lies in the range, the final clamp only moves the amount back towards it.
  `FinalAmountFair` is the arithmetic part of `FairSettlement`.
* `SettlementTypes`, `ThreeToFiveOptions`, `SettlementIsFair` and
  `CompromiseTaken` (`TypeOK`, `EnoughToChoose`, `FairSettlement`,
  `MostCompromise`), for every request, percentage and answer of the model.
  `SettleInv` says that what is offered is well formed (`Shape`), that votes are
  for what is offered (`VotesFit`) and lie in its range (`Offering`), when votes
  exist (`Stages`) and that at most one offered option is selected (`Selecting`).
  The proofs follow the code: one lemma says what adding one option keeps
  (`AddAmountKeeps`: the options so far, ids of their own, at most the target),
  and `Fill` and `Arrange` apply it five times; `FallbackTwice` isolates the
  exception above, where `Sound` still says how close the doubled options lie.
  `ChooseIs` and `LeastTuple` say that the choice is a least tuple of `Score`;
  `MiddleWins` is the arithmetic by which the least one is nearest to both
  sides, and `MiddleWinsCorner` the same for the doubled options. `TwiceIs` says
  that a doubled id leads to an option worth nothing, and any other to the same
  option whether the first or the last one is taken. `FinalIs`
  carries `FinalAmountFair` to the option written back, `AgreeIs` to the step.

* `ReceiptsTrue` and `ReadStaysRead` (`ChatReads`). `ReadsInv` adds to the types
  that whatever is marked lies in the log, was shown (or something later was)
  and is of somebody else, and that all a handled receipt covers is marked; the
  cursor, which moves both ways, is not needed.
* `WithdrawnStays` and `SomebodyRemains` (`AdminAccess`). `WithdrawnInv` says of
  requests under way what `NoSessionWhileDisabled` says of rows: a login or
  refresh that has yet to issue a session for a disabled account was marked when
  the access was withdrawn. `RemainInv` adds that, as long as no requests on
  accounts have overlapped, whoever is about to disable another administrator
  is an active one itself.
* `LockIsCounted`, `NoneAdmittedLate` and `ClientIsServed` (`Sessions`).
  `LateIsOver`: a request marked late is about a session or an account that is
  over, and over is for ever. `TokenInv` orders the rotations of a session:
  what was sent was held, what is held is not newer than the row, an answer
  under way is exactly the row's and there is one at most; so a repeated refresh
  finds no row and changes nothing.
* `StorageKept` and `DeletedIsGone` (`AccountData`), one invariant
  (`AccountInv`): unless a request ran beside a deletion, the keys of rows are
  keys of stored objects, and a deletion under way removes only objects no row
  refers to any more.
* `LiftedStaysLifted` and `OutcomesAreReal` (`Restrictions`). `RestrictInv` adds
  what a request may write (`VerdictsFit`) and that a restriction keeps for whom
  and for what it was made (`RowsStay`), whatever stale writes come.
* `HeardWhenIntroduced` (`IntroducedFirst`, `Moderators`). Not inductive: what
  is written depends on the hook a handler has read. `HooksKnown` says that
  every hook read, by administrators or by the handlers of the sides, names
  nobody or somebody the sides have been told of; messages stay, so this cannot
  become false while the handler waits.
* `SettledStays` (`ThreadSettles`, `OfferThread`). `AloneSettles` follows a
  request that nothing has overlapped statement by statement; `SettledForGood`
  says that once such a request has returned a thread, table and links agree on
  it and every later request has read it, overlapping or not.
* `NoMessageMissed` (`NothingMissed`, `ChatHub`). `HubFollows`: open
  sockets are in the list, only broken ones are on a list to be cleaned.
* `QuietCallsHeal` and `UsersStayHeard` (`QuietCallHeals`, `UserStaysHeard`,
  `Support`). `AloneHeals` says how far a request that nothing has overlapped
  has come: which threads the user still sees and which of them are on its list
  to close. `OneThread` adds that without overlaps the thread given once is
  the one found again. `ThreadsListed` is what makes the walk over the threads
  complete.
* `QuietRatings` (`QuietSetsRight`, `Reviews`). `AloneRelies`: what a request
  that nothing has overlapped has read of reviews and ratings is still so.
* `NeverOverTheLimit` (`WithinLimits`, `RateLimit`). `CountsAll`: while a window
  lasts, its counter has counted all requests let through and all those under
  way that it has not refused; it cannot expire before (`RowFits`), whichever of
  two requests sets the expiry, and whichever dies.
* `LimitTyping` (`LimitTypeOK`). That a counter never exceeds the number of
  requests is not a matter of types: `NumbersFit` says that what a counter shows and
  the requests that have yet to reach it (`Ahead`, `YetToCount`) are together no
  more than have come, by cardinality; a request takes the rules in order
  (`RulePasses`, `RuleBehind`), so it counts at each of them once.
* `OpenedForCause` (`OpensForCause`, `CircuitBreaker`). `BreakerInv`: the
  failures on the list are in order of time and are the latest of the history.

* `EachComponent`, `ServicesTyping` and `ServicesKeepPromises` (`ServicesProofs`).
  A step of `MCServices` is a step of the component that has the focus and leaves
  the others alone, so a behaviour of the composition is one of each component
  (`StepOfEach`). Every theorem about a component is therefore one about the
  specification that `services` checks: its type invariant `ServicesTypeOK`, its
  safety properties (`Promises`) and `OpensForCause`, for every focus and every
  value of the constants.

Only model-checked: liveness (`TurnEnds`, `TimeHeals`) and ENABLED, which are out
of the prover's reach. Every safety invariant and action property of a passing
run is stated by a theorem. Of the properties of violated runs, which are false
of the code, `ClosedIsFinal` is proved under the condition whose absence the run
exploits; nothing is proved about the other four.

## 7. Plan

Done: sections 3 to 6. What would add most, in this order:

1. `AccountData` composed with `Task` and `Dispute`: what the deletion of a
   performer's or customer's account leaves on the tasks of the other side.
2. Assignment of support threads to administrators; the lock and the expiry of
   administrators' sessions.

## 8. Not modelled, and why

Detectors, the language model, geocoding, storage and push delivery are
external services whose answers are inputs. Route planning is floating-point
geometry without state. Notifications, devices, profile fields, audit and
metrics are written and not read back to decide anything. Migrations and
bootstrap run once; configuration, logging, encryption of phone numbers and the
admin panel's pages have no protocol state. The retry of `_run_query` after a
disconnect may apply a statement twice; the statements modelled outside
`transaction()` set columns to values or insert rows with ids the request has
fixed, so the repetition has no effect the models could show.

Parts of modelled components that are left out: the withdrawal of offers and the
deletion of disputes by account deletion, as seen by the other side's task and
dispute (`AccountData` follows the user's own rows); assignment, priorities and
lists of support threads; the lock after failed logins and the expiry of
sessions of administrators; texts, attachments and previews of messages other
than the unread count; audit rows, notifications and e-mails that follow from
an operation.
