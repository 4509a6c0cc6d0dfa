# Slowchat in TLA+

A verification project for the server of slowchat (`src/apps/im-server`) and the protocol its
client library follows (`src/packages/sdk-core`). It models what several processes do to shared
state at the same time: API handlers on the rows of a conversation, and event workers on the
outbox, the RabbitMQ queues and the consumer inbox, clients on their sync feed and their tokens,
and requests on accounts, uploads, contacts and single messages. TLC checks the models on small
instances; TLAPS proves every safety property that the passing runs check, the two refinements
among them, for every value of the constants. Liveness is checked by TLC alone.

`PROJECT.json` lists the components, runs, mutants, the source lines each definition stands for,
the hazards and the theorems. Paths below are relative to `src/apps/im-server/src` unless they
say otherwise.

## 1. Inventory

Four kinds of processes share PostgreSQL, Redis and RabbitMQ: the API (REST), the gateway
(Socket.IO), the event worker (relay and consumers) and the media worker (`compositions/`).

| component | state | operations | what makes it hard, and correct |
|---|---|---|---|
| message commands (`modules/messages`) | `conversations.last_seq`, `messages`, `outbox_events`, state rows | sendText, sendMedia, forward; recall, reactions, hide, clearHistory | checks read before a row lock and not again after it; retries with one `clientMessageId`; rollbacks after a seq was taken. Seqs dense, one message and one event per client id, answers that agree |
| conversation commands (`modules/conversations`) | `conversation_user_states` | createDirect, read, delivered, updateSettings, hide | cursors written by sends, receipts, clears and rejoining members. Cursors ordered and monotonic, the cached counter not below the true one |
| group commands (`modules/groups`) | `group_profiles`, `conversation_members`, invites, join requests | create, updateProfile, invite, decideInvite, requestJoin, decideJoinRequest, remove, leave, transferOwner, disband, updateMember | invites that outlive their reason, members that come back, rows saved from stale entities. One owner, the limit kept, state rows present, deletion final |
| outbox writer and relay (`modules/outbox`) | `outbox_events` with status, lease and attempts | append, claim, publish, mark, record error | several relays, leases that run out, a crash between confirm and mark. A published event is not lost, a final row stays final, every row settles |
| RabbitMQ service (`platform/rabbitmq`) | one connection with two channels per process; queues, retry queues, dead letters in the broker | connect, publish with confirm, deliver, acknowledge, retry, park, reconnect | one connection shared by the relay and two consumers; acknowledgements on closed channels |
| realtime dispatch, sync projection (`modules/outbox`, `modules/sync`) | `consumer_inbox_events` with leases; sockets, `user_sync_events` | claim, work, mark, release | duplicates, slow handlers, handlers without a channel. Work at least once or parked, one at a time |
| sync queries (`modules/sync`), SDK sync coordinator | device cursor, the client's cursor and seen set | sync, events, snapshot, applyResponse | ids that commit out of order, expiry, gaps. No event skipped |
| auth, rate limiter, devices (`modules/auth`, `modules/devices`), SDK token manager | sessions, refresh token families, devices, challenges, Redis counters | register, login, refresh, logout, changePassword, reset, revoke | rotation against retries, revocation against logins under way, two-call counters |
| media (`modules/media`) | attachments, upload sessions, objects, the job queue | create, complete, cancel, get, process, expire | cancel, completion, expiry and the worker on one upload; crash before enqueue, stalled jobs. A job for what is PROCESSING, an object for what is READY, outcomes told once |
| contacts (`modules/contacts`) | requests, friendships, blocks | request, decide, delete, block, unblock | requests against blocks, checks that are not repeated. A block ends contact, decisions are final |
| users (`modules/users`) | the account, its privacy | deleteCurrent; profile, privacy | a deletion against logins, requests and blocks under way. Nothing of the account stays |
| gateway (`realtime/`) | sockets and rooms | connect, commands, revoke | a revocation against a connection that is being accepted. Sockets of revoked sessions are told |
| queries (`*-query.service.ts`) | none; a client's walk over pages | list, search, get, history | rows that move between two pages, cursors coarser than the column. Nothing untouched is missed or repeated |
| contracts, configuration, logging, storage, entrypoints | none | | no protocol of their own; not modelled |

Interactions: a command writes its rows and an outbox row in one transaction; the relay publishes
the row to the domain exchange; the broker routes a copy to the realtime and the sync queue; the
realtime consumer emits to sockets through Redis, the sync consumer writes one feed row per user
of the audience; a client takes what it missed from the feed.

The hazards, each at its line, are in `PROJECT.json` under `hazards`; those without a property say
why.

## 2. Modules

### The conversation

| module | models | how |
|---|---|---|
| `Conversation` | the rows of one conversation, `AppendMessage`, and the initial state (a direct conversation, or a group just created) | a variable per table; `req` holds the handlers in the middle of a transaction, `accepted` what clients were told |
| `Messaging` | `MessageCommandService.sendText`, `ConversationCommandService.read` and `delivered`, `AdvancedMessageCommandService.clearHistory`, the blocks row | a send is lookup, member read, policy read, then either commit or duplicate, then the answer |
| `Group` | every command of `GroupCommandService`, with its system message | one action per command |
| `Chat` | both together, the properties | `Next == MessagingNext \/ GroupNext` |
| `MessageLog` | the abstract promise: an append-only log and acknowledgements of its entries | `Chat` implements it, `Log` maps the message rows to the log |
| `MCChat` | instances for TLC | |
| `ChatProofs` | theorems: types, the log, answers, cursors, the refinement of `MessageLog` | |
| `ChatMemberProofs` | theorems: members, owner, the counters `member_count` and `unread_count` | |

Steps follow READ COMMITTED: a statement before the row lock that serialises its transaction is
a step of its own, because others commit between such statements; from that lock to COMMIT nobody
can see or change the rows, so that is one step. `UPDATE conversations ... RETURNING last_seq` is
such a lock for senders, `FOR UPDATE`/`FOR SHARE` of the conversation for receipts and group
commands. A group command locks first and is therefore one step; a send checks first, and a clear
reads `last_seq` first, and these are split. `Abort` ends a handler anywhere: a thrown error, an
aborted transaction, a lost answer. What was not committed leaves nothing.

Two group commands can both take the conversation `FOR SHARE` and then deadlock on the update;
PostgreSQL aborts one. What commits is one after the other, as in the model; which commands can
meet this way is the matter of `RowLocks`.

Contents, names and times are abstract: a body is a model value (equal iff its hash is), a mute
ends by `MuteExpires`.

### The delivery of events

| module | models | how |
|---|---|---|
| `Rabbit` | `RabbitMqService` and the broker: connection, routing, retry and dead-letter queues, deliveries, what a handler does with its outcome | a queue counts copies `<<event, attempt>>` by how often the broker took them back; `requeued` counts those returns; `job` is what each message handler is doing, `held` whether the broker still waits for its acknowledgement |
| `OutboxRelay` | `OutboxRelayService` and the rows that commands append | an iteration claims a batch with a lease and publishes it in the order of `created_at`; every statement may fail |
| `Consumer` | `RealtimeDispatchService.dispatch` and `SyncProjectionService.project`, which have the same protocol | claim the inbox row, work, mark, or release; `done` is the set of effects |
| `Delivery` | all of it in one process per worker, with crashes and lost connections, fairness and the properties | |
| `AtLeastOnce` | the abstract promise: a task leaves its queue only after its effect, as a dead letter, or when it was given back more often than a limit allows | `Delivery` implements it, `Promise` is the mapping |
| `MCDelivery` | instances for TLC | |
| `DeliveryProofs` | theorems: types, the inbox, published rows, one worker at a time, the refinement of `AtLeastOnce`, each with the broker's limit | |

Points that shape the model: the worker id belongs to the process, so handlers of one process
share a lease; `handleDelivery` publishes retries with the process's current publisher but
acknowledges on the channel the message came from; a handler that cannot settle its message closes
whatever connection the process has by then; the retry exchange is bound for `realtime.<n>.#`
only; a retry comes back through the domain exchange and so reaches both queues. A lost
connection leaves an outstanding confirm either rejected or unanswered; in the second case the
relay of that process waits for ever (`"hung"`), and only another relay can go on.

The delivery limit of the broker is part of the model. The queues are quorum queues without an
`x-delivery-limit` and without a dead-letter exchange (`rabbitmq.service.ts:184`, `210`), and the
repository pins RabbitMQ 4.2 (`src/deploy/docker/compose.yml:51`), whose default drops a message
that was given back more than 20 times. A copy in `ready` therefore carries its count of returns
(`Entries`), `Returned` takes back only copies that are within `DeliveryLimit`, and the history
`requeued` counts the returns of an event, of all its copies, up to one beyond the limit. Only
deliveries that are given back count: retries of the realtime consumer are new messages with a
count of their own, so that only lost connections and crashes use up its limit, while each
unroutable retry of a sync delivery does.

Graceful shutdown is a crash in which the current step is finished; it adds no behaviour.

### The services around it

No two of these modules share state, and each is a specification of its own. `MCServices` takes
their product with a variable `focus` that says which of them moves: a property of one module is
violated in that product exactly if it is violated in the module alone.

| module | models | how |
|---|---|---|
| `RowLocks` | the row locks that commands on one group take | each command is a script of stages, a stage a mode and a set of rows, locked one by one in any order; `held` lasts to the end of the transaction. What is written is left to `Group` and `Messaging` |
| `MessageActions` | `recall`, `addReaction`, `removeReaction`, `hideMessage`, and `MessageQueryService.get` and `history`, on one message | the recall is lock, audience, commit; a reaction is `INSERT ... ON CONFLICT DO NOTHING`, later the read of what there is, then the commit; roles change in between |
| `Contacts` | `ContactService` on one pair, `UserService.deleteCurrent` as to relations, `createDirect` as to `direct_key` | the checks of a transaction are one step and its writes another; only a decision locks a row |
| `Sessions` | logins, logouts, password changes and resets, `DeviceService`, `deleteCurrent`, and `PlatformGateway`'s handshake | `issueSession` is advisory lock and device read, then the writes; commands that end several sessions list them first; sockets are told after the commit, from memory |
| `RefreshTokens` | `refresh` with rotation and reuse, and the SDK's `TokenManager` | the client's one `refreshPromise`, answers that get lost, a client closed in the middle and started again |
| `Challenges` | `createChallenge`, `consumeChallenge`, `register`, `confirmPasswordReset`, and their limits | a transaction holds the challenge row, tried for one purpose, from the attempt to its commit, and may fail after it; `spent` counts what each code did, by purpose |
| `LoginLimiter` | `AuthRateLimiterService` around `login` | check, verification, `INCR`, `EXPIRE`: four steps, and a process can stop between any two |
| `SyncFeed` | rows of one user's feed, `SyncQueryService.events` and `snapshot`, the SDK's `SyncCoordinator` | ids are taken at the insert and seen at the commit; a call fetches, applies event by event, stores its seen set, stores its cursor |
| `SyncRanges` | `SyncQueryService.sync`, `findMissingRanges`, `messageRange` | messages, memberships, clears and hides of several conversations; the page and each range are read by a statement of its own |
| `Media` | one upload, its attachment, object and two jobs | `complete` locks the session, everyone else reads it unlocked and saves later; BullMQ has attempts and stalled jobs; every statement of the processing job may fail, also those outside of its `try` and in `markFailed` |
| `Pages` | the lists of conversations, messages found, contacts and members | a walk over pages with the cursor each page ends with; the database's clock has more digits than the cursor |
| `MCServices`, `MCSyncRanges` | instances for TLC | |
| `SessionProofs` | theorems about `Sessions` | |
| `TokenProofs` | theorems about `RefreshTokens`, `Challenges` and `LoginLimiter` | |
| `FeedProofs` | theorems about `SyncFeed`, `SyncRanges` and `Pages` | |
| `ActionProofs` | theorems about `MessageActions` and `RowLocks` | |
| `ServiceProofs` | theorems about `Contacts` and `Media`, and the types of all services together | |

History variables are marked as such where they are declared (`crossed`, `passed`, `overtaken`,
`lost`, `moved`, ...). Each records that one named race happened, and properties except exactly
that race: the exception says what the code does not guarantee, the rest is what it does. The
exceptions are listed in section 5.

## 3. Runs

All runs switch deadlock checking off: handlers come to rest when the bounded ids, seqs or events
are used up.

| run | instance | shows |
|---|---|---|
| `direct` | 2 users, 2 handlers, 1 client id each, 2 bodies, 2 seqs | one message and event per client id (`MessagesHappenOnce`), true and agreeing answers, refinement of `MessageLog`, ordered cursors |
| `group_members` | 3 users, no sends, 5 seqs, three kinds of profile | state rows and the single owner (`MembersAreSound`), `member_count`, the limit |
| `group_chat` | 2 users, 1 handler, 3 seqs, everything | types, dense seqs, counters and cursors with leaving and returning members, deletion is final |
| `realtime_delivery` | 2 processes, 1 event, 1 retry, 2 faults | types, effects behind the inbox status, published rows stay, one handler at a time, refinement of `AtLeastOnce` |
| `two_consumers` | 1 process, both queues, realtime work always fails, 1 fault or a second, malformed event in the batch, a delivery limit of 1 | nothing published is lost but what was given back more often than the limit, although retries of one queue reach the other and break the connection |
| `delivery_settles` | 2 processes, realtime work always fails, 1 fault | liveness: rows settle, deliveries end |
| `services` | ten modules, see below | 17 properties: locks, recalls and reactions, contacts, sessions and sockets, tokens, codes, the login limit, the feed, uploads, pages |
| `sync_ranges` | 2 conversations, 3 messages, pages of 2, ranges of 1 | no answer leaves a gap; liveness: a member gets the whole feed |
| `removed_sender` | violation | a send commits after its sender was removed |
| `ownerless_group` | violation | a stale invite demotes an owner |
| `sync_retry` | violation; 1 process, the sync queue, 1 crash, the limit of 20 | a published event is neither projected nor parked: after one crash in a projection the broker drops it |
| `sdk_stalls` | violation | a client never gets past an id that another user's row took |

Why the bounds are enough to be interesting: two handlers on one client id with equal and other
content reach every outcome of the unique index; three seqs let a member leave, miss a message and
return; three users let a third act on an owner and a member at once. For deliveries, two processes
give a lost lease another owner, one retry separates a first from a last attempt, and two
faults allow a lost connection followed by an early lease expiry, or a slow relay followed by a
refused publish. `MaxSeq`, `MaxFaults`, `MaxCopies`, `MaxAttempts` and `Tries` are the bounds; the
last two are settings of the code. `Slots` bounds the handlers per process and queue; the code's
bound is the prefetch. `two_consumers` has the constraint `SecondRowOrFault`: a second row or a
fault, not both, and `FewCopies`: at most two copies of an event on their way to one queue or with
a handler of it. `DeliveryLimit` is 1 in the passing runs, so that both a copy that returns and one
that is dropped occur, and 20, the broker's, in `sync_retry`. `Slots` is one handler per process and
queue in all runs: what two handlers of one process do to a shared lease is left to the theorem
`WorkedOneAtATime`, which has any number.

The counterexample of `sync_retry` takes one failure. The process stops while a projection is at
work, which gives its delivery back a first time. The inbox lease of the old process lasts 30 s
(`RABBITMQ_CONSUMER_LEASE_MS`, `platform/config/config-loader.ts:35`), and each copy delivered
meanwhile is refused as busy: that asks for a retry, no queue takes it, the handler closes the
connection, and `scheduleReconnect` opens the next one a second later (`rabbitmq.service.ts:313`).
Twenty such rounds fit into what is left of the lease, after which the broker has dropped the
event, whose row says PUBLISHED. A projection that fails for as long, because the database is out
of reach, ends in the same way.

The instance of `services`, by module:

| module | instance | why it is enough |
|---|---|---|
| `RowLocks` | 3 transactions, 2 users | a ring of two or three, and every pair of commands by one or two users. `ActionProofs` covers any number |
| `MessageActions` | 2 members, 2 requests | a recall or a second reaction against every step of the other request |
| `Contacts` | 1 pair, 2 requests, 1 friend request | both directions of a request or block at once. `direct` and `Unblock` let the pair go round |
| `Sessions` | 2 devices, limit 1, 2 requests, 2 sessions, 1 reset | a new device at the limit, and two logins, or a login and a removal or reset, in each other's way |
| `RefreshTokens` | 2 sessions, 4 tokens | reuse after rotation, with a second family on the device |
| `Challenges` | 2 attempts, 1 send an hour, 2 codes, 2 requests | two requests on one code, the last attempt, a code for each purpose, and either tried for either |
| `LoginLimiter` | limit 2, 3 logins, 2 losses | more logins past the check than the limit has left |
| `SyncFeed` | 3 ids, pages of 2, 1 call | an id that commits late, a full page and the row after it. `FeedProofs` covers any number of calls |
| `Media` | 2 requests, 2 workers, 2 attempts, 1 stall | cancel or get against complete, two workers on one job, and a first and a last attempt to fail |
| `Pages` | 3 rows, pages of 1, 2 microseconds to the millisecond, 3 times, 1 row changed in a walk | two rows of one millisecond and one of the next, every order of pages, any changes before the walk and one between any two of its pages |

Several properties of `services` are conjunctions of named parts, which their modules comment one by
one: `ActionsAreTold`, `RelationsEnd`, `RevocationsHold`, `RefreshesAreSafe`, `CodesWorkOnce`,
`LoginsAreLimited`, `UploadsAreWhole` and `ListsAreWhole`.

In `SyncRanges`, the `given` last seqs that a client may send are any up to `last` (the SDK sends
none), and a message is hidden only after it was posted. In `Pages`, `MaxMoved` bounds the rows
that change during a walk; rows that nothing changed are what the properties speak of.

Symmetry is used for users, handlers, ids and bodies where no constant names them, and for
processes, never with liveness. In `services` one swap exchanges the two requests of every module at
once: only the module in focus moves, the others are in a state that no swap changes.

Fairness (`Delivery!Fairness`): the relay's timer and the handlers' promises run on (weak
fairness of each relay and handler), the broker lets delays pass and the client reconnects, leases
run out, and a waiting copy is delivered again and again possible and so at last (strong
fairness per copy: queues are first in, first out). Only steps that are no fault are fair. The
conversation model has no liveness: each handler is a transaction that ends or aborts.
`SyncFeed!FairFeedSpec` makes a client call again and again and each of its promises run on
(strong fairness, since the client may be closed in between but not every time);
`SyncRanges!RangesFairness` makes it call and the server read and answer (weak fairness: these are
the steps of one client that waits for nobody). Neither makes rows appear or users come back.

## 4. Proofs

Every constant is arbitrary within the `ASSUME` of its module, and TLC evaluates each of these on the
instances above. They ask for no more than the program has:

- `ConversationAssumption`: finitely many users, founders that fit the type, ids apart from the
  system's. `RabbitAssumption`, `RelayAssumption`, `ConsumerAssumption`: the two queues, finitely many
  slots to each, settings that are naturals (attempts and batches at least one).
- `SessionsAssumption`: finitely many devices. `RefreshAssumption`, `ChallengesAssumption`,
  `MediaAssumption`: bounds that are naturals, and values that are apart. `LimiterAssumption`:
  finitely many logins at once, a limit of at least one. `ContactsAssumption`: two users make a pair.
- `MessageActionsAssumption`: the sender is one of the members. `RowLocksAssumption`: no person is
  the one that stands for any.
- `FeedAssumption`: finitely many calls, pages of at least one row. `RangesAssumption`: finitely
  many conversations, since the ranges of a page are. `PagesAssumption`: pages of at least one row,
  at least one microsecond to the millisecond.

The bounds of the models (`MaxSeq`, `MaxFaults`, `MaxId` and so on) are any naturals, so a theorem
speaks of runs of any length.

### The conversation (`ChatProofs`, `ChatMemberProofs`)

- `TypeCorrect`: `Typed` adds that the set of message rows is finite, without which the counters,
  which are cardinalities, would have no type.
- `SeqsCorrect`, and `HappenOnce` from `DuplicatesCorrect` and `EventsCorrect`: every step writes
  nothing or appends one fresh row with its event (`StepWrites`). The inductive invariant `LogInv`
  needs the three together: the seq of the new row is new only if seqs are dense, and its event is
  the only one only if there was none beyond `last_seq`.
- `AnswersTrue`: `AnswersCorrect` needs `HandlersAreSound` (a handler about to answer holds a
  committed row); `AgreementCorrect` follows from it and the log.
- `CursorsCorrect` needs that a handler about to clear holds a `last_seq` of the past;
  `CursorsAdvance` is the step form.
- `LogRefined`: each step appends one entry to `MessageLog`, acknowledges one, or stutters.
- `MembersSoundAlways` and `DeletedCorrect` from `MemberInv`, whose part `DeletedIsEmpty` (a deleted
  group has no members) is what keeps joins and receipts out.
- `CountCorrect` and `JoinsLimited`: `StepMembership` says that a step leaves the members alone, adds
  one and counts it, drops one and counts it, or empties the group (`MembershipMoves`). Adding a row
  counts it even if it was active, so `member_count` is an upper bound and not more; the
  limit does not rest on it, as joins count the ACTIVE rows under the conversation's lock.
- `UnreadCorrect` (`UnreadInv`): the invariant is the property with the log and the members. A send
  adds at most one unread message and one to the counter; a receipt counts anew under the lock; who
  returns starts from a fresh row.

### The delivery (`DeliveryProofs`)

- `DeliveryTypeCorrect`: one lemma per kind of step; counts of copies are never negative.
- `ProcessedCorrect`: the inductive part is `EffectFirst`, a handler at "mark" or "ack" has its
  effect in `done`. It is what lets `FindProcessed` and `Ack` drop a copy.
- `PublishedStays` (the action property `PublishedIsFinal`): `PublishedIsFree`, a published row
  belongs to nobody, so the guard on `locked_by` keeps a late relay out.
- `NothingIsLost` (`PublishedIsNotLost`): `Safe(q, e)` says where e may be for q; it is stronger than
  the property, as it does not count a handler that only has to settle. `SafeKept` shows that no
  step of anybody breaks it once it holds: `EffectFirst` is needed for `Ack`, `HeldReturns` and
  `SafeReturned` for lost connections and crashes: a delivery that is taken back is in its queue
  again, or the event is worn out. The latter rests on the invariant `ReturnsAreCounted`, that no
  copy, waiting or with a handler, has come back more often than `requeued` says of its event, so
  that a copy can be dropped only when that count has passed the limit. `Routed` says that `Safe`
  holds for what a relay has sent and not yet marked, so it holds for every row when it becomes
  PUBLISHED. What is proved is thus that the delivery limit is the only way to lose an event; that
  the sync consumer comes to it after one crash is what `sync_retry` shows.
- `WorkedOneAtATime` (`OneAtATime`): `LeaseHeld`, as long as no lease of a task ran out under its
  holder, whoever works on it is of the process that holds the lease, there is one such handler,
  and the row is PROCESSING. It takes all of work, mark and release together: a second
  handler may start only when the first has let go of the row.
- `PromiseKept` (`ImplementsPromise`): each step is a step of `AtLeastOnce` or stutters. `Covered`
  says that what any handler is busy with is `Safe` without the copy it is about to acknowledge,
  so that an acknowledgement never is the end of a task that has neither effect nor dead letter.
  A lost connection, a crash, or a handler that closes its connection is one `GiveBack` of all tasks
  of which the process held a delivery (`GiveBackMaps`); tasks leave the queue in it only when
  their count of returns is beyond the limit.

### Sessions, tokens and codes (`SessionProofs`, `TokenProofs`)

- `SessionsTyped`: with `RequestsKnown` (what a request has listed are sessions there are), without
  which a request could revoke what does not exist.
- `SessionsReplaced` (`OneSessionPerDevice`) is proved as `OneLive`, that two live sessions of a
  device are one, which needs no cardinalities but at the end.
- `RevocationsKept` is three. `RemovalEnds` needs `LoginsKnow`: a login that read a device as usable
  which no longer is has been marked as crossed; that is what a session inserted later inherits.
  `ResetEnds` needs that a request which listed the sessions for a reset has listed every session
  inserted before, so that `born` of what it leaves is high enough (`ResetInv`). `SocketsTold` needs
  the same of sockets that are still joining (`SocketInv`), which can be joined by the time the
  revocation is told.
- `LimitKept` (the step property `NewDevicesRespectLimit`): `LimitInv` says that who holds the
  advisory lock still sees the device as it read it, so that the count taken under the lock holds
  at the write.
- `OneTokenToASession` (`OneLiveToken`): `Families`, a live session has a live token and two live
  tokens of one session are one, and live tokens belong to live sessions. Cardinality comes in at
  the end (`FamiliesCount`).
- `ClientsKeepTheirFamily` (`RefreshesAreSafe`): `Harmless`, until a client is closed during a
  refresh, neither the stored token, nor one held by a caller, nor one in an answer under way was
  used, and nobody asks twice with one. The property speaks of the stored token at rest only.
- `CodesSpentOnce` (`CodesWorkOnce`): `ClaimsHold` is the row lock, one transaction to a code that is
  being tried, which knows its count of attempts and tries it for what it was sent;
  `CodesAreCounted` ties the history to the rows: a consumed row was used once, for its own purpose,
  and any other not at all (`Uses`).
- `GuessesLimited` (`LoginsAreLimited`): `GuessesAreCounted` counts what was counted, what is still to
  be and what was lost with a process: the last login passes the check below the limit, so those
  beyond it were under way.

### What a client reads (`FeedProofs`)

- `HasMin` and `HasMax` give `Min` and `Max` of the community modules their meaning, from
  well-foundedness of the naturals (`WFMin`).
- `FeedTyped` and `FeedSkipsNothing` from one invariant, `FeedSound`. `CallSound` says what a call
  knows: every row up to the end of its page was applied, passed over, or is still in the page. It
  is needed because the cursor moves to the end of the page long after the page was read.
  `OldestFirst`, rows expire from the oldest on, is what lets `TooOld` find out about expired rows
  by looking at those that are left; it holds because no transaction lasts 90 days
  (the guard of `RowExpires`).
- `RangesTyped` and `NoGapIsLeft` (`AnswersLeaveNoGap`): `RangesInv` is the type, `RowsArePosted` (rows
  are of messages that were posted, none of them due), `PageIsKept` (a request reads the ranges of
  its page, whose rows nobody takes back) and `RangesAreFirst` (a range that was read still has what
  the user may see, or the first of it and says so). What the user may see of a past range only
  shrinks, but for a return to the conversation, which the property excepts (`back`).
- `ListsWhole` (`ListsAreWhole`): `WalkInv` has `ListedAbove`, a row that was listed and did not change
  is above the cursor, and `RestBelow`, one that was not listed and did not change is below it or
  shares the millisecond of some page's end. A page is defined as an ordering of rows; that there
  is one is a lemma (`CanOrder`, by a smallest set that has none), as is where it cuts the rest
  (`CutDown`). Of keys, only that rounding down keeps their order is used (`MilliDown`).

### Messages, contacts and uploads (`ActionProofs`, `ServiceProofs`)

- `ActionsTold` (`ActionsAreTold`): `RecallsAlone` (the row lock), `ReadersFound` (whoever was shown the
  text, or is about to be, is a member still or has moved, and the audience that was read has
  every member who did not move since) and `ChangesAlone` (an inserted or deleted reaction belongs
  to one transaction, so that the events still have what the table had).
- `DeadlocksShare` (`DeadlocksShareTheRow`): a deadlock is any set of transactions of which each waits
  for one in it and keeps one waiting, so rings of every length are covered. `ByScript` says that
  what a transaction holds is what the stages of its script lock so far, `Exclusively` that
  conflicting modes are not held together. Then a send or a clear, and whatever took the
  conversation's row exclusively, waits for nobody in such a set, and only a command that shares the
  row is left (`OnlySharing`).
- `RelationsAreEnded` (`RelationsEnd`): `ChecksHold`, what a transaction has read and still goes by is
  so unless it was overtaken, `DecidersHold`, the row lock of a request under decision, and
  `BlocksFind`, a block deletes the friendship it found or one that crossed it. `DecisionsStay` and
  `DirectOpenedOnce` are step properties under the same invariant.
- `UploadsEndWhole` and `OutcomesTold`: `CompletesOnce` (one completion, hence one job, and nothing told
  before it), `SessionHeld` (whoever ends an upload has seen a session that was not completed, and
  once it is, no such request or job is left that did not overtake it), `WorkersCounted` (a job has
  one worker and one more for each stall; outcomes and workers about to mark are no more than
  that) and `OutcomesInOrder`. That PROCESSING has its job has four exceptions, each a named failure
  (`Losses`) at which the code gives the job up: they are what the theorem does not cover.
- `ServicesTyped` (`ServicesTypeOK`): the invariants of all ten modules together (`ServicesInv`), by
  the step lemma of each; every step of the product is a step or a stutter of each part
  (`EachSteps`).

### Model-checked only

Liveness: `RowsSettle` and `DeliveriesSettle` of `Delivery`, `RowsReachMembers` of `SyncRanges`. Fairness
and ENABLED are beyond the prover. Every other property of a passing run is stated by a theorem;
those of the violation runs hold for no program that does what this one does.

## 5. Divergences met while modelling

The violation runs show four. Others were seen in the code and have no run of their own; where a
property makes an exception for one, it is named.

- `advanced-message-command.service.ts:229`: `clearHistory` reads `last_seq` without a lock and locks the
  state row later; a message that commits in between stays in view and is counted as read, while
  spec.md:375 has a clear move `clear_before_seq` to the current `last_seq`. `UnreadCoversUnseen`
  speaks of users who cleared nothing.
- `sync-query.service.ts:90`: the range of a conversation that the user has left while messages of it
  were unread fails the whole request with CONVERSATION_NOT_FOUND, and every later one, against
  AC-SYNC-001 (spec.md:482). `RowsReachMembers` supposes that the user ends up a member.
- `group-command.service.ts:256`: joining an OPEN group does not look at `max_members`, which every
  other way in does (`JoinsRespectLimit` says so in its exception).
- `message-command.service.ts:98`: sending moves the sender's `last_read_seq` past unread messages
  and leaves `unread_count`, which is then too high; `conversation-command.service.ts:230`:
  reading recomputes `unread_count` and leaves `mention_count`.
- `group-command.service.ts:574`: a member who returns gets `clear_before_seq = 0`; the technical
  design (344) says it only moves forward.
- `realtime-dispatch.service.ts:51`: a handler whose lease was taken over updates no row and
  acknowledges; if the new holder then fails without a channel, the effect has happened and the
  inbox row stays PROCESSING. `PublishedIsNotLost` therefore speaks of effects, not of the status.
- `rabbitmq.service.ts:210`: the sync queue has no `x-delivery-limit` and no dead-letter exchange, and
  its retries have no queue (`rabbitmq.service.ts:199`). A projection that is interrupted by one crash
  therefore reaches the broker's default limit within its own lease (section 3), and the event is in
  nobody's feed and in no dead-letter queue, while prd.md:3335 has no message lost when a worker
  exits and technical-design.md:151 promises finite retries and a DLQ. `PublishedIsNotLost` and
  `ImplementsPromise` except what was given back too often (`WornOut`, `Limit`); `sync_retry` shows the
  loss. The realtime queue has the same limit, but only lost connections and crashes count there.
- `rabbitmq.service.ts:165`: a connect that fails after `startRealtimeConsumer` leaves a consumer
  tag behind; errors of one channel (174) are only logged.
- `message-command.service.ts:148` is one of several places where what was checked is not looked at
  again: a request accepted while a block commits leaves blocked users friends, and requests,
  friendships and blocks can be written after `deleteCurrent` removed those of the account
  (`contact.service.ts:39`, `90`, `237`, against INV-AUTH-003, spec.md:94; `crossed` in `Contacts`).
- `group-command.service.ts:441`: disband saves a `conversations` entity read before the system
  message was appended; TypeORM writes what differs from the row it finds, so `last_seq` goes back
  to its value before that message (`Group!Disband`; `HighestSeq` of `Chat` accounts for it).
- `group-system-message.service.ts:67`: a system message does
  not bring a hidden conversation back, as spec.md:110 asks of new messages.
- `auth-command.service.ts:473`: the device limit is not applied to a device the account knows,
  revoked or not (`NewDevicesRespectLimit` speaks of new ones). A login whose password was checked
  before a removal opens a session on the removed device or account, which stays live and unusable
  (`crossed` in `Sessions`).
- `platform.gateway.ts:35`: a socket that joins its rooms after its session was revoked is not told
  (`missed` in `Sessions`); it is if it joins before.
- `auth-rate-limiter.service.ts:80`: a process that stops between `INCR` and `EXPIRE` leaves a counter
  that locks an identity out for good (`stuck` in `LoginLimiter`).
- `attachment-command.service.ts:79`: technical-design.md:333 has a client repeat Complete when the
  enqueue was lost; a repeated Complete answers from the row and enqueues nothing, so the attachment
  stays PROCESSING (`lost` in `Media`).
- `media-processor.service.ts:120`: the comment has the last attempt turn PROCESSING into FAILED, so
  that an attachment is not stuck. The read of the row (55) is outside of the `try`, so attempts
  that fail there end the job without `markFailed`; and `markFailed` (150) can fail in the last
  attempt itself. Either leaves the attachment PROCESSING for good, with a job that has failed
  (`"read"` and `"mark"` in `lost`).
- technical-design.md:322 has statuses of attachments move forward only; `save` writes FAILED over a
  READY of another worker (`media-processor.service.ts:152`), and a cleanup that read the
  session before Complete committed deletes the object of a READY attachment (`overtaken`).
- `sync-query.service.ts:61`: the snapshot holds the first 100 contacts, blocks and conversations and
  does not say that there are more; a client that starts from it after an expired cursor lacks the
  rest, and no event brings them. `SyncFeed!SnapshotData` is the snapshot of an account with no more
  than that, so `NothingSkipped` says nothing of larger ones.
- `device.service.ts:59`: `save` writes the columns that differ from the row it finds. A device that
  is REVOKED already, removed again while a login makes it ACTIVE, may stay ACTIVE, with the
  sessions it had ended. `Sessions!RemoveDevice` is one step and has it REVOKED; no property speaks
  of a device that is ACTIVE and has no session.
- `advanced-message-command.service.ts:121`, `201`: an insert that was ignored is recognised by an
  empty `identifiers`. `MessageActions` takes TypeORM to behave as the code expects, and no test
  looks at the events of a repeated reaction; if the library also returns the identifiers of rows
  it did not insert, a repeated reaction is announced once more, and `ReactionsAreTold` does not hold.
- `sync-query.service.ts:56`: technical-design.md:201 calls the snapshot a consistent read; its cursor
  and its data are separate statements. Lines 198 and spec.md:407 rely on ids that grow as rows
  appear; they grow as rows are inserted, and one that commits late can be behind a cursor already
  (`passed` in `SyncFeed`). The cursor saved for a device is the one sent to it, not one it
  confirmed (194).
- `src/packages/sdk-core/src/index.ts`: the coordinator sends an empty `lastSeq` and ignores the
  missing ranges it is sent; `sync-query.service.ts:137` compares ids of one user as if no other
  user's were in between. Tabs of a browser share the stored token but not `refreshPromise`, so
  each tab is a client of its own; `RefreshTokens` has one.
- `message-query.service.ts:128`, `conversation-query.service.ts` and the lists of contacts: cursors
  have milliseconds, the columns microseconds: a search misses what shares its millisecond with
  the end of a page (spec.md:376 speaks of the pair of time and id). `OnlyMillisecondsAreMissed` says
  that nothing else is missed, and of members nothing, as `joined_at` is a JavaScript date.
- technical-design.md:341: a forwarded message's source must be visible to the user; `forward` asks for
  membership and recall, not for `clear_before_seq` or hides.

## 6. Not modelled

- `forward`, replies and media messages: the same transaction as `sendText` with more checks before
  it, none of which is repeated under the lock either.
- Reports, remarks, profiles, privacy settings, muting and archiving a conversation: rows
  that one user writes and that no modelled handler decides by.
- Channels that fail while their connection stays, and a connect that fails halfway: `Rabbit` has
  one flag for the connection and its channels. Failures of the broker itself, and of the hand-over
  from a retry queue to the domain exchange, which quorum queues make at most once by default.
- `AttachmentCommandService.expire`, which nothing calls; downloads, image metadata, the rules of
  validation. That an upload ends is not stated: after a lost job it does not.
- The device's cursor row, which is written and never read.
- The SDK for browsers (adapters of IndexedDB and BroadcastChannel), contracts and mappers,
  configuration, health, logging, storage and Redis clients, entrypoints: no state of their own, or
  pure I/O whose failures are the aborts of the modelled handlers.

What would add most from here: channel failures in `Rabbit`, with a connect that fails halfway; a
second tab in `RefreshTokens`; and, for the proofs, the safety part of the liveness properties (what
a step never takes away from a row that waits).
