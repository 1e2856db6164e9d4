# Karamoozyar in TLA+

Karamoozyar is a messaging system between a training centre and its trainees: a
NestJS API (`apps/api`) over PostgreSQL with a Socket.IO gateway, and a Next.js
web client (`apps/web`) that is installed as a PWA. What is hard about it is
getting a chat message from a phone to the database exactly once over a
connection that drops, lies about being connected, or belongs to a session that
has just ended; and then keeping many small pieces of client state (lists,
badges, caches, forms) in agreement with a server that answers late and out of
order. This directory holds TLA+ models of both, the TLC runs that check them,
and proofs of the main results.

Sources are named relative to the repository (`src/` in `PROJECT.json`).

## Layout

| file | what it is |
|---|---|
| `SendPromise.tla` | what the API promises about `CHAT_SEND`, abstractly |
| `ChatServer.tla` | the API side of a chat message, in detail |
| `ChatServerProofs.tla` | its invariants; two conditional results and the refinement of `SendPromise`; proved |
| `Outbox.tla`, `OutboxProofs.tla` | the client's outbox: send cycles, recovery, retry; proved |
| `SocketClient.tla`, `SocketClientProofs.tla` | the socket facade: live socket, rebuilds, teardown; proved |
| `TokenRefresh.tla`, `TokenRefreshProofs.tla` | the tokens of a tab and the interceptor's queue; proved |
| `ChatSync.tla` | one reader's message list against the server |
| `Pins.tla` | pinned messages of a conversation |
| `MCChatSync.tla` | `ChatSync` and `Pins`, in one instance |
| `Filtering.tla`, `FilteringProofs.tla` | `Array.filter`, as a recursive function, and what it keeps; what a page cut from an ordered set holds; proved |
| `PageProofs.tla` | the invariants and the action property of `MCChatSync`; proved |
| `Composer.tla`, `Scroll.tla`, `Viewer.tla`, `Media.tla`, `Avatar.tla` | the rest of the conversation page: input and recorder, scroll position, image viewer, attachments, pictures |
| `Typing.tla` | the typing indicator |
| `Diagnostics.tla`, `LiveLog.tla` | the client's diagnostic events, and their live file |
| `Otp.tla` | login by one-time code |
| `Reactions.tla`, `Posts.tla`, `Feed.tla` | the newsletter: reactions; posts with their files; the list and its pages |
| `Inactivity.tla` | the hourly reminder by SMS |
| `Bell.tla`, `Push.tla` | the unread badge and the bell; web push |
| `ConversationList.tla`, `Trainees.tla`, `Profile.tla` | the admin's two lists; the profile forms |
| `Updates.tla`, `Shell.tla` | how a tab gets a new build; which page a tab stands on |
| `MCServices.tla` | `TokenRefresh`, the modules from `Composer` to `Avatar` and from `Typing` to `Shell`, in one instance |
| `ServicesProofs.tla`, `ScreensProofs.tla` | invariants and an action property of that instance; proved |
| `MCChatServer.tla`, `MCOutbox.tla`, `MCSocketClient.tla`, `*.cfg` | the other instances for TLC |
| `PROJECT.json` | runs, mutants, map from definitions to code lines, findings, hazards, theorems |

In a specification module, a definition whose name extends that of an action or
helper (`TxCreateWithoutIndex` before `TxCreate`), or that stands in front of the
definition it changes (`ForgetNothing` in `Scroll`), is a mutant: the change a
plausible bug would make. No specification uses it; it shows that a property can
fail. `PROJECT.json` lists one per property. `ScreensAgreeAtRest` and
`ShownIsSo` are conjunctions over several modules, and those modules have one
further mutant for each conjunct, which violates it in the same run:
`StopEditingKeepingText` (Composer), `PinchEndsWithoutSnap` (Viewer),
`UsableForever` (Media), `DiscardedShown` (Avatar), `WrittenAtStart` (LiveLog),
`LogoutKeepingUser` (Profile), `HardRefreshOnce` (Updates), `TellTheOthers`
(Reactions), `ReceiveKeepingItem` (Bell), `HandleToggleUnreadWithOldFilter`
(ConversationList), `HandleToggleStatusAgain` (Trainees).

## Inventory

| component | state | operations | talks to |
|---|---|---|---|
| **Chat send API** (`modules/conversations`, `gateways/chat.gateway.ts`) | rows `messages`, `conversations` (summary, two unread counters), `message_seen`; the unique index on `(senderId, clientMessageId)` | `CHAT_SEND`, REST send, page, edit, delete, pin, seen, mark-as-read | acks to the sender, broadcasts to rooms, push, PostgreSQL |
| **Web outbox** (`lib/outbox.ts`) | maps `outbox`, `inFlight`, `offlineWaiting`, `lastFailure`; one running cycle per message; `deliveryState` of its bubbles | `sendText`, `sendMedia`, `retryMessage`, the `online` hook, timers and callbacks of a cycle | socket facade, uploads, chat store, auth store |
| **Socket facade** (`lib/socket-client.ts`) | `socket`, `socketGeneration`, `socketHealth`, `rebuildPromise`, `disposeEpoch`, subscribers | `getSocket`, `disconnectSocket`, `reconnectSocket`, `hardRebuildSocket`, `markSocketUnhealthy`, refresh after a server disconnect, visibility hook | Socket.IO, token refresh, every consumer of the socket |
| **Message list sync** (`message-merge.ts`, `chat.store.ts`, `useMessages.ts`) | lists per conversation, cursors | join, page, merge, reconcile, remove | REST pages, broadcasts, outbox |
| **Pins** (`conversations.service.ts:298-400`, the two chat pages) | `pinnedAt`, `pinnedBy` of rows; the bar of each page | pin, unpin | room broadcast |
| **Conversation page** (`components/chat`, `useVoiceRecorder`, `useChatScroll`, `useSwipeToReply`, `useSignedAvatarUrl`) | draft, edit, reply, recorder; scroll refs; transform of the viewer; signed URLs | typing, recording, swipe, scrolling, pinch, play | outbox, uploads API, browser |
| **Diagnostics** (`socket-diagnostics.ts`, `diagnostics-*.ts`, `client-diagnostics.util.ts`) | memory buffer, sessionStorage, IndexedDB with `serverReceived`, a rate limit per socket, a live file | record, flush, ack, startup recovery, prune, live log, export | gateway |
| **Inactivity notifications** (`modules/notifications`) | `notification_log` | hourly job, SMS | SMS provider |
| **Newsletter** (`modules/newsletter`, `components/newsletter`) | posts, reactions, seen, attachments; the store | publish, edit, pin, delete, react, page | broadcasts, push, uploads |
| **Auth** (`modules/auth`, `api-client.ts`, `auth.store.ts`) | OTPs, refresh tokens, client token store, queue of the interceptor | OTP login, refresh, logout | Redis, every request |
| **Bell and badges** (`NotificationsProvider`, `notification.store.ts`) | unread counts, bell items | seed, event, mark read | gateway |
| **Push** (`modules/push`, `push-client.ts`, `sw.js`) | subscriptions | subscribe, send, prune | push services |
| **Users and admin** (`modules/users`, the admin and profile pages) | accounts, profile rows, lists | add, edit, activate, search, page, save, upload a picture | uploads, conversations |
| **Tab** (`middleware.ts`, layouts, splash page, `ServiceWorkerRegistrar`) | cookies, stored user and tokens, path, cached page, build | route, guard, log in and out, update | every page |
| **Uploads, Redis, shared package, deployment** | S3 objects or files, keys | store, sign, delete | storage |

Behaviours that are hard to test, which is what the models are for: concurrent
duplicates against one unique index; a transaction with a failing step; a crash
or a lost reply between commit and answer; acks that arrive after their
timeout; sockets that report connected and deliver nothing; sessions that end
while something awaits; overlapping rebuilds of which one was forgotten;
callbacks of objects that were replaced; pages read before and merged after an
event; two statements that are not one transaction; answers taken in any order;
files that are stored, recorded and linked in three steps; and caches that
outlive what they were made for. `PROJECT.json` lists each at its line under
`hazards`.

What makes each component correct:

* *Send API*: one row per message, success answers that name it, failures that
  stored nothing, announcements of durable rows only, exact counters.
* *Outbox*: nothing is lost before the server has it, bounded effort per cycle,
  no second try on a socket that failed, nothing sent in another session, every
  cycle ends and every bubble says what is the case.
* *Facade*: no socket of an ended session becomes live, one rebuild at a time
  as far as callers see, no state stuck, a live socket has its listeners.
* *Sync*: a message appears once, disappears only when deleted, and a list at
  rest is the database's, apart from races that are known and named.
* *Pins, notifications, OTP, push*: at most one pin of a trainee; at most one
  SMS per day and recipient; one session per code; a device shows only what is
  for the account signed in on it.
* *Screens*: what a list, badge, form, player or picture shows when nothing is
  under way is what is stored.
* *Tokens and tabs*: the stored token is the signed-in user's, every request
  ends, no circle of redirects, a tab gets the deployed build.
* *Diagnostics, files*: an event is kept until the server has it; the live file
  holds events in order; a file exists as long as its post.

**Named races.** Much of the code below the send path is optimistic and has
races its authors accepted or did not see. A property that ignored them would be
false, and one that excluded "concurrency" would say nothing. So each module
has history variables (`missed`, `unsure`, `crossed`, `raced`, ...) that are set
exactly where the code loses control: by the step at which the bad order becomes
possible, never by the bad result. The property then says that *nothing else*
goes wrong. The list under "What the models show of the code" is the inventory
of these exceptions.

## ChatServer and SendPromise

One element of `Calls` is one invocation of `ChatGateway.handleSendMessage` or
of the REST route. `pc` says which `await` it is at, and one action is what the
handler does between two awaits:

| action | code |
|---|---|
| `Receive`, `RejectMalformed` | gateway 249-304; the zod schema rejects the same ids on REST |
| `LookupConversation` | `sendMessage` 187-192 |
| `FastPath` | 194-204, `findByClientMessageId` 258-268 |
| `TxCreate` | `tx.message.create` 208-226 with the index |
| `TxCommit` | `tx.conversation.update` 228-236 and COMMIT |
| `LoseCommitReply` | COMMIT takes effect, the driver reports an error |
| `ReturnWinner` | the unique-violation handler 242-249 |
| `DbError` | any database call fails; an open transaction rolls back |
| `Broadcast`, `Notify` | stage 2, gateway 320-371 |
| `Delete`, `MarkRead` | `deleteMessage`, `markMessagesAsRead` |
| `Crash` | the process dies, PostgreSQL rolls back, PM2 restarts it |

PostgreSQL at READ COMMITTED is modelled by what the code relies on: an insert
waits for an uncommitted row with its key and is refused by a committed one, and
the conversation update holds its row lock until COMMIT, which is why update and
COMMIT are one step. `createdAt` is the order of the inserts. Bodies,
attachments and reply targets are left out: no guard depends on them. `unseen`
is a history variable that says what the counter should be.

`SendPromise` has no handlers and no database: a key is asked for, gets at most
one row, is confirmed with that row or refused, and the row is announced at most
once and not before it is durable. `ChatServer!Promise` is the refinement
mapping; a lost COMMIT reply maps to a step that stores and refuses at once,
which the promise therefore allows.

## Outbox

`msg[m]` is everything the client knows of message `m` (the four maps, its
bubble, its running cycle) and what the server and the wire hold of it. `at` is
the await of its cycle. JavaScript runs one callback to its end with its
microtasks, so that is one action: when a rebuild settles, every cycle that
awaited it emits or fails in that step, in `RebuildSucceeds` and
`RebuildTimesOut`.

The socket is what the outbox can see of it: `none`, `down`, `up` or `stalled`,
the last being the zombie that reports connected and delivers nothing. A rebuild
retires the live socket first; a cycle that starts meanwhile calls `connect()`
on the retired one and revives it, and when the rebuild publishes its fresh
socket the revived one goes on as an `orphan` whose acks still arrive. `cur`,
`late` and `pipe` say over which of the two the current ack, abandoned acks and
CHAT_SENDs travel. Two facts about time are used: the three bounds at
`outbox.ts:60-64` (an ack timer that starts during a rebuild, 8 s, outlives it,
5 s: state `early`), and nothing else. The orders in which timers, acks and
connections happen are free otherwise.

Abstracted: payloads, previews, diagnostics, and the store's lists (only the
delivery state of own messages is kept). A page reload, which loses the outbox,
is not modelled: all its state is in memory by design.

## SocketClient

Client objects are elements of `Sockets`; none is used twice. A rebuild is named
by the fresh socket it makes, since rebuilds overlap when `disconnectSocket`
forgets one. `rebuildPromise` is the one that callers may join. `wired` says
that a socket has the handlers of `wireSocket` and of its subscribers, which
`removeAllListeners` strips together. `refreshes` counts the token refreshes
whose continuation holds that socket in its closure. The parts a subscriber sees
(`notifySocketListeners`) follow from `socket`, which every consumer is handed
when it changes. `Outbox` uses a coarser view of the same facade; the two
modules are not composed.

## The conversation page

Seven machines of one page, `ChatSync` and `Pins` composed in `MCChatSync` and the
other five in `MCServices`. They meet in the database and in React only where a
model says so, and share no variable: the first state picks the one that runs
(`focus`), so that the state space is the sum of theirs and not the product.

**ChatSync** is one reader's list against the server. A message is stored,
edited or deleted in one step and announced to the room in a later one
(`Store`/`AnnounceNew`, `Check`/`WriteEdit`, `WriteDelete`/`AnnounceChange`);
`AnswerAgain` is the ack of a deduplicated send. The client half is
`useMessages`, the message half of `chat.store` and `message-merge`: `Open`,
`Close`, `Drop`, `Connect`, `HandleJoin`, `HandleLeave` (the join passes an
asynchronous guard, so it may be overtaken by the page's read), `ReadPage`,
`MergePage`, `LoadMore`, `PrependPage`, `Deliver`. Every page is read in one step
and merged in a later one, whatever arrives between. An own message is put into
the list and emitted (`Emit`), stored by its handler (`StoreOwn`), and confirmed
by the answer alone (`Answer`, or `AnswerAgain` to a repeated send): the gateway
broadcasts with `client.to(room)`, which leaves out the connection the message
came on. A CHAT_SEND of a connection that is gone may still be stored, and is then
announced like anybody's. What is emitted while disconnected waits in the
socket's buffer, which a rebuilt socket does not have. `missed` holds the
messages of which an event or the answer was lost or overtaken.

**Pins** has one element of `PinCalls` per tap, first its REST leg and then its
socket leg, each `Check`, `Clear`, `Write`: a trainee's pin clears the old pins
and sets the new one in two statements. `bar` is what each page shows.

**Composer** is the input: `text` (nothing, a draft, an edit), `editing`,
`replyingTo`, and the recorder. `StartRecording` asks for the microphone,
`Granted` or `Denied` come later, also after the input was left
(`GrantedLate`). The `try` of `useVoiceRecorder.ts:43-65` also covers the
recorder's construction and start: `StartFails` is its catch after the stream was
opened and stored, before or after the recorder was. `SendVoice` stops the recorder, whose `Data` and `OnStop` come
later still. A stream is named by its number, a recording by the set of streams
in it, so that two recordings that run into each other can be seen.

**Scroll** is `useChatScroll` on a list of unit-high messages: the three refs,
the anchors of the first load, the scroll event that comes after the scroll, and
`isLoadingMore`. **Viewer** is the image viewer: a gesture's mode and origin, the
transform that is outside React, and the image being replaced under the fingers.
**Media** is an attachment in its bubble: preview, stored file, signed URL with
the 55-minute cache and the 60-minute lifetime, and the voice player.
**Avatar** is `useSignedAvatarUrl` with its cancelled requests and the circle's
fallback to initials.

## The services

`MCServices` composes sixteen more machines with them.

* **TokenRefresh**: tokens are named after their session. `Send`, `Serve`, and
  on a 401 `GiveUp`, `NothingToRefresh`, `Queue` or `Lead`; `RefreshDone` and
  `RefreshFailed` wake the queue. The socket runs a second refresh of its own
  (`RefreshForSocket`, `SocketRefreshEnds`) that no queue knows of. `Login`,
  `Logout`, `Reload`, `Bar` (the account is disabled) interleave freely.
* **Otp**: `send-otp` and `verify-otp`, one step per await: limit, hash, Redis,
  SMS; get, compare, delete, find, save. Codes expire, arrive late or not.
* **Typing**: writer, buffer of an offline socket, relay, reader; the 2 s timer.
  `WsJwtGuard` awaits the user's row before either handler runs, so signals on
  the wire are relayed in any order (`Relay(i)`) or refused (`Refuse(i)`).
* **Diagnostics**: ring buffer and its copy, IndexedDB with the adds under way,
  flush and recovery with their timeouts, batches and acks on the wire, reloads,
  the server's validation and rate limit. **LiveLog**: `writing` is a flush with
  its stage, file and offset; picker, stored handle and panel.
* **Reactions**: two users' taps as gateway handlers; `react` has one more await
  than `removeReaction`. **Posts**: a file is uploaded, recorded and linked in
  three steps; a post is written and then linked, and deleted with its files
  removed first. **Feed**: the store behind list and detail page, cursor pages
  ordered by pin and age, and this admin's and others' changes.
* **Inactivity**: two loops per hour, each list, check, send, log per recipient;
  a loop may still run when the next starts.
* **Bell**: each handler reads the conversation again before it emits; the
  provider's seed; the bell's items. **Push**: permission, subscription, upsert
  by endpoint, notification, pruning by the rows' ids, logout and its two calls;
  another account may sign in while the last one's subscription is under way.
* **ConversationList**: debounce, filter and its copy in the URL, pages by
  scrolling, and the store's other writers. Rows are kept as the pages they came
  in, named by their query. **Trainees**: list with counters, status button,
  dialogs, and the conversation made with the account or later.
  **Profile**: two forms and two uploads that write `{...user}` of the tap back.
* **Updates**: version.json, the worker's page cache, `hardRefresh` with its
  guard per version, the `controllerchange` reload. **Shell**: cookies for the
  middleware, store and tokens for the layouts, in several tabs. The splash page
  reads the cookies when it is mounted and goes there after its delay. The
  answer of a profile form (`SaveEnds`) writes the store and, through
  `persist`, the browser's copy of it, whoever has logged in or out meanwhile.

Each module's header says what its state stands for and what it leaves out.

## Runs

| run | instance | result |
|---|---|---|
| `ServerFaults` | 1 trainee, 1 admin, 1 client id, 3 calls over socket and REST, 1 crash, failing calls, lost COMMIT replies | 7 properties hold |
| `ServerNoCrash` | 2 trainees, 2 client ids of which one is malformed, 3 calls over the socket, failing calls, fairness | 3 properties hold |
| `ServerSummary` | 2 client ids, 3 calls, no faults | `SummaryIsNewest` violated |
| `OutboxFaults` | 2 text messages, 1 user, generations up to 2 | 5 properties hold |
| `OutboxSessions` | 1 photo, 2 users, generations up to 4, fairness | 2 properties hold |
| `OutboxRetryable` | 2 messages, generations up to 3 | `FailedIsRetryable` violated |
| `OutboxReuse` | 1 message, generations up to 2 | `NeverReusesTimedOutSocket` violated |
| `SocketFacade` | 4 client objects, 2 teardowns, 1 refresh per socket | 5 properties hold |
| `SocketListeners` | 3 client objects, 1 teardown | `LiveSocketListens` violated |
| `SyncList` | the list of messages, then the pins; 4,403,685 states | 5 properties hold |
| `SyncOrder` | the list, without own messages, edits or deletions | `PreservedAreNewest` violated |
| `Services` | the sixteen services and the other five machines of the page, one at a time, fairness; 735,831 states | 13 properties hold |

What the two large runs check:

| property | says |
|---|---|
| `NoDuplicates` | optimistic entry, ack, broadcast and pages of one message end in one bubble |
| `SettledListIsCurrent` | a list at rest is the database's, except for `missed` messages; own ones are confirmed exactly if stored |
| `OnlyDeletionRemoves` | no page, reconnect or answer makes a bubble disappear |
| `OneTraineePin` | a trainee has one pin, unless two of the pins ran at once |
| `ShownIsSo` | microphone and red bar, draft and edit, quote, recording, fitted image, player, attachment and picture are what they seem |
| `PlaceIsKept` | the reader stays at the message on the screen, or follows the newest |
| `ScreensAgreeAtRest` | reactions, bell, the lists of conversations, trainees and posts, profile, live file, build and route agree with what is stored |
| `KeptUntilLogged` | an event is given up only when the server logged it |
| `AccessIsOfTheUser` | the stored access token is the signed-in session's |
| `CodeOpensOneSession` | one code, one session |
| `FilesFollowThePost` | a live post's files exist, a deleted post's do not |
| `OneReminderADay` | one SMS per recipient and window |
| `ShownToItsOwner` | a push is shown to the account it is for |
| `IndicatorGoesOut` | a typing indicator does not stay, unless a signal was lost or refused, or a STOP overtook its START |
| `RequestsSettle` | every request of the interceptor ends |
| `TabComesToRest` | no tab is redirected for ever |

with one type invariant per run (`PageTypeOK`, `ServicesTypeOK`). `Services`
runs its machines one at a time, and none is too small for what it is asked: push
has 118,508 of the states, reminders 103,936, the input 89,409, the tokens 62,413,
the list of conversations 12,239, the typing indicator 17,822, the tabs 4,238, and the
smallest, the avatars, 272.

**Bounds.** Three calls give a first delivery, a duplicate that races it and one
more that finds the outcome, by two senders who use the same client id; no
guard looks at more than two calls at a time. One crash can fall at any step, and a
second finds no state that the first cannot leave. Two messages are enough for
one cycle to rebuild, join or reuse what the other did; generation 2 is a first
socket and its replacement, 4 lets two users log in, and a rebuild or another
login follow. Four client objects allow a live socket, a rebuild that logout
forgot, the socket of the next login and its rebuild. The theorems below remove
these bounds from every safety property of the passing runs.

`SyncList` has two messages, one of them the reader's own; pages of one, so that
two messages are a page and an older page; and three moves: two openings or
drops, so that a load can overlap a second one, with an edit or a deletion of
either message, or one opening or drop with two of those, on one message or on both. Two pins are what it
takes for a second pin to be wrong, two calls for them to overlap. In `Services`,
two streams and two permission prompts let one recording run into the next; one bubble is
replied to or edited. Four stored messages, two more and pages of two give a
first page, an older page and arrivals during its load. Two scales above the
fitted one tell zoomed from clamped. Three signed URLs give a cached one, a
lapsed one and a replacement; two pictures and one direct URL a change in every
order.

`Services` also has two of whatever can race (sessions, codes, fans, accounts of a
device, people, tabs, files of the log, loads, list actions) and one where a
second would only repeat the first (post, file, letter, look, reminded person).
Other counters: 4 key strokes and 2 cuts; 3 events, one of them refused, in
buffers of 2, one reload; 4 calls of the login; a window of 2 in 3 hours, so
that a third hour is outside the window of the first; 2 pages of a list; one expiry of a token; 3 lines
in a queue of 2; 2 deployments of 2 builds; 4 moves of a tab; 3 posts in pages of
one with 3 moves. All are `CONSTANT`s in the `.cfg` files, marked as bounds where
they are declared. Because the machines of `MCChatSync` and `MCServices` share
no variable, any of them can be run alone under larger bounds by fixing `focus`.

**Deadlock.** The runs of ChatServer, SocketClient, the page and the services set
`CHECK_DEADLOCK FALSE`: with all calls answered, all client objects used, or all
bounded moves made, nothing more has to happen. Outbox never deadlocks (the
browser can always go offline and back) and the check stays on.

**Symmetry** is used in safety runs only, over calls, text messages, users and client
objects, which are compared for equality and nothing else.

**Fairness.** `ChatServer!FairSpec`: weak fairness of each call's handler. Node
runs a handler when its database call has returned, and PostgreSQL answers the
waiting insert when the row it waits for is committed or rolled back; database
failures, deletes, reads and arrivals are not assumed to happen. `Outbox!FairSpec`: weak fairness of the
timers (`UploadFails` stands for the 30 s timeout of axios) and of the rebuild's timeout, because
`setTimeout` fires. Nothing is assumed of the network, the server or the user: `CyclesEnd` says that a cycle
ends without them. `Typing!Fairness`: the timer fires, the
guard of a sent signal comes to its end, a socket that lost its connection comes back (Socket.IO retries for ever); drops
and the user's keys are not assumed to end, only bounded.
`TokenRefresh!Fairness`: a request or refresh is answered or fails, and its
continuation runs. `Shell!Fairness`: the splash page's timer fires and an effect
runs after its render; no move of the user is assumed. `RequestsSettle` and
`TabComesToRest` speak of all requests and all tabs at once, which is possible
because the user's moves are bounded. That the refresh itself is answered or fails
is an assumption about the browser: the bare `axios.post` at `api-client.ts:74` has no
timeout, so only the connection's end bounds it.

### What the violations show

* **ServerSummary.** The comment at `conversations.service.ts:160-162` says
  that message and summary never diverge. They commit together, and
  `SummaryIsOfARow` is proved; but two sends can commit in the other order than
  they were created, and the summary then shows the older message.
* **OutboxRetryable.** `outbox.ts:659-665` protects a message that a late ack
  marked as sent from the failing end of its cycle, by testing for `sent`. Later
  steps of the same cycle overwrite `sent` with `rebuilding-connection` first. The
  bubble of a stored message then says failed, and its retry button does nothing,
  since the input was let go of.
* **OutboxReuse.** `socket-client.ts:21-22` says a message that timed out on a
  generation never retries on it. With the browser offline at the timeout
  nothing records the generation, and the resumed cycle emits on it again.
* **SocketListeners.** A rebuild that times out leaves the stripped socket as
  the live one; the next cycle connects it, and nobody listens to it.
* **SyncOrder.** `message-merge.ts:103-108` says that local messages that a page
  does not include are the newest by construction. After "load more" they are
  the oldest; the next reconnect's page puts them below the newest message.

## What the models show of the code

These are not disagreements with a doc or a test of the repository, and so no
finding. They are behaviours that the models reach and that the properties name
as exceptions (history variables); a reader who changes the code should know
them.

* *Login.* `deleteOtp` is by account, not by code: a verification can delete a
  code sent after the one it compared. Two verifications that read the key at
  once both log in.
* *Reminders.* An entry with status FAILED blocks further reminders for 24 hours,
  and a reminder whose entry cannot be written is sent again an hour later.
* *Tokens and tabs.* A refresh that is answered after a logout or login stores
  its token all the same. A reload keeps a tab's old access token beside the
  user another tab has logged in. A profile form of a tab whose user another tab
  has replaced or logged out writes the old user back into the browser's store:
  after its next load the other tab shows one user's pages with another's
  token. The notification store is not cleared at
  logout, and a push subscription survives a session that ends without one.
* *Pins.* A page's own second leg can leave a trainee with two pins.
* *List.* A message stored between the page's read and the join is missing until
  the next page; a page read before a deletion and merged after it brings the
  message back. An own message whose answer is lost stays unconfirmed, though it
  is stored, until it is sent again or a page brings it.
* *Typing.* A STOP that passes the guard before its START leaves the reader's
  indicator on; so does one that is refused.
* *Composer.* A swipe on a bubble that is not confirmed yet shows a quote that
  is not stored. The microphone stays open when the input is left, or start is
  tapped twice, during the permission prompt; and when the recorder cannot be
  made or started after the permission was given, without a red bar to stop it.
* *Scroll, viewer, player, picture.* After a failed load of older messages the
  next change of the list jumps towards the top. A gesture that is cut off, or
  an image replaced under it, can leave a fitted image off the centre. The
  player's button says "playing" after its source changed, `play()` was
  refused or the system paused it. A picture that once failed to load is not
  tried again by the same circle.
* *Newsletter.* The gateway's three helpers that would broadcast a post
  (`chat.gateway.ts:600-611`) have no caller, and nobody listens to
  `NEWSLETTER_SEEN_UPDATED`; the detail page emits `NEWSLETTER_SEEN` again at
  each reaction. A later page beside a reload duplicates posts or leaves a gap;
  a cursor whose post was deleted or moved skips one. Blocks whose upload failed
  are published. A deletion removes the files before the post.
* *Admin lists and profile.* A rebuilt socket reloads page 1 and keeps `page`. A
  second tap on a status button counts one change twice. The edit dialog writes
  back every field it was opened with. A deleted trainee's national id stays
  taken. A save answered after logout writes the old user back into the store,
  also over the one who has logged in since; a save on the page then leaves the
  old user's id in the store, and only a save of the modal puts the right one there.
  The modal's signed URL outlives an upload on the page.
* *Updates.* A page from the worker's cache takes the newer version for its own
  and then sees no reason to reload.
* *Live log.* A write that fails late stops the log of the file chosen since.

## Proofs

All theorems hold for every value of the constants that the modules' assumptions
admit, finite or not (`Calls` is finite, since counters count its subsets).

**ChatServer.** `Inv1` is `TypeOK` and `Control`: what each place of the handler
implies about the request, the row and the answer of its call. Without it
nothing is inductive: `OneRowPerMessage` needs that a pending row belongs to the
call at the commit, and that the row of a call at an earlier place does not
exist. On top of it:

* `OneRow`: an insert happens only when no row with its key is pending or durable.
* `AckNames`: durable rows stay durable and keep their key (`DurableIsStable`),
  so an answer stays true.
* `Announced`: `Stage2` ties the count of broadcasts to the handler's place.
* `Summary`, `Unread`: a commit is the only step that adds to either side of the
  relation; `Counting` adds that the rows in `unseen` are durable, so that a
  commit adds a new element and the cardinality grows by one.
* `FailedStoredNothing` assumes `~LostCommitReplies`; `DedupedBroadcast` assumes
  `SocketOnly`: all requests use the socket, no COMMIT reply is lost and
  `MaxCrashes = 0`. Each is needed: the model has a counterexample without it.
* `Implements`: `PromiseInv` (the above) makes every step a step of
  `SendPromise` or a stutter, one case per action.

**SocketClient.** `SInv` is `FacadeInv` (types, the present epoch of the live
socket, the joinable rebuild, the health) and `SockInv` of every client object
(an object that was never handed out is not live and has no refresh pending; one that was given up is
off and silent; a running rebuild is not yet live). The invariants
of `SocketFacade` follow (`Consequences`), and `NextSInv` has a lemma per group
of actions. The interesting case is `RebuildEnds`: a forgotten rebuild clears
the promise of a newer one and must not touch the live socket.

**Outbox.** Every action changes messages one at a time, so the argument is
about one record. `Good` is `Retained` (the input is kept, or the server has the
message), `Budget` (what each place of a cycle has spent at most, without
which the bound of two emits is not inductive) and `Progress` (a busy bubble has a
cycle). `OInv` adds types, and that no cycle names a socket generation that does
not exist yet. The lemmas of the first part say what each helper (`Emit`,
`Failed`, `Offline`, `Start`, the rebuild) makes of a good record;
`StepOf` is what one step may do to a record, and `NextStep` proves both that
`OInv` is kept and that every record moves by `StepOf`. The three invariants and
both action properties of the runs follow, for any number of messages, users and
generations.

**TokenRefresh.** `QueueInv`: the mark `isRefreshing`, the call and its one
leading request come and go together, so whoever waits has a leader (`LedQueue`).
`SessionInv`: a call under way and the stored tokens are of the present session,
as long as no session began or ended under a call. `StoredTokenIsOurs` is
`AccessIsOfTheUser` for any number of requests, sessions and expiries.

**Pins.** `PinsInv`: while no two pins of the trainee ran at once, at most one
call is under way for the trainee (`OneTapRuns`), a call that has cleared finds no
pin of the trainee (`ClearedFirst`), and all his pins are one (`PinsAlike`). The
middle one is what makes the last one inductive: the write relies on a clear that
is a step of its own.

**ChatSync.** `ListInv` is the types of rows, links, events, loads and list with
the facts that make `Unique` inductive: pages that were read name a message once,
and so do the results of filter, merge and map. `mergeServerMessages` filters by
`Filtering!Kept` instead of the standard module's `SelectSeq`, which is recursive and so
out of the prover's reach; `FilteringKeeps` says that every element kept is one of
the list, in its order, and that all chosen ones are kept. It is induction over the
places of a list, done by the least counterexample: the induction theorems of
the library need an operator as an argument. `OnlyDeletionRemoves` follows from
the same lemmas, a list operation at a time.
`SettleInv` is why a settled list is current. A message of which no event was
missed is in one of three places: what the list shows of it is the row
(`EntriesSettle`), and so it is with what a page under way has read
(`ItemsSettle`), or the change is written and not announced yet
(`Under`), or announced and still on the socket (`Behind`); and a live row is
shown, or on its way (`RowsSettle`). What is on its way is `Coming`: a call that is
yet to announce it, an own call that is yet to answer, or the event or answer on the
socket; an own message that is not confirmed is either not stored or coming too. A
connection that drops puts the answers it takes along among the missed. When nothing is under
way, only the first place is left. The proof has a lemma for each thing that can
happen to a message: announced, heard, lost, or untouched.

**Otp.** `OtpInv`: nothing names a code that was not made yet (`OtpPast`); and a
code whose verifications do not overlap is read by one call at a time, and by none
once it was accepted, because the key then holds something else (`OncePerCode`).
**Inactivity.** `ReminderInv`: a loop holds a person from the check to the log
entry (`LoopsHold`); outside `unlogged` and `reminderRaced` a person is held by
one loop, whose latest SMS is logged or about to be, and is about to get one only
when the latest entry is a day old (`RemindedOnce`). **Posts.** `PostsInv`: what a
block went through before it got where it is (`UploadsFit`); a file belongs to
one post, in the posts and the rows, in a save under way, and in the composer, and
goes only with it (`FilesOwned`); what a deletion leaves is known (`LeftKnown`).
**Push.** `PushInv`: the row of the device's endpoint is of who is signed in, or
the endpoint is known to have outlived its owner (`OwnEndpoint`); rows that were
read too late for their owner are never of the device's endpoint (`ReadLate`);
what was shown to another was sent early (`ShownEarly`). **Diagnostics.**
`DiagInv`: an event that the server has not logged is in the buffer, and is in
IndexedDB or being written, or was dropped or pruned on purpose (`EventsKept`); that
a flush removes no more than was logged needs that its batch holds all of the buffer up to its
last event (`BatchFits`). In each, the type of the component is the other half.

**The page.** `PageInv`: `InputInv` ties a stream to the recorder that holds it
(`RecordersFit`), so that the bar is shown while a microphone is open, but for those
that are named: a failed start leaves its stream open, and beside a running
recording it takes that one's place in `streamRef`. And it ties what was sent to
what the field, the quote and the recorder showed; `ViewerInv` has the transform of each
kind of gesture, so that an image that fits is centred; `MediaInv` says which signed URL a
bubble, its cache and the player may hold; `AvatarInv` that the request under way
is for the picture on the screen. `WhatIsShownIsSo` follows. **Scroll.**
`ScrollInv`: the screen shows a message of the list, and the height that is kept
is that of the list whose older page is under way, of which the first message is
on the screen (`HeightKept`). Only with it does the added height put the reader
back, which is `ReadersKeepTheirPlace`.

**The screens.** `ScreensInv` has one invariant for each of the nine machines
that `ScreensAgreeAtRest` speaks of, and `ScreensAgree` follows from them. They have
one shape: what a screen shows at rest is what is stored, so while something is
under way, what it shows, with the answers and events that will still change it,
is what is stored.

* *Shell*: until a form's answer has put another user into the store, one login
  is behind cookie, stored user and tokens (`OneLogin`), and a tab that no other
  login crossed holds that login and stands on no other role's page (`TabFits`).
  After such an answer nothing but the types is claimed, until the next login or logout.
* *Updates*: after an answer since the last deployment, the document takes itself
  for that build, is being replaced, or the session tried (`FreshIsKnown`).
* *LiveLog*: a file, the lines of the flush and the queue are three rising stretches, the
  flush has read all of its file (`SizeFits`), and the panel knows of the file
  (`PanelKnows`).
* *Bell*, *Reactions*: when no handler runs, the last count on the wire is the
  stored one, and with none on the wire the page or the answer to its request has
  it (`BellKnows`, `FanCounts`). For a user's own reaction: a page that waits for
  one tap at a time shows what the tap will have stored (`FanMine`).
* *ConversationList*, *Trainees*: a clean load is alone and what it asked for or
  read is still so; without a load, rows are those of the query (`ListRests`),
  or differ from the accounts only where an answer is on its way (`TapsFit`,
  `AddedFits`, `RowsFit`), and the counter counts the rows.
* *Profile*: the store is the tokens' user, and the row as long as no request of
  the user's has reached the server (`StoreFits`); a clean request was made with
  what the store holds (`OpFits`).
* *Feed*: the posts shown are those above the end of the list in the order of pin
  and age, `Between`, and the answer to a clean request is the next stretch
  (`PageBelow`). `PageCut` is the lemma about the server's half: what a page
  cut at a cursor from the ordered table holds, for every finite set.

`Feed!FindAll` orders by `CHOOSE` over the functions on the live posts, and
`RemovePost` filters by `Kept`, both for the same reason as in ChatSync. The proof
of Profile found a case that the run's three taps do not reach, the one named
above under profile: `unsure` had been reset by it.

`ServicesAssumption`, `PinsAssumption` and `SyncAssumption` say of the constants
what their comments say: bounds are natural numbers, page sizes are not zero, and
the value that stands for "none" is not a member.

**Types.** `TypesInv` has what no other invariant needed: the typing indicator's
signals and counters, the flags of the diagnostics, the marks of the scroll hook
and the interceptor's queue. With the invariants above it gives `ServicesTypeOK`;
and `TokensOfTheUser` is `AccessIsOfTheUser` once more, beside the other services.

**Only model-checked.** Liveness (`CallsAnswered`, `CyclesEnd`,
`IndicatorGoesOut`, `RequestsSettle`, `TabComesToRest`), which the prover cannot
do under fairness. The five violated properties are counterexamples, and nothing
is to be proved of them. All other properties of the runs are proved.

## Not modelled

* Conversations: search, the list of who has seen a message, the reply id of a
  row. They are data that no guard of the modelled handlers reads.
* `WsJwtGuard`: a request it refuses has no handler and no ack, which to the
  client is the same as a lost one.
* Several API processes: `ecosystem.config.js` runs one instance. The
  invariants do not depend on it, except that a crash ends all calls at once.
* Two tabs of one user in the send path: each has its own outbox and facade;
  they meet in the database only, where ids differ. `Shell` has several tabs.
* A page reload in Outbox: it loses the outbox, whose state is in memory by
  design.
* Diagnostics: export, summary and deletion of stored events, each a single call.
* Push: the encryption of the payload; SMS and S3: the transport, the storage
  drivers and image processing.
* Rendering, date picker, emoji picker, the counters of the dashboards (queries),
  the login form's layout.
* `prisma/seed.ts`, configuration modules, validators and types of the shared
  package beyond the records mapped, deployment scripts, and `apps/api/dist2`, an
  old build output.

## What could come next

1. Outbox over ChatServer in place of its abstract server, and over SocketClient
   in place of its four-valued socket, with an abstract "sent once, or failed and
   kept" that the composition implements.
2. Two readers in `ChatSync`, with the gateway's rooms as one set of members.
