----------------------------- MODULE MCServices -----------------------------
(***************************************************************************)
(* The services beside the chat, and what a conversation page has beside   *)
(* its messages (the input, the scroll position, the viewer of images, the *)
(* media of a bubble, the picture of a user), in one instance for TLC.     *)
(* They share no variable: the first state picks the one that runs         *)
(* (focus), and the others stay in their initial states, so that the state *)
(* space is the sum of theirs and not the product.                         *)
(***************************************************************************)
EXTENDS TokenRefresh, Sequences

CONSTANTS
  MaxKeys, MaxCuts, MaxEvents, MaxBuffer, MaxStored, Invalid, MaxBoots,
  MaxWire, OtpCalls, MaxCodes, Fans, Emojis, ReactTaps, Files, PostIds,
  Reminded, Admins, Window, MaxHours, Letters, Looks, Accounts, MaxEndpoints,
  MaxRows, Pushes, Terms, MaxPage, MaxListLoads, MaxListActs, Trainees,
  Registered, Toggles, MaxTraineeLoads, MaxTraineeActs, People, Names,
  Pictures, MaxTaps, Unset, LogFiles, MaxLines, MaxQueue, MaxToggles,
  MaxMounts, NoLogFile, Builds, Firsts, MaxDeploys, MaxChecks, MaxOutages,
  NoBuild, Offline, Tabs, AdminUsers, TraineeUsers, MaxMoves, NoUser,
  MaxPosts, Limit, MaxFeedMoves, Bubbles, MaxStreams, MaxPrompts, MaxSent,
  NoBubble, StoredAtOpen, Arriving, PageSize, MaxChanges, MaxFailures, Zoomed,
  MaxTouches, MaxSwaps, MaxSigned, MaxOthers, Objects, NoPicture, Direct

\* The bounds are numbers, and the marks for nothing are not among the things.
ASSUME ServicesAssumption ==
  /\ MaxKeys \in Nat /\ MaxCuts \in Nat /\ MaxBoots \in Nat
  /\ MaxSessions \in Nat /\ MaxLapses \in Nat
  /\ MaxCodes \in Nat /\ Window \in Nat /\ MaxHours \in Nat \ {0}
  /\ MaxEndpoints \in Nat /\ MaxRows \in Nat
  /\ MaxEvents \in Nat /\ MaxBuffer \in Nat \ {0}
  /\ MaxSigned \in Nat /\ MaxOthers \in Nat /\ Zoomed \in Nat
  /\ MaxTouches \in Nat /\ MaxSwaps \in Nat
  /\ MaxStreams \in Nat /\ MaxPrompts \in Nat /\ MaxSent \in Nat
  /\ StoredAtOpen \in Nat /\ Arriving \in Nat /\ PageSize \in Nat \ {0}
  /\ MaxChanges \in Nat /\ MaxFailures \in Nat
  /\ IsFiniteSet(Letters) /\ IsFiniteSet(Fans) /\ IsFiniteSet(ReactTaps)
  /\ IsFiniteSet(Trainees) /\ Fans # {}
  /\ MaxPage \in Nat \ {0} /\ MaxListLoads \in Nat \ {0} /\ MaxListActs \in Nat
  /\ "empty" \in Terms
  /\ MaxTraineeLoads \in Nat \ {0} /\ MaxTraineeActs \in Nat /\ Registered \subseteq Trainees
  /\ MaxTaps \in Nat /\ Names # {}
  /\ "none" \notin Emojis /\ "nobody" \notin Trainees
  /\ Unset \notin People
  /\ Unset \notin [id : People, name : Names, pic : Pictures \cup {Unset},
                   signed : Pictures \cup {Unset}]
  /\ "no one" \notin Reminded \cup Admins
  /\ "nobody" \notin Accounts
  /\ "no post" \notin PostIds /\ "free" \notin PostIds /\ "absent" \notin PostIds
  /\ "no file" \notin Files
  /\ NoPicture \notin Objects /\ NoBubble \notin Bubbles
  /\ MaxLines \in Nat /\ MaxQueue \in Nat /\ MaxToggles \in Nat /\ MaxMounts \in Nat
  /\ NoLogFile \notin LogFiles
  /\ MaxDeploys \in Nat /\ MaxChecks \in Nat /\ MaxOutages \in Nat /\ NoBuild \notin Builds
  /\ MaxMoves \in Nat /\ NoUser \notin AdminUsers /\ NoUser \notin TraineeUsers
  /\ MaxPosts \in Nat \ {0} /\ Limit \in Nat \ {0} /\ MaxFeedMoves \in Nat

VARIABLES
  focus,
  open, typing, typingTimer, typingOnline, buffer, typingWire, typingShown,
  reading, keys, typingCuts, lost, overtaken,
  seq, buf, diagStored, writes, reported, connected, hidden, diagTimer,
  flushing, recovery, diagWire, limited, logged, boots, dropped, pruned,
  otpCall, otpKey, otpMade, delivered, otpAccount, sessions, otpForm,
  otpRaced,
  reaction, fanHandler, fanInbox, fanPage, opening, joined, hasty, fanStale,
  fanMissed,
  post, upload, postStored, postRow, composer, banners, saving, deleting,
  torn, left, late, doubled,
  hour, reminderUnread, reminderInbox, reminderSeen, log, sms, pestered,
  loop, unlogged, reminderRaced,
  bellUnread, bellHandler, bellWire, bellOnline, viewing, badge, item, panel,
  bellSeed, bellStale, bellMissed,
  signedIn, permission, endpoint, pushMade, rows, pushRow, ensuring,
  pushLeaving, push, focused, pushShown, kept,
  search, unreadOnly, listPage, hasMore, listLoading, loadingMore, list,
  listTimer, listLoads, url, navs, skip, listSeed, listActs, listUnsure,
  traineeAccount, conversation, users, activeCount, traineeLoading,
  traineeTimer, traineeLoads, toggle, togglingId, adding, traineeActs,
  traineeUnsure,
  profileRow, profileUser, me, profileForm, ops, chosen, taps, profileUnsure,
  mixed,
  logStored, granted, activeHandle, queue, writing, starting, resuming,
  mounted, liveActive, content, recorded, toggles, mounts, swapped,
  logCrossed,
  deployed, deploys, worker, updateOnline, updateCuts, cached, controls,
  updatePage, updateLoading, loadedVersion, reloading, swReloaded, checks,
  updateRefresh, guards, tried, fresh,
  cookie, persisted, shellRefresh, path, shellUser, shellAccess,
  shellLeaving, shellSaving, shellMoves, foreign, shellCrossed,
  created, gone, pinned, edited, feedSeen, posts, nextCursor, place, detail,
  ready, feedLoading, feedLoads, change, feedMoves, beside, others, moved,
  durable, text, editing, replyingTo, byId, prompts, inputLost, opened, mic,
  running, stream, mediaRecorder, inputRecorded, isRecording, stopping, sent, last,
  leaked, inputCrossed,
  lo, hi, at, isFirstLoad, autoScroll, prevScrollHeight, isLoadingMore,
  anchors, event, changes, failures, scrollCrossed,
  viewerOpen, swaps, scale, off, zoomed, gesture, touches, tapped,
  viewerHidden, broken,
  attachment, mediaMounted, mediaUrl, mediaAsking, mediaOthers, signed,
  mediaCached, lapsed, expired, playing, sounding, mute, mediaLate,
  avatarUrl, resolved, avatarAsking, avatarDropped, cache, imgError, failed

Indicator == INSTANCE Typing WITH
  timer <- typingTimer, online <- typingOnline, wire <- typingWire,
  shown <- typingShown, cuts <- typingCuts
Events == INSTANCE Diagnostics WITH
  stored <- diagStored, timer <- diagTimer, wire <- diagWire
Codes == INSTANCE Otp WITH
  made <- otpMade, account <- otpAccount, form <- otpForm, raced <- otpRaced
Counts == INSTANCE Reactions WITH
  handler <- fanHandler, inbox <- fanInbox, page <- fanPage,
  stale <- fanStale, missed <- fanMissed
Publishing == INSTANCE Posts WITH
  stored <- postStored, row <- postRow
Reminding == INSTANCE Inactivity WITH
  unread <- reminderUnread, inbox <- reminderInbox, seen <- reminderSeen,
  raced <- reminderRaced, Trainees <- Reminded
Ringing == INSTANCE Bell WITH
  unread <- bellUnread, handler <- bellHandler, wire <- bellWire,
  online <- bellOnline, seed <- bellSeed, stale <- bellStale,
  missed <- bellMissed
Pushing == INSTANCE Push WITH
  made <- pushMade, row <- pushRow, leaving <- pushLeaving,
  shown <- pushShown
Listing == INSTANCE ConversationList WITH
  page <- listPage, loading <- listLoading, timer <- listTimer,
  loads <- listLoads, seed <- listSeed, acts <- listActs,
  unsure <- listUnsure, MaxLoads <- MaxListLoads, MaxActs <- MaxListActs
Managing == INSTANCE Trainees WITH
  account <- traineeAccount, loading <- traineeLoading,
  timer <- traineeTimer, loads <- traineeLoads, acts <- traineeActs,
  unsure <- traineeUnsure, MaxLoads <- MaxTraineeLoads,
  MaxActs <- MaxTraineeActs
Editing == INSTANCE Profile WITH
  row <- profileRow, user <- profileUser, form <- profileForm,
  unsure <- profileUnsure
Logging == INSTANCE LiveLog WITH
  stored <- logStored, crossed <- logCrossed
Updating == INSTANCE Updates WITH
  online <- updateOnline, cuts <- updateCuts, page <- updatePage,
  loading <- updateLoading, refresh <- updateRefresh, MaxCuts <- MaxOutages
Routing == INSTANCE Shell WITH
  refresh <- shellRefresh, user <- shellUser, access <- shellAccess,
  leaving <- shellLeaving, saving <- shellSaving, moves <- shellMoves,
  crossed <- shellCrossed
Browsing == INSTANCE Feed WITH
  seen <- feedSeen, loading <- feedLoading, loads <- feedLoads,
  moves <- feedMoves, MaxMoves <- MaxFeedMoves
Input == INSTANCE Composer WITH
  lost <- inputLost, recorded <- inputRecorded, crossed <- inputCrossed
Scrolling == INSTANCE Scroll WITH
  crossed <- scrollCrossed
Viewing == INSTANCE Viewer WITH
  open <- viewerOpen, hidden <- viewerHidden
Playing == INSTANCE Media WITH
  mounted <- mediaMounted, url <- mediaUrl, asking <- mediaAsking,
  others <- mediaOthers, cached <- mediaCached, late <- mediaLate
Picturing == INSTANCE Avatar WITH
  asking <- avatarAsking, dropped <- avatarDropped

typingVars == <<open, typing, typingTimer, typingOnline, buffer, typingWire,
                typingShown, reading, keys, typingCuts, lost, overtaken>>
diagVars == <<seq, buf, diagStored, writes, reported, connected, hidden,
              diagTimer, flushing, recovery, diagWire, limited, logged,
              boots, dropped, pruned>>
tokenVars == <<user, access, refresh, request, refreshing, call, leaving,
               issued, revoked, barred, lapses, crossed>>
otpVars == <<otpCall, otpKey, otpMade, delivered, otpAccount, sessions,
             otpForm, otpRaced>>
fanVars == <<reaction, fanHandler, fanInbox, fanPage, opening, joined, hasty,
             fanStale, fanMissed>>
postVars == <<post, upload, postStored, postRow, composer, banners, saving,
              deleting, torn, left, late, doubled>>
reminderVars == <<hour, reminderUnread, reminderInbox, reminderSeen, log,
                  sms, pestered, loop, unlogged, reminderRaced>>
bellVars == <<bellUnread, bellHandler, bellWire, bellOnline, viewing, badge,
              item, panel, bellSeed, bellStale, bellMissed>>
pushVars == <<signedIn, permission, endpoint, pushMade, rows, pushRow,
              ensuring, pushLeaving, push, focused, pushShown, kept>>
listVars == <<search, unreadOnly, listPage, hasMore, listLoading,
              loadingMore, list, listTimer, listLoads, url, navs, skip,
              listSeed, listActs, listUnsure>>
traineeVars == <<traineeAccount, conversation, users, activeCount,
                 traineeLoading, traineeTimer, traineeLoads, toggle,
                 togglingId, adding, traineeActs, traineeUnsure>>
profileVars == <<profileRow, profileUser, me, profileForm, ops, chosen, taps,
                 profileUnsure, mixed>>
logVars == <<logStored, granted, activeHandle, queue, writing, starting,
             resuming, mounted, liveActive, content, recorded, toggles,
             mounts, swapped, logCrossed>>
updateVars == <<deployed, deploys, worker, updateOnline, updateCuts, cached,
                controls, updatePage, updateLoading, loadedVersion,
                reloading, swReloaded, checks, updateRefresh, guards, tried,
                fresh>>
shellVars == <<cookie, persisted, shellRefresh, path, shellUser, shellAccess,
               shellLeaving, shellSaving, shellMoves, foreign, shellCrossed>>
feedVars == <<created, gone, pinned, edited, feedSeen, posts, nextCursor,
              place, detail, ready, feedLoading, feedLoads, change,
              feedMoves, beside, others, moved>>
inputVars == <<durable, text, editing, replyingTo, byId, prompts, inputLost,
               opened, mic, running, stream, mediaRecorder, inputRecorded,
               isRecording, stopping, sent, last, leaked, inputCrossed>>
scrollVars == <<lo, hi, at, isFirstLoad, autoScroll, prevScrollHeight,
                isLoadingMore, anchors, event, changes, failures,
                scrollCrossed>>
viewerVars == <<viewerOpen, swaps, scale, off, zoomed, gesture, touches,
                tapped, viewerHidden, broken>>
mediaVars == <<attachment, mediaMounted, mediaUrl, mediaAsking, mediaOthers,
               signed, mediaCached, lapsed, expired, playing, sounding, mute,
               mediaLate>>
avatarVars == <<avatarUrl, resolved, avatarAsking, avatarDropped, cache,
                imgError, failed>>

ServicesInit ==
  /\ focus \in {"typing", "diagnostics", "tokens", "otp", "reactions",
                "posts", "reminders", "bell", "push", "list", "trainees",
                "profile", "log", "updates", "shell", "feed", "input",
                "scroll", "viewer", "media", "avatar"}
  /\ Indicator!Init
  /\ Events!Init
  /\ Init
  /\ Codes!Init
  /\ Counts!Init
  /\ Publishing!Init
  /\ Reminding!Init
  /\ Ringing!Init
  /\ Pushing!Init
  /\ Listing!Init
  /\ Managing!Init
  /\ Editing!Init
  /\ Logging!Init
  /\ Updating!Init
  /\ Routing!Init
  /\ Browsing!Init
  /\ Input!Init
  /\ Scrolling!Init
  /\ Viewing!Init
  /\ Playing!Init
  /\ Picturing!Init
  \* A service that does not run has one initial state, and a tab at rest.
  /\ focus # "list" => url = "all"
  /\ focus # "log" => logStored = NoLogFile /\ ~granted
  /\ focus # "updates" => deployed = CHOOSE b \in Builds : TRUE
  /\ focus # "shell" => path = [t \in Tabs |-> "login"]

Others(service) ==
  /\ UNCHANGED focus
  /\ service # "typing" => UNCHANGED typingVars
  /\ service # "diagnostics" => UNCHANGED diagVars
  /\ service # "tokens" => UNCHANGED tokenVars
  /\ service # "otp" => UNCHANGED otpVars
  /\ service # "reactions" => UNCHANGED fanVars
  /\ service # "posts" => UNCHANGED postVars
  /\ service # "reminders" => UNCHANGED reminderVars
  /\ service # "bell" => UNCHANGED bellVars
  /\ service # "push" => UNCHANGED pushVars
  /\ service # "list" => UNCHANGED listVars
  /\ service # "trainees" => UNCHANGED traineeVars
  /\ service # "profile" => UNCHANGED profileVars
  /\ service # "log" => UNCHANGED logVars
  /\ service # "updates" => UNCHANGED updateVars
  /\ service # "shell" => UNCHANGED shellVars
  /\ service # "feed" => UNCHANGED feedVars
  /\ service # "input" => UNCHANGED inputVars
  /\ service # "scroll" => UNCHANGED scrollVars
  /\ service # "viewer" => UNCHANGED viewerVars
  /\ service # "media" => UNCHANGED mediaVars
  /\ service # "avatar" => UNCHANGED avatarVars

ServicesNext ==
  \/ focus = "typing" /\ Indicator!Next /\ Others("typing")
  \/ focus = "diagnostics" /\ Events!Next /\ Others("diagnostics")
  \/ focus = "tokens" /\ Next /\ Others("tokens")
  \/ focus = "otp" /\ Codes!Next /\ Others("otp")
  \/ focus = "reactions" /\ Counts!Next /\ Others("reactions")
  \/ focus = "posts" /\ Publishing!Next /\ Others("posts")
  \/ focus = "reminders" /\ Reminding!Next /\ Others("reminders")
  \/ focus = "bell" /\ Ringing!Next /\ Others("bell")
  \/ focus = "push" /\ Pushing!Next /\ Others("push")
  \/ focus = "list" /\ Listing!Next /\ Others("list")
  \/ focus = "trainees" /\ Managing!Next /\ Others("trainees")
  \/ focus = "profile" /\ Editing!Next /\ Others("profile")
  \/ focus = "log" /\ Logging!Next /\ Others("log")
  \/ focus = "updates" /\ Updating!Next /\ Others("updates")
  \/ focus = "shell" /\ Routing!Next /\ Others("shell")
  \/ focus = "feed" /\ Browsing!Next /\ Others("feed")
  \/ focus = "input" /\ Input!Next /\ Others("input")
  \/ focus = "scroll" /\ Scrolling!Next /\ Others("scroll")
  \/ focus = "viewer" /\ Viewing!Next /\ Others("viewer")
  \/ focus = "media" /\ Playing!Next /\ Others("media")
  \/ focus = "avatar" /\ Picturing!Next /\ Others("avatar")

servicesVars == <<focus, typingVars, diagVars, tokenVars, otpVars, fanVars,
                  postVars, reminderVars, bellVars, pushVars, listVars,
                  traineeVars, profileVars, logVars, updateVars, shellVars,
                  feedVars, inputVars, scrollVars, viewerVars, mediaVars,
                  avatarVars>>

\* The timer, the relay and the reconnect of the typing indicator, the answers
\* to the requests of a signed-in tab, and the redirects of a tab.
ServicesSpec ==
  ServicesInit /\ [][ServicesNext]_servicesVars
  /\ Indicator!Fairness /\ Fairness /\ Routing!Fairness

\* Of the service that runs: the others are in their initial states.
ServicesTypeOK ==
  /\ focus = "typing" => Indicator!TypeOK
  /\ focus = "diagnostics" => Events!TypeOK
  /\ focus = "tokens" => TypeOK
  /\ focus = "otp" => Codes!TypeOK
  /\ focus = "reactions" => Counts!TypeOK
  /\ focus = "posts" => Publishing!TypeOK
  /\ focus = "reminders" => Reminding!TypeOK
  /\ focus = "bell" => Ringing!TypeOK
  /\ focus = "push" => Pushing!TypeOK
  /\ focus = "list" => Listing!TypeOK
  /\ focus = "trainees" => Managing!TypeOK
  /\ focus = "profile" => Editing!TypeOK
  /\ focus = "log" => Logging!TypeOK
  /\ focus = "updates" => Updating!TypeOK
  /\ focus = "shell" => Routing!TypeOK
  /\ focus = "feed" => Browsing!TypeOK
  /\ focus = "input" => Input!TypeOK
  /\ focus = "scroll" => Scrolling!TypeOK
  /\ focus = "viewer" => Viewing!TypeOK
  /\ focus = "media" => Playing!TypeOK
  /\ focus = "avatar" => Picturing!TypeOK

IndicatorGoesOut == Indicator!IndicatorGoesOut
KeptUntilLogged == Events!KeptUntilLogged
CodeOpensOneSession == Codes!CodeOpensOneSession
FilesFollowThePost == Publishing!FilesFollowThePost
OneReminderADay == Reminding!OneReminderADay
ShownToItsOwner == Pushing!ShownToItsOwner
TabComesToRest == Routing!TabComesToRest
PlaceIsKept == Scrolling!PlaceIsKept

\* What the screens show, and what the log file holds, agrees with what is
\* stored and done, at rest and outside the races that each part names.
ScreensAgreeAtRest ==
  /\ Counts!PagesAgreeAtRest
  /\ Ringing!BellAgreesAtRest
  /\ Listing!RowsAreOfTheQuery
  /\ Managing!PageAgreesAtRest
  /\ Browsing!FeedAgreesAtRest
  /\ Editing!ProfileAgreesAtRest
  /\ Logging!PanelAgreesAtRest
  /\ Logging!LinesInOrder
  /\ Updating!ShowsTheDeployed
  /\ Routing!PagesFitTheUser

\* What the conversation page shows is so: the microphone, what was sent, the
\* fitted image, the player's file and state, and the user's picture.
ShownIsSo ==
  /\ Input!MicrophoneIsShown
  /\ Input!SentAsShown
  /\ Viewing!FittedIsCentred
  /\ Playing!MediaIsOfTheMessage
  /\ Picturing!PictureOfItsUser
=============================================================================
