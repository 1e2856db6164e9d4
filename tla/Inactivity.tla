----------------------------- MODULE Inactivity -----------------------------
(***************************************************************************)
(* The hourly job of NotificationsService: a reminder by SMS to trainees   *)
(* and admins with unread messages who have not been seen for a day.       *)
(*                                                                         *)
(* A run of the job is two loops at the same time, one over trainees and   *)
(* one over admins, each with a check, an SMS and a log entry per          *)
(* recipient.  The request to the SMS provider has no timeout, so that a   *)
(* loop can still be running when the next hour starts another.  One hour  *)
(* of the model is the day of the code divided by Window.                  *)
(***************************************************************************)
EXTENDS Integers, FiniteSets

CONSTANTS
  Trainees, Admins,
  Window,    \* INACTIVITY_HOURS, 24 in the code
  MaxHours   \* hours, and so runs of the job (a bound)

Recipients == Trainees \cup Admins
Hours == 1..MaxHours
Kinds == {"users", "admins"}
Never == 0
NoOne == "no one"

VARIABLES
  hour,
  unread,    \* trainees whose conversation has unreadByUser > 0
  inbox,     \* some conversation has unreadByAdmin > 0
  seen,      \* lastSeenAt
  log,       \* sentAt of each recipient's latest entry in NotificationLog
  sms,       \* the hour of the last reminder that arrived
  pestered,  \* history: recipients with two reminders in less than a day
  loop,      \* the loops of each hour's run
  unlogged,  \* history: a log entry could not be written
  raced      \* history: two loops had checked the recipient at once

vars == <<hour, unread, inbox, seen, log, sms, pestered, loop, unlogged, raced>>
world == <<hour, unread, inbox, seen>>

Loops == [at : {"idle", "listing", "looping", "sending", "logging"},
          todo : SUBSET Recipients, who : Recipients \cup {NoOne}]

NoLoop(at) == [at |-> at, todo |-> {}, who |-> NoOne]

TypeOK ==
  /\ hour \in Hours /\ unread \subseteq Trainees /\ inbox \in BOOLEAN
  /\ seen \in [Recipients -> 0..MaxHours]
  /\ log \in [Recipients -> 0..MaxHours] /\ sms \in [Recipients -> 0..MaxHours]
  /\ pestered \subseteq Recipients
  /\ loop \in [Hours \X Kinds -> Loops]
  /\ unlogged \subseteq Recipients /\ raced \subseteq Recipients

Init ==
  /\ hour = 1 /\ unread = {} /\ inbox = FALSE
  /\ seen = [w \in Recipients |-> Never]
  /\ log = [w \in Recipients |-> Never] /\ sms = [w \in Recipients |-> Never]
  /\ pestered = {}
  /\ loop = [l \in Hours \X Kinds |-> NoLoop("idle")]
  /\ unlogged = {} /\ raced = {}

Go(l, place) == loop' = [loop EXCEPT ![l].at = place]

-----------------------------------------------------------------------------
Tick ==
  /\ hour < MaxHours /\ hour' = hour + 1
  /\ UNCHANGED <<unread, inbox, seen, log, sms, pestered, loop, unlogged, raced>>

\* A message to a trainee or to the centre, and its being read.
Write(t) ==
  /\ unread' = unread \cup {t}
  /\ UNCHANGED <<hour, inbox, seen, log, sms, pestered, loop, unlogged, raced>>

WriteToCentre ==
  /\ inbox' = TRUE
  /\ UNCHANGED <<hour, unread, seen, log, sms, pestered, loop, unlogged, raced>>

\* CHAT_SEEN sets lastSeenAt.
See(w) ==
  /\ seen' = [seen EXCEPT ![w] = hour]
  /\ unread' = unread \ {w} /\ inbox' = (inbox /\ w \notin Admins)
  /\ UNCHANGED <<hour, log, sms, pestered, loop, unlogged, raced>>

-----------------------------------------------------------------------------
\* handleInactivityNotifications, once an hour: both loops with one threshold,
\* a day before the hour they are named after.
Start ==
  /\ \A k \in Kinds : loop[<<hour, k>>].at = "idle"
  /\ loop' = [l \in Hours \X Kinds |->
       IF l[1] = hour THEN NoLoop("listing") ELSE loop[l]]
  /\ UNCHANGED <<world, log, sms, pestered, unlogged, raced>>

Absent(since) == {w \in Recipients : seen[w] = Never \/ seen[w] < since}
Due(kind, since) ==
  IF kind = "users" THEN unread \cap Absent(since)
  ELSE IF inbox THEN Admins \cap Absent(since) ELSE {}

\* The findMany of notifyInactiveUsers and notifyInactiveAdmins; who reads the
\* messages from now on is reminded all the same.
List(l) ==
  /\ loop[l].at = "listing"
  /\ loop' = [loop EXCEPT ![l] =
       [NoLoop("looping") EXCEPT !.todo = Due(l[2], l[1] - Window)]]
  /\ UNCHANGED <<world, log, sms, pestered, unlogged, raced>>

Busy(w) == \E l \in DOMAIN loop : loop[l].who = w

\* The check of sendIfNotAlreadySent for the next recipient; a loop with none
\* left has ended.
Check(l, w) ==
  /\ loop[l].at = "looping" /\ w \in loop[l].todo
  /\ IF log[w] # Never /\ log[w] > hour - Window
     THEN loop' = [loop EXCEPT ![l].todo = @ \ {w}] /\ UNCHANGED raced
     ELSE /\ loop' = [loop EXCEPT ![l].at = "sending", ![l].todo = @ \ {w}, ![l].who = w]
          /\ raced' = IF Busy(w) THEN raced \cup {w} ELSE raced
  /\ UNCHANGED <<world, log, sms, pestered, unlogged>>

\* sendTemplate.  What it answers is not what has happened on the phone, and it
\* can take longer than an hour.
Send(l, delivered) ==
  /\ loop[l].at = "sending" /\ Go(l, "logging")
  /\ LET w == loop[l].who IN
     IF delivered
     THEN /\ sms' = [sms EXCEPT ![w] = hour]
          /\ pestered' = IF sms[w] # Never /\ hour - sms[w] < Window
                         THEN pestered \cup {w} ELSE pestered
     ELSE UNCHANGED <<sms, pestered>>
  /\ UNCHANGED <<world, log, unlogged, raced>>

\* Mutant: only a delivery that was reported is logged.
WriteLogOfSuccess(l, ok) ==
  /\ loop[l].at = "logging"
  /\ loop' = [loop EXCEPT ![l].at = "looping", ![l].who = NoOne]
  /\ log' = IF ok THEN [log EXCEPT ![loop[l].who] = hour] ELSE log
  /\ UNCHANGED <<world, sms, pestered, unlogged, raced>>

\* The entry, sent or failed; an error here ends this recipient only.
WriteLog(l, ok) ==
  /\ loop[l].at = "logging"
  /\ loop' = [loop EXCEPT ![l].at = "looping", ![l].who = NoOne]
  /\ log' = IF ok THEN [log EXCEPT ![loop[l].who] = hour] ELSE log
  /\ unlogged' = IF ok THEN unlogged ELSE unlogged \cup {loop[l].who}
  /\ UNCHANGED <<world, sms, pestered, raced>>

Next ==
  \/ Tick \/ Start \/ WriteToCentre
  \/ \E t \in Trainees : Write(t)
  \/ \E w \in Recipients : See(w)
  \/ \E l \in Hours \X Kinds :
       \/ List(l)
       \/ \E w \in Recipients : Check(l, w)
       \/ \E ok \in BOOLEAN : Send(l, ok) \/ WriteLog(l, ok)

Spec == Init /\ [][Next]_vars

-----------------------------------------------------------------------------
\* "Sends one SMS per recipient per 24-hour window"
\* (notifications.service.ts:8-9), unless a log entry was lost or two loops
\* overlapped on the recipient: check, SMS and entry are three steps.
OneReminderADay == pestered \subseteq unlogged \cup raced
=============================================================================
