------------------------------ MODULE Composer ------------------------------
(***************************************************************************)
(* The input of a conversation: the draft, the message being edited, the   *)
(* message being replied to (chosen from a bubble's menu or by a swipe),   *)
(* and the voice recorder with its microphone, whose permission prompt and *)
(* whose stop event come later than the tap.                               *)
(*                                                                         *)
(* A stream is the number under which the microphone was opened.  What a   *)
(* recording holds is the set of streams that were recorded into it.  What *)
(* happens to a message that was sent is the outbox's affair.              *)
(***************************************************************************)
EXTENDS Integers

CONSTANTS
  Bubbles,     \* messages on the page
  MaxStreams,  \* times the microphone is opened (a bound)
  MaxPrompts,  \* permission prompts at once (a bound)
  MaxSent,     \* messages sent (a bound)
  NoBubble

VARIABLES
  durable,     \* bubbles that are confirmed: they carry the server's id
  text,        \* the field: "empty", a "draft" of a new message, or an "edit"
  editing, replyingTo,
  byId,        \* the reply was chosen when its bubble had the server's id
  prompts,     \* getUserMedia calls under way
  lost,        \* those whose input is gone
  opened,      \* streams opened so far
  mic,         \* streams whose tracks are live
  running,     \* recorders of this input that run, by stream
  stream,      \* streamRef: the latest stream, 0 for none
  mediaRecorder,  \* mediaRecorderRef: the stream of the latest recorder, 0 for none
  recorded,    \* chunksRef
  isRecording,
  stopping,    \* sendVoiceMessage calls that await the stop event
  sent, last,  \* messages sent, and the last one
  leaked,      \* history: streams that were replaced, outlived their input, or
               \* have no recorder because making or starting it failed
  crossed      \* history: a microphone opened beside a recorder that runs or stops

vars == <<durable, text, editing, replyingTo, byId, prompts, lost, opened, mic, running,
          stream, mediaRecorder, recorded, isRecording, stopping, sent, last, leaked,
          crossed>>
message == <<text, editing, replyingTo, byId>>
recorder == <<prompts, lost, opened, mic, running, stream, mediaRecorder, recorded,
              isRecording, stopping, leaked, crossed>>
sends == <<sent, last>>

Streams == 1..MaxStreams
NothingSent == [voice |-> FALSE, text |-> "empty", shown |-> NoBubble, stored |-> NoBubble,
                byId |-> TRUE, holds |-> {}]

TypeOK ==
  /\ durable \subseteq Bubbles /\ text \in {"empty", "draft", "edit"}
  /\ editing \in Bubbles \cup {NoBubble} /\ replyingTo \in Bubbles \cup {NoBubble}
  /\ byId \in BOOLEAN /\ prompts \in 0..MaxPrompts /\ lost \in 0..MaxPrompts
  /\ opened \in 0..MaxStreams
  /\ mic \subseteq Streams /\ running \subseteq mic /\ leaked \subseteq Streams
  /\ stream \in 0..MaxStreams /\ mediaRecorder \in 0..MaxStreams
  /\ recorded \subseteq Streams /\ isRecording \in BOOLEAN
  /\ crossed \in BOOLEAN
  /\ \A c \in stopping : c.stream \in Streams
  /\ sent \in 0..MaxSent /\ last.holds \subseteq Streams

Init ==
  /\ durable = {}
  /\ text = "empty" /\ editing = NoBubble /\ replyingTo = NoBubble /\ byId = TRUE
  /\ prompts = 0 /\ lost = 0 /\ opened = 0 /\ mic = {} /\ running = {}
  /\ stream = 0 /\ mediaRecorder = 0
  /\ recorded = {} /\ isRecording = FALSE /\ stopping = {}
  /\ sent = 0 /\ last = NothingSent /\ leaked = {} /\ crossed = FALSE

-----------------------------------------------------------------------------
\* An optimistic bubble is acked and takes the server's id.
Confirmed(b) ==
  /\ b \notin durable /\ durable' = durable \cup {b}
  /\ UNCHANGED <<message, recorder, sends>>

\* The field is off while recording, but the emoji picker is not.
Type ==
  /\ text' = IF editing = NoBubble THEN "draft" ELSE "edit"
  /\ UNCHANGED <<durable, editing, replyingTo, byId, recorder, sends>>

\* The bubble's menu: only a confirmed message can be edited.  The effect on
\* editingMessage.id writes its body over the draft; a reply stays chosen.
Edit(b) ==
  /\ b \in durable /\ editing' = b
  /\ text' = IF b = editing THEN text ELSE "edit"
  /\ UNCHANGED <<durable, replyingTo, byId, recorder, sends>>

\* Mutant: the effect leaves the body of the edited message in the field.
StopEditingKeepingText == editing' = NoBubble /\ UNCHANGED text

StopEditing == /\ editing' = NoBubble
               /\ text' = IF editing = NoBubble THEN text ELSE "empty"
CancelEdit ==
  /\ editing # NoBubble /\ StopEditing
  /\ UNCHANGED <<durable, replyingTo, byId, recorder, sends>>

\* onReply, from the menu of a confirmed message or by a swipe of any.
OnReply(b) ==
  /\ replyingTo' = b /\ byId' = (b \in durable) /\ StopEditing
  /\ UNCHANGED <<durable, recorder, sends>>
ReplyFromMenu(b) == b \in durable /\ OnReply(b)
Swipe(b) == OnReply(b)
NoReply == replyingTo' = NoBubble /\ byId' = TRUE
CancelReply ==
  /\ replyingTo # NoBubble /\ NoReply
  /\ UNCHANGED <<durable, text, editing, recorder, sends>>

-----------------------------------------------------------------------------
\* The outbox takes the message and shows the reply on its bubble.  The server
\* leaves out a reply target that it cannot find by its id.
Send(voice, of, reply, ids, holds) ==
  /\ sent < MaxSent /\ sent' = sent + 1
  /\ last' = [voice |-> voice, text |-> of, shown |-> reply, byId |-> ids,
              stored |-> IF ids THEN reply ELSE NoBubble, holds |-> holds]

\* sendTextMessage: an edit goes to the server and leaves the reply.
SendText ==
  /\ text # "empty"
  /\ IF editing # NoBubble
     THEN StopEditing /\ UNCHANGED <<replyingTo, byId, sends>>
     ELSE /\ Send(FALSE, text, replyingTo, byId, {}) /\ NoReply
          /\ text' = "empty" /\ UNCHANGED editing
  /\ UNCHANGED <<durable, recorder>>

\* A chooser that was opened before a recording may answer during it.
SendFile ==
  /\ Send(FALSE, "empty", replyingTo, byId, {}) /\ NoReply
  /\ UNCHANGED <<durable, text, editing, recorder>>

-----------------------------------------------------------------------------
\* startRecording up to the prompt.  Nothing stops a second tap.
StartRecording ==
  /\ text = "empty" /\ ~isRecording /\ prompts < MaxPrompts /\ prompts' = prompts + 1
  /\ UNCHANGED <<durable, crossed, message, lost, opened, mic, running, stream,
                 mediaRecorder, recorded, isRecording, stopping, leaked, sends>>

\* getUserMedia succeeds: streamRef names the new stream and chunksRef is empty.
Opens == opened < MaxStreams /\ opened' = opened + 1 /\ mic' = mic \cup {opened + 1}
Replaces ==
  /\ prompts > 0 /\ prompts' = prompts - 1 /\ Opens
  /\ stream' = opened + 1 /\ recorded' = {}
  /\ crossed' = (crossed \/ running # {} \/ stopping # {})

\* The recorder starts, and the red bar shows it.
Granted ==
  /\ Replaces
  /\ mediaRecorder' = opened + 1 /\ running' = running \cup {opened + 1}
  /\ leaked' = leaked \cup (mic \cap {stream})
  /\ isRecording' = TRUE
  /\ UNCHANGED <<durable, message, lost, stopping, sends>>

\* The same try fails after the microphone is open, before the new recorder
\* takes its reference or after (made): the catch sets the error and stops nothing.
StartFails(made) ==
  /\ Replaces
  /\ mediaRecorder' = IF made THEN opened + 1 ELSE mediaRecorder
  /\ leaked' = leaked \cup (mic \cap {stream}) \cup (IF isRecording THEN {} ELSE {opened + 1})
  /\ UNCHANGED <<durable, message, lost, running, isRecording, stopping, sends>>

\* Either of them for an input that is gone: nothing shows the microphone.
GrantedLate ==
  /\ lost > 0 /\ lost' = lost - 1 /\ Opens /\ leaked' = leaked \cup {opened + 1}
  /\ UNCHANGED <<durable, crossed, message, prompts, running, stream, mediaRecorder,
                 recorded, isRecording, stopping, sends>>
Denied ==
  /\ \/ prompts > 0 /\ prompts' = prompts - 1 /\ UNCHANGED lost
     \/ lost > 0 /\ lost' = lost - 1 /\ UNCHANGED prompts
  /\ UNCHANGED <<durable, crossed, message, opened, mic, running, stream,
                 mediaRecorder, recorded, isRecording, stopping, leaked, sends>>

\* ondataavailable of any recorder that runs: they share chunksRef.
Data(s) ==
  /\ s \in running /\ recorded' = recorded \cup {s}
  /\ UNCHANGED <<durable, crossed, message, prompts, lost, opened, mic, running,
                 stream, mediaRecorder, isRecording, stopping, leaked, sends>>

\* sendVoiceMessage up to the stop event, with the reply of the tap.  A recorder
\* that does not run gives no recording, and the tap does nothing.
SendVoice ==
  /\ isRecording /\ text = "empty" /\ mediaRecorder \in running
  /\ running' = running \ {mediaRecorder}
  /\ stopping' = stopping \cup
       {[stream |-> mediaRecorder, reply |-> replyingTo, byId |-> byId]}
  /\ UNCHANGED <<durable, crossed, message, prompts, lost, opened, mic, stream,
                 mediaRecorder, recorded, isRecording, leaked, sends>>

\* The last data and then onstop: the tracks that streamRef names are stopped,
\* which ends their recorder, and the message goes out.
OnStop(c) ==
  /\ c \in stopping /\ stopping' = stopping \ {c}
  /\ Send(TRUE, "empty", c.reply, c.byId, recorded \cup {c.stream}) /\ NoReply
  /\ mic' = mic \ {stream} /\ running' = running \ {stream}
  /\ stream' = 0 /\ recorded' = {} /\ isRecording' = FALSE
  /\ UNCHANGED <<durable, crossed, text, editing, prompts, lost, opened,
                 mediaRecorder, leaked>>

\* Mutant: the cross stops the recorder and not the microphone.
CancelRecordingKeepingMic ==
  /\ isRecording /\ isRecording' = FALSE
  /\ running' = running \ {stream, mediaRecorder} /\ stream' = 0 /\ recorded' = {}
  /\ UNCHANGED <<durable, crossed, message, prompts, lost, opened, mic,
                 mediaRecorder, stopping, leaked, sends>>

\* cancelRecording.  It cannot take back a stop that waits for its event.
CancelRecording ==
  /\ isRecording /\ isRecording' = FALSE
  /\ running' = running \ {stream, mediaRecorder}
  /\ mic' = mic \ {stream} /\ stream' = 0 /\ recorded' = {}
  /\ UNCHANGED <<durable, crossed, message, prompts, lost, opened, mediaRecorder,
                 stopping, leaked, sends>>

\* Another page, and back: nothing stops the recorder when the input goes.
\* (A stop event comes within milliseconds: the page is left before or after.)
Leave ==
  /\ stopping = {}
  /\ text' = "empty" /\ editing' = NoBubble /\ NoReply
  /\ isRecording' = FALSE /\ stream' = 0 /\ mediaRecorder' = 0 /\ recorded' = {}
  /\ prompts' = 0 /\ lost' = lost + prompts /\ lost' <= MaxPrompts
  /\ leaked' = leaked \cup mic /\ running' = {}
  /\ UNCHANGED <<durable, crossed, opened, mic, stopping, sends>>

Next ==
  \/ \E b \in Bubbles : Confirmed(b) \/ Edit(b) \/ ReplyFromMenu(b) \/ Swipe(b)
  \/ Type \/ CancelEdit \/ CancelReply \/ SendText \/ SendFile
  \/ StartRecording \/ Granted \/ GrantedLate \/ Denied
  \/ \E made \in BOOLEAN : StartFails(made)
  \/ SendVoice \/ CancelRecording \/ Leave
  \/ \E s \in running : Data(s)
  \/ \E c \in stopping : OnStop(c)

Spec == Init /\ [][Next]_vars

-----------------------------------------------------------------------------
\* The microphone is open only while the red bar with its cross shows it, but
\* for those opened by a second tap during the prompt, by an input that was
\* left, and by a recording whose recorder could not be made or started
\* (useVoiceRecorder.ts:43-65: the catch leaves the stream open).
MicrophoneIsShown ==
  mic \ leaked \subseteq IF isRecording THEN {stream} ELSE {}

\* The words of an edit never go out as a new message, a draft never changes
\* an old one, a voice message holds its own recording only, and the quote
\* that the bubble shows is stored: unless two recordings crossed, or the
\* quote was swiped from a bubble that was not confirmed yet.
SentAsShown ==
  /\ text = "edit" => editing # NoBubble
  /\ text = "draft" => editing = NoBubble
  /\ last.text # "edit"
  /\ ~crossed => \A s, t \in last.holds : s = t
  /\ last.byId => last.stored = last.shown
=============================================================================
