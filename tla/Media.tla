------------------------------- MODULE Media -------------------------------
(***************************************************************************)
(* The attachment of one message on a page: the preview that becomes the   *)
(* stored file, the signed URLs that the server hands out for an hour and  *)
(* the tab caches for 55 minutes, and the player of a voice message.       *)
(*                                                                         *)
(* A signed URL is the number under which it was signed; Raw is the URL in *)
(* the row, Preview the object URL of an optimistic message.  The local    *)
(* storage driver hands out URLs that do not expire: there Expires is      *)
(* never taken.                                                            *)
(***************************************************************************)
EXTENDS Integers

CONSTANTS
  MaxSigned,  \* URLs signed (a bound)
  MaxOthers   \* answers on their way to a bubble that is gone (a bound)

NoUrl == -2
Preview == -1
Raw == 0
Signed == 1..MaxSigned

VARIABLES
  attachment, \* of the message: "unsent", "none", "preview" or "stored"
  mounted, url,
  asking,     \* the bubble's request is under way
  others,     \* requests whose bubble was unmounted or asked anew
  signed, cached, \* URLs signed so far; the one in the cache, 0 for none
  lapsed, expired, \* signed URLs older than 55 and than 60 minutes
  playing,    \* what the button of the player shows
  sounding,   \* the Audio of the present URL plays
  mute,       \* history: the sound stopped without the player's doing
  late        \* history: the bubble took a URL that had expired

vars == <<attachment, mounted, url, asking, others, signed, cached, lapsed, expired,
          playing, sounding, mute, late>>
server == <<signed, cached, lapsed, expired>>

TypeOK ==
  /\ attachment \in {"unsent", "none", "preview", "stored"}
  /\ mounted \in BOOLEAN /\ url \in NoUrl..MaxSigned
  /\ asking \in BOOLEAN /\ others \in 0..MaxOthers
  /\ signed \in 0..MaxSigned /\ cached \in 0..signed
  /\ lapsed \subseteq 1..signed /\ expired \subseteq lapsed
  /\ playing \in BOOLEAN /\ sounding \in BOOLEAN /\ mute \in BOOLEAN /\ late \in BOOLEAN

Init ==
  /\ attachment = "unsent" /\ mounted = FALSE /\ url = NoUrl
  /\ asking = FALSE /\ others = 0
  /\ signed = 0 /\ cached = 0 /\ lapsed = {} /\ expired = {}
  /\ playing = FALSE /\ sounding = FALSE /\ mute = FALSE /\ late = FALSE

-----------------------------------------------------------------------------
\* The effect of VoicePlayer on src: the old Audio is paused and a new one
\* made.  The button keeps what it showed.
Src(new) ==
  /\ url' = new
  /\ sounding' = (sounding /\ new = url)
  /\ mute' = (mute \/ (sounding /\ new # url))

\* Mutant: the cache keeps a URL for as long as it has one.
UsableForever == cached # 0

\* The cached URL is good for 55 minutes.
Usable == cached # 0 /\ cached \notin lapsed

\* The effect of useMediaUrl, on an attachment a and the URL that was shown.
Resolve(a, shown) ==
  \/ /\ a # "stored" /\ asking' = FALSE
     /\ Src(IF a = "none" THEN NoUrl ELSE Preview) /\ UNCHANGED late
  \/ /\ a = "stored" /\ Usable /\ asking' = FALSE /\ Src(cached)
     /\ late' = (late \/ cached \in expired)
  \/ /\ a = "stored" /\ ~Usable /\ asking' = TRUE /\ Src(shown) /\ UNCHANGED late

\* The page shows the message.  A row of the server has its stored file, or
\* the page is gone and comes back.
Mount(a) ==
  /\ ~mounted /\ mounted' = TRUE /\ attachment' = a
  /\ attachment \notin {"unsent", a} => a = "stored"
  /\ Resolve(a, NoUrl)
  /\ UNCHANGED <<others, server, playing>>

\* The player's cleanup pauses the sound; a request goes on without its bubble.
Unmount ==
  /\ mounted /\ mounted' = FALSE
  /\ url' = NoUrl /\ playing' = FALSE /\ sounding' = FALSE /\ mute' = FALSE
  /\ asking' = FALSE /\ others' = others + (IF asking THEN 1 ELSE 0) /\ others' <= MaxOthers
  /\ UNCHANGED <<attachment, server, late>>

\* The ack, a broadcast or a page brings the stored row: the bubble keeps its
\* key, and so its state.
Stored ==
  /\ mounted /\ attachment # "stored" /\ attachment' = "stored"
  /\ Resolve("stored", url)
  /\ UNCHANGED <<mounted, others, server, playing>>

-----------------------------------------------------------------------------
\* getSignedUrlForAttachment and the answer: it fills the cache, and the
\* bubble takes it unless it was cancelled.
Sign(mine) ==
  /\ signed < MaxSigned /\ signed' = signed + 1 /\ cached' = signed + 1
  /\ \/ /\ mine /\ asking /\ asking' = FALSE /\ Src(signed + 1) /\ UNCHANGED others
     \/ /\ ~mine /\ others > 0 /\ others' = others - 1
        /\ UNCHANGED <<asking, url, sounding, mute>>
  /\ UNCHANGED <<attachment, mounted, lapsed, expired, playing, late>>

\* The request fails, or the row or the right to it is not there: the raw URL.
Refused ==
  /\ \/ asking /\ asking' = FALSE /\ Src(Raw) /\ UNCHANGED others
     \/ others > 0 /\ others' = others - 1 /\ UNCHANGED <<asking, url, sounding, mute>>
  /\ UNCHANGED <<attachment, mounted, server, playing, late>>

Lapses(n) == /\ n \in 1..signed /\ n \notin lapsed /\ lapsed' = lapsed \cup {n}
             /\ UNCHANGED <<attachment, mounted, url, asking, others, signed, cached,
                            expired, playing, sounding, mute, late>>
Expires(n) == /\ n \in lapsed /\ n \notin expired /\ expired' = expired \cup {n}
              /\ UNCHANGED <<attachment, mounted, url, asking, others, signed, cached,
                             lapsed, playing, sounding, mute, late>>

-----------------------------------------------------------------------------
\* toggle.  The promise of play() is not looked at: it may be refused, and is
\* when the file is not there.
Toggle ==
  /\ mounted /\ url # NoUrl
  /\ playing' = ~playing
  /\ IF playing
     THEN sounding' = FALSE /\ mute' = FALSE
     ELSE \/ url \notin expired /\ sounding' = TRUE /\ mute' = FALSE
          \/ sounding' = FALSE /\ mute' = TRUE
  /\ UNCHANGED <<attachment, mounted, url, asking, others, server, late>>

\* onEnd; and the system's own pause, which nobody listens to.
Ended ==
  /\ sounding /\ sounding' = FALSE /\ playing' = FALSE
  /\ UNCHANGED <<attachment, mounted, url, asking, others, server, mute, late>>
Interrupted ==
  /\ sounding /\ sounding' = FALSE /\ mute' = TRUE
  /\ UNCHANGED <<attachment, mounted, url, asking, others, server, playing, late>>

Next ==
  \/ \E a \in {"none", "preview", "stored"} : Mount(a)
  \/ Unmount \/ Stored \/ Refused \/ Toggle \/ Ended \/ Interrupted
  \/ \E mine \in BOOLEAN : Sign(mine)
  \/ \E n \in Signed : Lapses(n) \/ Expires(n)

Spec == Init /\ [][Next]_vars

-----------------------------------------------------------------------------
\* A bubble at rest shows the file of its message under a URL that was good
\* when it took it, and never a preview of another state; and no voice sounds
\* without its pause button, nor the other way round unless the sound stopped
\* without the player's doing.
MediaIsOfTheMessage ==
  /\ ~late
  /\ mounted /\ ~asking =>
       url \in CASE attachment = "none" -> {NoUrl}
                 [] attachment = "preview" -> {Preview}
                 [] OTHER -> Signed \cup {Raw}
  /\ sounding => playing /\ mounted
  /\ playing => sounding \/ mute
=============================================================================
