------------------------------- MODULE Avatar -------------------------------
(***************************************************************************)
(* The picture of a user beside a name: the hook that turns the stored URL *)
(* into one the browser may load, with its cache, and the circle that      *)
(* falls back to initials.                                                 *)
(*                                                                         *)
(* A stored URL is the key of an object of the bucket, Direct for one that *)
(* needs no signing, or NoPicture.  The signed URL of a key is the key.    *)
(***************************************************************************)
EXTENDS FiniteSets

CONSTANTS
  Objects,      \* object keys of profile pictures
  NoPicture,
  Direct     \* an https or relative URL

VARIABLES
  avatarUrl,  \* of the user that the circle is for
  resolved,   \* what the hook returned
  asking,     \* the request that is not cancelled: its key, or NoPicture
  dropped,    \* cancelled requests under way
  cache,      \* keys with a signed URL that lasts another minute
  imgError,   \* the image once failed to load: it is never reset
  failed      \* history: the present avatarUrl could not be signed

vars == <<avatarUrl, resolved, asking, dropped, cache, imgError, failed>>

StoredUrls == Objects \cup {Direct, NoPicture}

TypeOK ==
  /\ avatarUrl \in StoredUrls /\ resolved \in StoredUrls
  /\ asking \in Objects \cup {NoPicture} /\ dropped \subseteq Objects /\ cache \subseteq Objects
  /\ imgError \in BOOLEAN /\ failed \in BOOLEAN

Init ==
  /\ avatarUrl = NoPicture /\ resolved = NoPicture /\ asking = NoPicture
  /\ dropped = {} /\ cache = {} /\ imgError = FALSE /\ failed = FALSE

\* The circle gets another URL: a new picture, or another user's row under the
\* same key.  The effect cancels its request, and shows at once what it can.
Change(p) ==
  /\ p # avatarUrl /\ avatarUrl' = p /\ failed' = FALSE
  /\ dropped' = dropped \cup ({asking} \ {NoPicture})
  /\ IF p \in Objects \ cache
     THEN asking' = p /\ UNCHANGED resolved
     ELSE asking' = NoPicture /\ resolved' = p
  /\ UNCHANGED <<cache, imgError>>

\* presignKey answers: any key, for any user.
Presigned ==
  /\ asking # NoPicture /\ asking' = NoPicture
  /\ resolved' = asking /\ cache' = cache \cup {asking}
  /\ UNCHANGED <<avatarUrl, dropped, imgError, failed>>

\* Mutant: the answer is taken although the effect was cancelled.
DiscardedShown(k) ==
  /\ k \in dropped /\ dropped' = dropped \ {k} /\ resolved' = k
  /\ UNCHANGED <<avatarUrl, asking, cache, imgError, failed>>

\* A cancelled request changes nothing when it answers.
Discarded(k) ==
  /\ k \in dropped /\ dropped' = dropped \ {k}
  /\ UNCHANGED <<avatarUrl, resolved, asking, cache, imgError, failed>>

PresignFails ==
  /\ asking # NoPicture /\ asking' = NoPicture
  /\ resolved' = NoPicture /\ failed' = TRUE
  /\ UNCHANGED <<avatarUrl, dropped, cache, imgError>>

\* A minute before the hour is over the cached URL is not used any more.
Lapses(k) ==
  /\ k \in cache /\ cache' = cache \ {k}
  /\ UNCHANGED <<avatarUrl, resolved, asking, dropped, imgError, failed>>

\* The image does not load: the object is gone, or its URL ran out.
LoadFails ==
  /\ resolved # NoPicture /\ ~imgError /\ imgError' = TRUE
  /\ UNCHANGED <<avatarUrl, resolved, asking, dropped, cache, failed>>

\* The row leaves the page and comes back.
Remount ==
  /\ imgError' = FALSE /\ failed' = FALSE
  /\ dropped' = dropped \cup ({asking} \ {NoPicture})
  /\ IF avatarUrl \in Objects \ cache
     THEN asking' = avatarUrl /\ resolved' = NoPicture
     ELSE asking' = NoPicture /\ resolved' = avatarUrl
  /\ UNCHANGED <<avatarUrl, cache>>

\* UserAvatar: the picture, or the initials.
Shown == IF imgError THEN NoPicture ELSE resolved

Next ==
  \/ \E p \in StoredUrls : Change(p)
  \/ \E k \in Objects : Discarded(k) \/ Lapses(k)
  \/ Presigned \/ PresignFails \/ LoadFails \/ Remount

Spec == Init /\ [][Next]_vars

-----------------------------------------------------------------------------
\* A circle at rest shows the picture of its user, or initials where that
\* could not be signed or where a picture of this circle once did not load.
PictureOfItsUser ==
  asking = NoPicture =>
    /\ Shown \in {avatarUrl, NoPicture}
    /\ Shown = avatarUrl \/ imgError \/ failed
=============================================================================
