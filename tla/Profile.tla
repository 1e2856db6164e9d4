------------------------------- MODULE Profile -------------------------------
(***************************************************************************)
(* A user's own profile: the form of the profile page and that of the      *)
(* sheet's modal, their saves and picture uploads, the row of the users    *)
(* table, and the copy of the signed-in user that the auth store keeps in  *)
(* localStorage.  Each request keeps the user that was in the store at the *)
(* tap and writes {...user, ...} back when it is answered.                 *)
(*                                                                         *)
(* One field, the name, stands for all that the forms edit.  The admin's   *)
(* page differs from the trainee's only in the service it reaches.         *)
(***************************************************************************)
EXTENDS Integers, FiniteSets

CONSTANTS
  People,      \* users of this browser
  Names,       \* names a form may hold
  Pictures,    \* pictures to upload, each chosen once
  MaxTaps,     \* saves, uploads, logins and logouts (a bound)
  Unset       \* no picture, no user

VARIABLES
  row,       \* the users table: name, avatarUrl, profileImageAttachmentId
  user,      \* user of the auth store
  me,        \* whose tokens the browser holds
  form,      \* of each form: closed, loading, or the name in it
  ops,       \* saves and uploads under way
  chosen,    \* pictures that have been chosen
  taps,
  unsure,    \* history: the store was last written out of turn
  mixed      \* history: the page changed a picture that the modal had signed

vars == <<row, user, me, form, ops, chosen, taps, unsure, mixed>>

Forms == {"page", "modal"}
Rows == [name : Names, pic : Pictures \cup {Unset}, linked : Pictures \cup {Unset}]
Users == [id : People, name : Names, pic : Pictures \cup {Unset},
          signed : Pictures \cup {Unset}]
Stages == {"sent", "stored", "served"}
Ops == [form : Forms, kind : {"save", "upload"}, cap : Users \cup {Unset},
        who : People, name : Names \cup {"blank"}, pic : Pictures \cup {Unset},
        stage : Stages, clean : BOOLEAN, gone : BOOLEAN]

TypeOK ==
  /\ row \in [People -> Rows] /\ user \in Users \cup {Unset}
  /\ me \in People \cup {Unset}
  /\ form \in [Forms -> Names \cup {"blank", "closed", "loading"}]
  /\ ops \subseteq Ops /\ chosen \subseteq Pictures
  /\ taps \in 0..MaxTaps /\ unsure \in BOOLEAN /\ mixed \in BOOLEAN

Tap == taps < MaxTaps /\ taps' = taps + 1

\* mapToDto: the row as the store keeps it, without a signed URL.
MapToDto(u, r) == [id |-> u, name |-> r.name, pic |-> r.pic, signed |-> Unset]

Init ==
  /\ row = [u \in People |-> [name |-> CHOOSE n \in Names : TRUE,
                              pic |-> Unset, linked |-> Unset]]
  /\ user = Unset /\ me = Unset /\ form = [f \in Forms |-> "closed"]
  /\ ops = {} /\ chosen = {} /\ taps = 0 /\ unsure = FALSE /\ mixed = FALSE

\* What overlaps a request, or ends the session under it, unsettles it; one
\* whose form was left goes on without it.
Unsettled == {[o EXCEPT !.clean = FALSE] : o \in ops}
Left(f) == {IF o.form \in f THEN [o EXCEPT !.gone = TRUE] ELSE o : o \in Unsettled}

-----------------------------------------------------------------------------
\* The login's answer carries the row; logout clears the tokens and the store
\* and leaves the pages.
Login(u) ==
  /\ Tap /\ me = Unset /\ me' = u
  /\ user' = MapToDto(u, row[u])
  /\ ops' = Unsettled /\ unsure' = FALSE /\ mixed' = FALSE
  /\ UNCHANGED <<row, form, chosen>>

\* Mutant: the store keeps the user who left.
LogoutKeepingUser ==
  /\ me # Unset /\ Tap
  /\ me' = Unset
  /\ form' = [f \in Forms |-> "closed"]
  /\ ops' = Left(Forms)
  /\ UNCHANGED <<row, user, chosen, unsure, mixed>>

Logout ==
  /\ Tap /\ me # Unset /\ me' = Unset /\ user' = Unset
  /\ form' = [f \in Forms |-> "closed"]
  /\ ops' = Left(Forms)
  /\ UNCHANGED <<row, chosen, unsure, mixed>>

\* A form is opened and asks for /users/me.
Open(f) ==
  /\ me # Unset /\ form[f] = "closed" /\ form' = [form EXCEPT ![f] = "loading"]
  /\ UNCHANGED <<row, user, me, ops, chosen, taps, unsure, mixed>>

\* The cross of the modal, or a link to another page.
Close(f) ==
  /\ form[f] # "closed" /\ form' = [form EXCEPT ![f] = "closed"]
  /\ ops' = {IF o.form = f THEN [o EXCEPT !.gone = TRUE] ELSE o : o \in ops}
  /\ UNCHANGED <<row, user, me, chosen, taps, unsure, mixed>>

\* findById.  When it fails, the page keeps empty fields, which a save leaves
\* out, and the modal keeps what the store had.
Loaded(f, ok) ==
  /\ form[f] = "loading"
  /\ form' = [form EXCEPT ![f] =
       IF ok THEN row[me].name
       ELSE IF f = "modal" /\ user # Unset THEN user.name ELSE "blank"]
  /\ UNCHANGED <<row, user, me, ops, chosen, taps, unsure, mixed>>

\* handleSave and handleImageUpload up to their await.  The button is off
\* while a request of its kind is under way.
Busy(f, kind) == \E o \in ops : ~o.gone /\ o.form = f /\ o.kind = kind
Request(f, kind, n, p) ==
  /\ Tap /\ form[f] \notin {"closed", "loading"} /\ ~Busy(f, kind)
  /\ ops' = Unsettled \cup
       {[form |-> f, kind |-> kind, cap |-> user, who |-> me, name |-> n, pic |-> p,
         stage |-> "sent", clean |-> ops = {}, gone |-> FALSE]}
  /\ UNCHANGED <<row, user, me, unsure, mixed>>

\* The name may have been typed or left as it was; the modal wants one.
HandleSave(f, n) ==
  /\ n \in Names \cup {form[f]} /\ (f = "modal" => n # "blank")
  /\ Request(f, "save", n, Unset) /\ form' = [form EXCEPT ![f] = n]
  /\ UNCHANGED chosen

HandleImageUpload(f, p) ==
  /\ p \notin chosen /\ chosen' = chosen \cup {p}
  /\ Request(f, "upload", "blank", p) /\ UNCHANGED form

-----------------------------------------------------------------------------
\* The service.
Advance(o, s) == ops' = (ops \ {o}) \cup {[o EXCEPT !.stage = s]}
Served == UNCHANGED <<user, me, form, chosen, taps, unsure, mixed>>

\* updateProfile, updateAdminProfile: one update with the fields that came; the
\* answer is the row it returns.
UpdateProfile(o) ==
  /\ o \in ops /\ o.kind = "save" /\ o.stage = "sent"
  /\ row' = [row EXCEPT ![o.who].name = IF o.name = "blank" THEN @ ELSE o.name]
  /\ ops' = (ops \ {o}) \cup {[o EXCEPT !.stage = "served", !.name = row'[o.who].name,
                                         !.pic = row'[o.who].pic]}
  /\ Served

\* uploadProfileImage: the file is in the bucket; avatarUrl is set first, and
\* the attachment is linked after it, in a try that is never heard of.
SetAvatarUrl(o) ==
  /\ o \in ops /\ o.kind = "upload" /\ o.stage = "sent"
  /\ row' = [row EXCEPT ![o.who].pic = o.pic] /\ Advance(o, "stored") /\ Served
LinkAttachment(o, ok) ==
  /\ o \in ops /\ o.stage = "stored"
  /\ row' = IF ok THEN [row EXCEPT ![o.who].linked = o.pic] ELSE row
  /\ Advance(o, "served") /\ Served

-----------------------------------------------------------------------------
\* The answer.  A save of the page writes the row's fields over the captured
\* user, and the modal's the whole row, whose id is that of the tokens; the
\* page's upload writes the picture, and the modal's the signed URL as well.
Written(o) ==
  IF o.kind = "save"
  THEN IF o.form = "modal" THEN [id |-> o.who, name |-> o.name, pic |-> o.pic, signed |-> Unset]
                           ELSE [o.cap EXCEPT !.name = o.name, !.pic = o.pic]
  ELSE [o.cap EXCEPT !.pic = o.pic, !.signed = IF o.form = "modal" THEN o.pic ELSE @]

Answer(o) ==
  /\ o \in ops /\ o.stage = "served" /\ ops' = ops \ {o}
  /\ user' = IF o.cap # Unset THEN Written(o) ELSE user
  /\ form' = IF o.form = "modal" /\ o.kind = "save" /\ ~o.gone
             THEN [form EXCEPT !["modal"] = "closed"] ELSE form
  /\ unsure' = (~o.clean \/ (unsure /\ (o.kind = "upload" \/ Written(o).id # o.who)))
  /\ mixed' = (o.form = "page" /\ (mixed \/ o.cap.signed # Unset))
  /\ UNCHANGED <<row, me, chosen, taps>>

\* An error at any stage.  What the server has done stays done.
Fail(o) ==
  /\ o \in ops /\ ops' = ops \ {o}
  /\ unsure' = (unsure \/ o.stage # "sent")
  /\ UNCHANGED <<row, user, me, form, chosen, taps, mixed>>

Next ==
  \/ \E u \in People : Login(u)
  \/ Logout
  \/ \E f \in Forms : \/ Open(f) \/ Close(f)
                      \/ \E ok \in BOOLEAN : Loaded(f, ok)
                      \/ \E n \in Names \cup {"blank"} : HandleSave(f, n)
                      \/ \E p \in Pictures : HandleImageUpload(f, p)
  \/ \E o \in ops : \/ UpdateProfile(o) \/ SetAvatarUrl(o) \/ Answer(o) \/ Fail(o)
                    \/ \E ok \in BOOLEAN : LinkAttachment(o, ok)

Spec == Init /\ [][Next]_vars

-----------------------------------------------------------------------------
\* When nothing is under way, the store holds the user whose tokens the
\* browser has, as the row has it, and a signed URL in it is of that picture.
\* `unsure` names what the code does not cover: a request that overlapped
\* another one, a login or a logout, whose {...user} brings old fields or the
\* old user back (and a save of the page leaves the old user's id there); and
\* an error after the row was written.  `mixed` names the page's upload, which
\* leaves the modal's signed URL of the old picture.
ProfileAgreesAtRest ==
  ops = {} /\ ~unsure =>
    IF me = Unset THEN user = Unset
    ELSE /\ user # Unset
         /\ MapToDto(me, row[me]) = [user EXCEPT !.signed = Unset]
         /\ mixed \/ user.signed \in {Unset, user.pic}
=============================================================================
