------------------------------- MODULE Posts -------------------------------
(***************************************************************************)
(* The life of newsletter posts and of the files in them: the composer of  *)
(* one admin with its uploads, create, update and softDelete of            *)
(* NewsletterService, and UploadsService, which keeps a file in the        *)
(* storage and a row newsletterAttachment beside it.                       *)
(*                                                                         *)
(* A file stands for the media block made of it.  A second admin deletes   *)
(* posts meanwhile; every call stops at each of its awaits.                *)
(***************************************************************************)
EXTENDS Integers, FiniteSets

CONSTANTS
  Files,    \* files picked in the composer (a bound)
  PostIds   \* posts created (a bound)

NoPost == "no post"
NoFile == "no file"

VARIABLES
  post,      \* rows of newsletterPost: their state and contentBlocks
  upload,    \* each file in the browser and on its way through the server
  stored,    \* files in the storage
  row,       \* rows of newsletterAttachment: absent, or their postId
  composer,  \* what is edited, the banner and the media blocks
  banners,   \* files the open composer picked for the banner
  saving,    \* the POST or PATCH of handleSubmit
  deleting,  \* the DELETE of the second admin
  torn,      \* history: posts a deletion of which failed after the files
  left,      \* history: files whose own deletion failed (logged only)
  late,      \* history: files linked beside or after the deletion of their post
  doubled    \* history: files of a post that was made by a POST that failed

vars == <<post, upload, stored, row, composer, banners, saving, deleting, torn, left,
          late, doubled>>
server == <<stored, row, deleting, torn, left, late>>

UploadPlaces == {"unused", "storing", "recording", "ok", "unrecorded", "failed"}
Targets == PostIds \cup {NoPost}
Closed == [open |-> FALSE, of |-> NoPost, banner |-> NoFile, blocks |-> {}]
NoDeletion == [at |-> "idle", of |-> NoPost, files |-> {}]
Idle == [at |-> "idle", of |-> NoPost, new |-> FALSE, blocks |-> {}]

TypeOK ==
  /\ post \in [PostIds -> [at : {"none", "live", "deleted"}, blocks : SUBSET Files]]
  /\ upload \in [Files -> UploadPlaces]
  /\ stored \subseteq Files /\ left \subseteq Files /\ late \subseteq Files
  /\ doubled \subseteq Files /\ torn \subseteq PostIds
  /\ row \in [Files -> {"absent", "free"} \cup PostIds]
  /\ composer \in [open : BOOLEAN, of : Targets, banner : Files \cup {NoFile},
                   blocks : SUBSET Files]
  /\ banners \subseteq Files
  /\ saving \in [at : {"idle", "writing", "linking", "answering"}, of : Targets,
                 new : BOOLEAN, blocks : SUBSET Files]
  /\ deleting \in [at : {"idle", "finding", "removing", "marking"}, of : Targets,
                   files : SUBSET Files]

Init ==
  /\ post = [p \in PostIds |-> [at |-> "none", blocks |-> {}]]
  /\ upload = [f \in Files |-> "unused"]
  /\ stored = {} /\ row = [f \in Files |-> "absent"]
  /\ composer = Closed /\ banners = {} /\ saving = Idle
  /\ deleting = NoDeletion
  /\ torn = {} /\ left = {} /\ late = {} /\ doubled = {}

-----------------------------------------------------------------------------
Uploading(f) == upload[f] \in {"storing", "recording"}

\* The composer opens empty, or on a post the list shows: an image block in
\* the first place is taken for the banner, the rest are its blocks.
Open(of) ==
  /\ ~composer.open
  /\ IF of = NoPost THEN composer' = [Closed EXCEPT !.open = TRUE]
     ELSE /\ post[of].at = "live"
          /\ \E banner \in post[of].blocks \cup {NoFile} :
               composer' = [open |-> TRUE, of |-> of, banner |-> banner,
                            blocks |-> post[of].blocks \ {banner}]
  /\ UNCHANGED <<post, upload, banners, saving, server, doubled>>

\* onClose; an upload goes on without the composer.
Close ==
  /\ composer.open /\ composer' = Closed /\ banners' = {}
  /\ UNCHANGED <<post, upload, saving, server, doubled>>

\* uploadMedia: the block is in the list at once, marked as uploading.
UploadMedia(f) ==
  /\ composer.open /\ upload[f] = "unused"
  /\ upload' = [upload EXCEPT ![f] = "storing"]
  /\ composer' = [composer EXCEPT !.blocks = @ \cup {f}]
  /\ UNCHANGED <<post, banners, saving, server, doubled>>

\* uploadBanner: the block comes with the answer.
UploadBanner(f) ==
  /\ composer.open /\ upload[f] = "unused"
  /\ upload' = [upload EXCEPT ![f] = "storing"]
  /\ banners' = banners \cup {f}
  /\ UNCHANGED <<post, composer, saving, server, doubled>>

\* removeBlock, also of a block whose upload is under way.
RemoveBlock(f) ==
  /\ f \in composer.blocks
  /\ composer' = [composer EXCEPT !.blocks = @ \ {f}]
  /\ UNCHANGED <<post, upload, banners, saving, server, doubled>>

RemoveBanner ==
  /\ composer.banner # NoFile
  /\ composer' = [composer EXCEPT !.banner = NoFile]
  /\ UNCHANGED <<post, upload, banners, saving, server, doubled>>

\* uploadFile: validated and put into the storage, or refused.
StoreFile(f, ok) ==
  /\ upload[f] = "storing"
  /\ upload' = [upload EXCEPT ![f] = IF ok THEN "recording" ELSE "failed"]
  /\ stored' = IF ok THEN stored \cup {f} ELSE stored
  /\ UNCHANGED <<post, row, composer, banners, saving, deleting, torn, left, late, doubled>>

\* uploadAndRecordNewsletterAttachment: the row, or an answer with the file's
\* key in place of the row's id.  The answer settles the block if it is still
\* there, or becomes the banner.
RecordFile(f, ok) ==
  /\ upload[f] = "recording"
  /\ upload' = [upload EXCEPT ![f] = IF ok THEN "ok" ELSE "unrecorded"]
  /\ row' = [row EXCEPT ![f] = IF ok THEN "free" ELSE @]
  /\ composer' = IF f \in banners THEN [composer EXCEPT !.banner = f] ELSE composer
  /\ banners' = banners \ {f}
  /\ UNCHANGED <<post, saving, stored, deleting, torn, left, late, doubled>>

-----------------------------------------------------------------------------
Content == composer.blocks \cup ({composer.banner} \ {NoFile})

\* Mutant: canPublish without the look at the uploads.
CanPublishAtOnce ==
  /\ composer.open /\ saving.at = "idle"

\* The list must not be empty either, but a text block is enough for that.
CanPublish ==
  /\ composer.open /\ saving.at = "idle"
  /\ \A f \in composer.blocks : ~Uploading(f)

\* handleSubmit, with findPostOrFail of update.  A block that failed to upload
\* goes along; so does a banner, but not one on its way.
Submit(p) ==
  /\ CanPublish
  /\ IF composer.of = NoPost THEN post[p].at = "none" ELSE p = composer.of /\ post[p].at = "live"
  /\ saving' = [at |-> "writing", of |-> p, new |-> composer.of = NoPost, blocks |-> Content]
  /\ UNCHANGED <<post, upload, composer, banners, server, doubled>>

\* The INSERT or the UPDATE, by id only: deleted meanwhile or not.
WritePost ==
  /\ saving.at = "writing"
  /\ post' = [post EXCEPT ![saving.of] =
       [at |-> IF saving.new THEN "live" ELSE @.at, blocks |-> saving.blocks]]
  /\ saving' = [saving EXCEPT !.at = "linking"]
  /\ UNCHANGED <<upload, composer, banners, server, doubled>>

\* linkAttachments, of the blocks that have a row.
LinkAttachments ==
  /\ saving.at = "linking"
  /\ LET linked == {f \in saving.blocks : row[f] # "absent"} IN
     /\ row' = [f \in Files |-> IF f \in linked THEN saving.of ELSE row[f]]
     /\ late' = IF post[saving.of].at = "deleted" \/ deleting.of = saving.of
                THEN late \cup linked ELSE late
  /\ saving' = [saving EXCEPT !.at = "answering"]
  /\ UNCHANGED <<post, upload, composer, banners, stored, deleting, torn, left, doubled>>

\* onSaved closes the composer; after an error, or a lost answer, it stays open
\* for another try, which makes another post of the same blocks.
SaveEnds(ok) ==
  /\ saving.at # "idle" /\ (ok => saving.at = "answering")
  /\ doubled' = IF ~ok /\ saving.new /\ saving.at # "writing"
                THEN doubled \cup saving.blocks ELSE doubled
  /\ saving' = Idle
  /\ composer' = IF ok THEN Closed ELSE composer
  /\ banners' = IF ok THEN {} ELSE banners
  /\ UNCHANGED <<post, upload, server>>

-----------------------------------------------------------------------------
\* softDelete: the post is found, then its attachments.
Delete(p) ==
  /\ post[p].at = "live" /\ deleting = NoDeletion
  /\ deleting' = [NoDeletion EXCEPT !.at = "finding", !.of = p]
  /\ UNCHANGED <<post, upload, stored, row, composer, banners, saving, torn, left, late, doubled>>

FindAttachments ==
  /\ deleting.at = "finding"
  /\ deleting' = [deleting EXCEPT !.at = "removing",
                                  !.files = {f \in Files : row[f] = deleting.of}]
  /\ UNCHANGED <<post, upload, stored, row, composer, banners, saving, torn, left, late, doubled>>

\* deleteFile for each of them at once; an error is logged and forgotten.
RemoveFiles ==
  /\ deleting.at = "removing"
  /\ \E bad \in SUBSET deleting.files :
       /\ stored' = stored \ (deleting.files \ bad)
       /\ left' = left \cup bad
  /\ deleting' = [deleting EXCEPT !.at = "marking"]
  /\ UNCHANGED <<post, upload, row, composer, banners, saving, torn, late, doubled>>

MarkDeleted(ok) ==
  /\ deleting.at = "marking"
  /\ post' = IF ok THEN [post EXCEPT ![deleting.of].at = "deleted"] ELSE post
  /\ torn' = IF ok THEN torn ELSE torn \cup {deleting.of}
  /\ deleting' = NoDeletion
  /\ UNCHANGED <<upload, stored, row, composer, banners, saving, left, late, doubled>>

Next ==
  \/ \E of \in Targets : Open(of)
  \/ Close \/ RemoveBanner
  \/ \E f \in Files : UploadMedia(f) \/ UploadBanner(f) \/ RemoveBlock(f)
  \/ \E f \in Files, ok \in BOOLEAN : StoreFile(f, ok) \/ RecordFile(f, ok)
  \/ \E p \in PostIds : Submit(p) \/ Delete(p)
  \/ WritePost \/ LinkAttachments \/ FindAttachments \/ RemoveFiles
  \/ \E ok \in BOOLEAN : SaveEnds(ok) \/ MarkDeleted(ok)

Spec == Init /\ [][Next]_vars

-----------------------------------------------------------------------------
Beyond(p) == (deleting.at = "marking" /\ deleting.of = p) \/ p \in torn

\* Files follow their post.  A live post names only files whose row and
\* content are there; what the code lets through is named: a block whose
\* upload failed is published as it is, a row that could not be made is never
\* made later, a deletion that stops half-way has removed the files, and the
\* deletion of one of two posts made of the same blocks breaks the other
\* (NewsletterComposer.tsx:410-437, uploads.service.ts:328-331,
\* newsletter.service.ts:99-116, 166-169).  A deleted post leaves no file it is linked
\* to, except those that could not be removed or were linked during the
\* deletion.
FilesFollowThePost == \A p \in PostIds :
  /\ post[p].at = "live" => \A f \in post[p].blocks :
       \/ upload[f] \in {"failed", "unrecorded"} \/ f \in doubled
       \/ Beyond(p)
       \/ f \in stored /\ row[f] # "absent"
  /\ post[p].at = "deleted" => \A f \in Files :
       row[f] = p /\ f \in stored => f \in left \cup late
=============================================================================
