------------------------------- MODULE LiveLog -------------------------------
(***************************************************************************)
(* The optional log file of the admin's diagnostics panel: events are      *)
(* queued and appended to a file that the user chose, every three seconds, *)
(* by a read of the size, an open and a write with awaits between them;    *)
(* the panel starts, stops and, when it is mounted, resumes the log.       *)
(*                                                                         *)
(* An event is the number under which it was recorded; a gap that a write  *)
(* behind the end leaves in a file is a zero.  The file, its permission    *)
(* and the stored handle are the browser's.                                *)
(***************************************************************************)
EXTENDS Integers, Sequences, SequencesExt

CONSTANTS
  LogFiles,   \* files the picker may return
  MaxLines,   \* events recorded (a bound)
  MaxQueue,   \* MAX_QUEUE_LINES
  MaxToggles, \* clicks on the toggle (a bound)
  MaxMounts,  \* times the panel is opened (a bound)
  NoLogFile

VARIABLES
  stored,      \* liveLogHandle in the meta store
  granted,     \* whether the browser grants the stored handle without asking
  activeHandle,
  queue,
  writing,     \* the flush under way: its stage, lines, file and offset
  starting,    \* startLiveFileLog: no, stored, picker
  resuming,    \* resumeLiveLogIfPermitted: no, asked
  mounted, liveActive,
  content,     \* of each file
  recorded, toggles, mounts,
  swapped,     \* history: the file changed, or was emptied, between size and open
  crossed      \* history: the log stopped or started beside the panel

vars == <<stored, granted, activeHandle, queue, writing, starting, resuming, mounted,
          liveActive, content, recorded, toggles, mounts, swapped, crossed>>
panel == <<starting, resuming, mounted, liveActive, toggles, mounts>>
browser == <<stored, granted>>

Idle == [at |-> "idle", lines |-> <<>>, file |-> NoLogFile, size |-> 0, base |-> <<>>]
Handles == LogFiles \cup {NoLogFile}

TypeOK ==
  /\ stored \in Handles /\ granted \in BOOLEAN /\ activeHandle \in Handles
  /\ queue \in Seq(1..MaxLines) /\ Len(queue) <= MaxQueue
  /\ writing.at \in {"idle", "size", "write"} /\ writing.file \in Handles
  /\ starting \in {"no", "stored", "picker"} /\ resuming \in {"no", "asked"}
  /\ mounted \in BOOLEAN /\ liveActive \in BOOLEAN
  /\ content \in [LogFiles -> Seq(0..MaxLines)]
  /\ recorded \in 0..MaxLines /\ toggles \in 0..MaxToggles /\ mounts \in 0..MaxMounts
  /\ swapped \in BOOLEAN /\ crossed \in BOOLEAN

Init ==
  /\ stored \in Handles /\ granted \in BOOLEAN /\ activeHandle = NoLogFile
  /\ queue = <<>> /\ writing = Idle /\ starting = "no" /\ resuming = "no"
  /\ mounted = FALSE /\ liveActive = FALSE
  /\ content = [f \in LogFiles |-> <<>>]
  /\ recorded = 0 /\ toggles = 0 /\ mounts = 0 /\ swapped = FALSE /\ crossed = FALSE

-----------------------------------------------------------------------------
\* The sink is set exactly while a handle is active.  The queue keeps the
\* newest lines.
Enqueue(e) == LET q == Append(queue, e) IN
  IF Len(q) > MaxQueue THEN SubSeq(q, Len(q) - MaxQueue + 1, Len(q)) ELSE q

Record ==
  /\ recorded < MaxLines /\ recorded' = recorded + 1
  /\ queue' = IF activeHandle # NoLogFile THEN Enqueue(recorded') ELSE queue
  /\ UNCHANGED <<browser, activeHandle, writing, panel, content, swapped, crossed>>

Activate(f) == activeHandle' = f
StopLiveFileLog == activeHandle' = NoLogFile /\ queue' = <<>>

\* flushQueue at the interval, up to the answer of getFile, which is asked of
\* the handle of that moment.
FlushQueue ==
  /\ writing.at = "idle" /\ activeHandle # NoLogFile /\ queue # <<>>
  /\ writing' = [at |-> "size", lines |-> queue, file |-> activeHandle,
                 size |-> Len(content[activeHandle]), base |-> <<>>]
  /\ queue' = <<>>
  /\ UNCHANGED <<browser, activeHandle, panel, content, recorded, swapped, crossed>>

\* createWritable is asked of the handle of now, which another file may have
\* become in between; it keeps a copy of what the file holds.
OpenWritable ==
  /\ writing.at = "size" /\ activeHandle # NoLogFile
  /\ writing' = [writing EXCEPT !.at = "write", !.file = activeHandle,
                            !.base = content[activeHandle]]
  /\ swapped' = (swapped \/ activeHandle # writing.file)
  /\ UNCHANGED <<browser, activeHandle, queue, panel, content, recorded, crossed>>

\* Mutant: the write does not seek to the end first.
WrittenAtStart(old, size, lines) ==
  lines \o SubSeq(old, Len(lines) + 1, Len(old))

\* write and close: the lines at the offset that was read, in that copy.
Written(old, size, lines) ==
  LET pad == [i \in 1..size |-> IF i <= Len(old) THEN old[i] ELSE 0]
      new == pad \o lines
  IN IF Len(old) > Len(new) THEN new \o SubSeq(old, Len(new) + 1, Len(old)) ELSE new

CloseWritable ==
  /\ writing.at = "write" /\ writing' = Idle
  /\ content' = [content EXCEPT ![writing.file] =
                   Written(writing.base, writing.size, writing.lines)]
  /\ UNCHANGED <<browser, activeHandle, queue, panel, recorded, swapped, crossed>>

\* Any of the three may fail, and createWritable does after a stop.  The catch
\* stops the log that is active now, which need not be the one it wrote for.
WriteFails ==
  /\ writing.at # "idle" /\ writing' = Idle
  /\ StopLiveFileLog /\ crossed' = TRUE
  /\ UNCHANGED <<browser, panel, content, recorded, swapped>>

-----------------------------------------------------------------------------
\* The panel.  Mounting it resumes the log when the browser already grants it.
Mount ==
  /\ ~mounted /\ mounts < MaxMounts /\ mounts' = mounts + 1
  /\ mounted' = TRUE
  /\ IF activeHandle # NoLogFile
     THEN liveActive' = TRUE /\ UNCHANGED <<resuming, crossed>>
     ELSE liveActive' = FALSE /\ resuming' = "asked" /\ crossed' = (starting # "no")
  /\ UNCHANGED <<browser, activeHandle, queue, writing, starting, content, recorded,
                 toggles, swapped>>

Unmount ==
  /\ mounted /\ mounted' = FALSE /\ liveActive' = FALSE
  /\ UNCHANGED <<browser, activeHandle, queue, writing, starting, resuming, content,
                 recorded, toggles, mounts, swapped, crossed>>

\* Its answer.  The panel that asked may be gone.
Resumed(shown) ==
  /\ resuming = "asked" /\ resuming' = "no" /\ (shown => mounted)
  /\ LET able == stored # NoLogFile /\ granted
     IN /\ IF able THEN Activate(stored) ELSE UNCHANGED activeHandle
        /\ liveActive' = IF shown THEN able ELSE liveActive
  /\ crossed' = (crossed \/ ~shown \/ starting # "no"
                   \/ (activeHandle # NoLogFile /\ activeHandle' # stored))
  /\ UNCHANGED <<browser, queue, writing, starting, mounted, content, recorded, toggles,
                 mounts, swapped>>

\* handleLiveToggle: stop, or start with the stored handle and then the picker.
Toggle ==
  /\ mounted /\ starting = "no" /\ toggles < MaxToggles /\ toggles' = toggles + 1
  /\ IF liveActive
     THEN StopLiveFileLog /\ liveActive' = FALSE /\ crossed' = (resuming = "asked")
          /\ UNCHANGED starting
     ELSE IF activeHandle # NoLogFile
     THEN liveActive' = TRUE /\ crossed' = (resuming = "asked")
          /\ UNCHANGED <<activeHandle, queue, starting>>
     ELSE starting' = "stored" /\ crossed' = (crossed \/ resuming = "asked")
          /\ UNCHANGED <<activeHandle, queue, liveActive>>
  /\ UNCHANGED <<browser, writing, resuming, mounted, content, recorded, mounts, swapped>>

\* The stored handle, when the user or the browser grants it; else it is
\* forgotten and the picker opens.
TryStored(grant) ==
  /\ starting = "stored"
  /\ IF stored # NoLogFile /\ grant
     THEN Activate(stored) /\ granted' = TRUE /\ starting' = "no" /\ liveActive' = mounted
          /\ crossed' = (crossed \/ ~mounted) /\ UNCHANGED stored
     ELSE stored' = NoLogFile /\ starting' = "picker"
          /\ UNCHANGED <<activeHandle, granted, liveActive, crossed>>
  /\ UNCHANGED <<queue, writing, resuming, mounted, content, recorded, toggles, mounts,
                 swapped>>

\* The picker's file, which it empties; the handle is kept when the meta store
\* takes it.
Picked(f, kept) ==
  /\ starting = "picker" /\ starting' = "no"
  /\ content' = [content EXCEPT ![f] = <<>>]
  /\ Activate(f) /\ liveActive' = mounted /\ granted' = TRUE
  /\ stored' = IF kept THEN f ELSE stored
  /\ crossed' = (crossed \/ ~mounted)
  /\ swapped' = (swapped \/ (writing.at = "size" /\ writing.file = f))
  /\ UNCHANGED <<queue, writing, resuming, mounted, recorded, toggles, mounts>>

PickerCancelled ==
  /\ starting = "picker" /\ starting' = "no"
  /\ UNCHANGED <<browser, activeHandle, queue, writing, resuming, mounted, liveActive,
                 content, recorded, toggles, mounts, swapped, crossed>>

Next ==
  \/ Record \/ FlushQueue \/ OpenWritable \/ CloseWritable \/ WriteFails
  \/ Mount \/ Unmount \/ Toggle \/ PickerCancelled
  \/ \E b \in BOOLEAN : Resumed(b) \/ TryStored(b) \/ \E f \in LogFiles : Picked(f, b)

Spec == Init /\ [][Next]_vars

-----------------------------------------------------------------------------
\* A file holds events in the order they were recorded, each once and without
\* a gap between two writes, unless another file was chosen between the read
\* of a size and the open (diagnostics-live-log.ts:92-94).
LinesInOrder ==
  \A f \in LogFiles : ~swapped =>
    \A i \in 1..Len(content[f]) : content[f][i] > (IF i = 1 THEN 0 ELSE content[f][i - 1])

\* At rest the panel shows whether the log is active, unless a write failed, or
\* a start and a resume or an unmount crossed since the last click or mount.
PanelAgreesAtRest ==
  mounted /\ starting = "no" /\ resuming = "no" /\ ~crossed =>
    (liveActive = (activeHandle # NoLogFile))
=============================================================================
