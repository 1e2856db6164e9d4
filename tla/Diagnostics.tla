---------------------------- MODULE Diagnostics ----------------------------
(***************************************************************************)
(* The client's diagnostics of one tab: socket-diagnostics (the ring       *)
(* buffer and its flush), diagnostics-store (IndexedDB), and               *)
(* diagnostics-recovery (the flush of what IndexedDB still holds), against *)
(* the gateway's handler with its rate limit per socket.                   *)
(*                                                                         *)
(* Events are numbered in the order they are recorded; the number stands   *)
(* for diagnosticEventId, which is unique because every boot has its own   *)
(* pageInstanceId and seq goes on from the restored buffer.                *)
(***************************************************************************)
EXTENDS Integers, Sequences, FiniteSets, SequencesExt, Filtering

CONSTANTS
  MaxEvents,   \* events recorded in all (a bound)
  MaxBuffer,   \* MAX_BUFFER and MAX_BATCH, 100 in the code
  MaxStored,   \* DIAG_RETENTION_MAX_EVENTS, 2000 in the code
  Invalid,     \* events the server's validator refuses
  MaxBoots,    \* reloads of the page (a bound)
  MaxWire      \* batches and acks under way (a bound)

Ids == 1..MaxEvents

VARIABLES
  seq,       \* seqCounter
  buf,       \* buffer, and its copy in sessionStorage
  stored,    \* IndexedDB: absent, unsent (serverReceived: false) or received
  writes,    \* events whose add() has not ended
  reported,  \* reportedInternalErrors
  connected, \* the attached socket
  hidden,    \* inPageHide
  timer,     \* flushTimer
  flushing,  \* flushInFlight
  recovery,  \* diagnostics-recovery: idle, scheduled or sent
  wire,      \* batches and their acks
  limited,   \* the server's 10 s since the socket's last accepted batch
  logged,    \* events the server has logged
  boots,
  dropped,   \* history: events the ring buffer or a closed tab let go of
  pruned     \* history: events IndexedDB never had or no longer has

vars == <<seq, buf, stored, writes, reported, connected, hidden, timer,
          flushing, recovery, wire, limited, logged, boots, dropped, pruned>>
store == <<stored, writes, reported, pruned>>
delivery == <<recovery, wire, limited, logged>>

Senders == {"flush", "recovery"}
\* `open`: the sender still waits for this ack.
Messages == [from : Senders, ids : SUBSET Ids, open : BOOLEAN,
             ack : {"none", "ok", "refused"}]

TypeOK ==
  /\ seq \in 0..MaxEvents
  /\ buf \in Seq(Ids) /\ Len(buf) <= MaxBuffer
  /\ stored \in [Ids -> {"absent", "unsent", "received"}]
  /\ writes \subseteq Ids
  /\ reported \in BOOLEAN /\ connected \in BOOLEAN /\ hidden \in BOOLEAN
  /\ timer \in BOOLEAN /\ flushing \in BOOLEAN /\ limited \in BOOLEAN
  /\ recovery \in {"idle", "scheduled", "sent"}
  /\ wire \subseteq Messages
  /\ logged \subseteq Ids /\ dropped \subseteq Ids /\ pruned \subseteq Ids
  /\ boots \in 0..MaxBoots

Init ==
  /\ seq = 0 /\ buf = <<>> /\ stored = [e \in Ids |-> "absent"] /\ writes = {}
  /\ reported = FALSE /\ connected = FALSE /\ hidden = FALSE
  /\ timer = FALSE /\ flushing = FALSE /\ recovery = "scheduled"
  /\ wire = {} /\ limited = FALSE /\ logged = {}
  /\ boots = 0 /\ dropped = {} /\ pruned = {}

-----------------------------------------------------------------------------
\* Mutant: the buffer is not cut to MAX_BUFFER.
RecordedWithoutLimit(local) ==
  /\ seq < MaxEvents
  /\ seq' = seq + 1 /\ buf' = Append(buf, seq + 1)
  /\ IF local THEN writes' = writes \cup {seq + 1} /\ UNCHANGED pruned
              ELSE writes' = writes /\ pruned' = pruned \cup {seq + 1}
  /\ UNCHANGED dropped

\* record: the ring buffer first, then IndexedDB, which `local` leaves out for
\* the event that reports its failure.
Recorded(local) ==
  LET e == seq + 1
      longer == Append(buf, e)
      over == Len(longer) > MaxBuffer
  IN /\ seq < MaxEvents
     /\ seq' = e
     /\ buf' = IF over THEN Tail(longer) ELSE longer
     /\ dropped' = IF over THEN dropped \cup {Head(longer)} ELSE dropped
     /\ IF local THEN writes' = writes \cup {e} /\ UNCHANGED pruned
                 ELSE writes' = writes /\ pruned' = pruned \cup {e}

\* scheduleFlush after an event was recorded, so that the buffer is not empty.
ScheduleFlush(up, hid) == timer' = (timer \/ (up /\ ~flushing /\ ~hid))

Record ==
  /\ Recorded(TRUE) /\ ScheduleFlush(connected, hidden)
  /\ UNCHANGED <<stored, reported, connected, hidden, flushing, delivery, boots>>

\* persistDiagEvents: add() keeps a record that is already there.
Persist(e) ==
  /\ e \in writes /\ writes' = writes \ {e}
  /\ stored' = [stored EXCEPT ![e] = IF @ = "absent" THEN "unsent" ELSE @]
  /\ UNCHANGED <<seq, buf, reported, connected, hidden, timer, flushing, delivery,
                 boots, dropped, pruned>>

\* The database is unusable: reported as one event of its own per boot.
PersistFails(e) ==
  /\ e \in writes
  /\ IF reported \/ seq = MaxEvents
     THEN /\ writes' = writes \ {e} /\ pruned' = pruned \cup {e}
          /\ UNCHANGED <<seq, buf, dropped, timer>>
     ELSE LET r == seq + 1 IN
          /\ seq' = r
          /\ buf' = IF Len(buf) = MaxBuffer THEN Append(Tail(buf), r) ELSE Append(buf, r)
          /\ dropped' = IF Len(buf) = MaxBuffer THEN dropped \cup {Head(buf)} ELSE dropped
          /\ writes' = writes \ {e} /\ pruned' = pruned \cup {e, r}
          /\ ScheduleFlush(connected, hidden)
  /\ reported' = TRUE
  /\ UNCHANGED <<stored, connected, hidden, flushing, delivery, boots>>

Held == {e \in Ids : stored[e] # "absent"}

\* pruneDiagEvents: the oldest go, received or not.
Prune ==
  /\ Cardinality(Held) > MaxStored
  /\ \E oldest \in Held :
       /\ \A o \in Held : oldest <= o
       /\ stored' = [stored EXCEPT ![oldest] = "absent"]
       /\ pruned' = pruned \cup {oldest}
  /\ UNCHANGED <<seq, buf, writes, reported, connected, hidden, timer, flushing,
                 delivery, boots, dropped>>

\* markDiagEventsServerReceived, of those IndexedDB holds.
MarkReceived(ids) ==
  stored' = [e \in Ids |-> IF e \in ids /\ stored[e] = "unsent" THEN "received"
                                                               ELSE stored[e]]

-----------------------------------------------------------------------------
Request(from, ids) == [from |-> from, ids |-> ids, open |-> TRUE, ack |-> "none"]
Settled(from) == {[m EXCEPT !.open = IF m.from = from THEN FALSE ELSE @] : m \in wire}

\* flushNow, when the timer of scheduleFlush fires.
Flush ==
  /\ Cardinality(wire) < MaxWire
  /\ timer /\ timer' = FALSE
  /\ IF connected /\ ~hidden /\ ~flushing /\ buf # <<>>
     THEN flushing' = TRUE /\ wire' = wire \cup {Request("flush", ToSet(buf))}
     ELSE UNCHANGED <<flushing, wire>>
  /\ UNCHANGED <<seq, buf, store, connected, hidden, recovery, limited, logged,
                 boots, dropped>>

\* Mutant: an ack empties the buffer, with what was recorded meanwhile.
FlushAckedClearingAll(m) ==
  /\ m \in wire /\ m.from = "flush" /\ m.ack # "none"
  /\ wire' = wire \ {m}
  /\ IF m.open
     THEN /\ flushing' = FALSE
          /\ IF m.ack = "ok"
             THEN MarkReceived(m.ids) /\ buf' = <<>>
             ELSE UNCHANGED <<stored, buf>>
     ELSE UNCHANGED <<flushing, stored, buf>>
  /\ UNCHANGED <<seq, writes, reported, pruned, connected, hidden, timer, recovery,
                 limited, logged, boots, dropped>>

\* What was recorded after every event of a batch.
Later(ids) == {i \in 1..Len(buf) : \A e \in ids : buf[i] > e}

\* The ack of a flush, ignored once its 5 s are over; ok clears what was sent.
FlushAcked(m) ==
  /\ m \in wire /\ m.from = "flush" /\ m.ack # "none"
  /\ wire' = wire \ {m}
  /\ IF m.open
     THEN /\ flushing' = FALSE
          /\ IF m.ack = "ok"
             THEN /\ MarkReceived(m.ids)
                  /\ buf' = Kept(buf, Later(m.ids))
                  /\ timer' = (timer \/ (connected /\ ~hidden /\ buf' # <<>>))
             ELSE UNCHANGED <<stored, buf, timer>>
     ELSE UNCHANGED <<flushing, stored, buf, timer>>
  /\ UNCHANGED <<seq, writes, reported, pruned, connected, hidden, recovery,
                 limited, logged, boots, dropped>>

FlushTimesOut ==
  /\ flushing /\ flushing' = FALSE
  /\ wire' = Settled("flush")
  /\ UNCHANGED <<seq, buf, store, connected, hidden, timer, recovery, limited,
                 logged, boots, dropped>>

\* validateDiagnosticsBatch: one malformed event refuses the batch.
Valid(ids) == ids # {} /\ Cardinality(ids) <= MaxBuffer /\ ids \cap Invalid = {}

\* handleClientDiagnostics.
HandleBatch(m) ==
  /\ m \in wire /\ m.ack = "none" /\ connected
  /\ LET ok == ~limited /\ Valid(m.ids) IN
     /\ wire' = (wire \ {m}) \cup {[m EXCEPT !.ack = IF ok THEN "ok" ELSE "refused"]}
     /\ logged' = IF ok THEN logged \cup m.ids ELSE logged
     /\ limited' = (limited \/ ok)
  /\ UNCHANGED <<seq, buf, store, connected, hidden, timer, flushing, recovery,
                 boots, dropped>>

\* DIAG_MIN_BATCH_INTERVAL_MS have passed.
LimitPasses ==
  /\ limited /\ limited' = FALSE
  /\ UNCHANGED <<seq, buf, store, connected, hidden, timer, flushing, recovery,
                 wire, logged, boots, dropped>>

-----------------------------------------------------------------------------
\* readUnsentDiagEvents: the oldest that the server has not acknowledged.
Unsent == {e \in Ids : stored[e] = "unsent"}
Oldest(S) == {e \in S : Cardinality({o \in S : o < e}) < MaxBuffer}

\* runFlush and sendOneBatch, when the pending timer fires.  Not ready, or
\* nothing unsent: wait for the next trigger.
Recover ==
  /\ recovery = "scheduled" /\ Cardinality(wire) < MaxWire
  /\ IF connected /\ Unsent # {}
     THEN recovery' = "sent" /\ wire' = wire \cup {Request("recovery", Oldest(Unsent))}
     ELSE recovery' = "idle" /\ UNCHANGED wire
  /\ UNCHANGED <<seq, buf, store, connected, hidden, timer, flushing, limited,
                 logged, boots, dropped>>

\* A late ack still marks its events; only the wait is over.
RecoveryAcked(m) ==
  /\ m \in wire /\ m.from = "recovery" /\ m.ack # "none"
  /\ wire' = wire \ {m}
  /\ IF m.ack = "ok" THEN MarkReceived(m.ids) ELSE UNCHANGED stored
  /\ recovery' = IF ~m.open THEN recovery
                 ELSE IF m.ack = "ok" /\ Cardinality(m.ids) < MaxBuffer THEN "idle"
                 ELSE "scheduled"
  /\ UNCHANGED <<seq, buf, writes, reported, pruned, connected, hidden, timer,
                 flushing, limited, logged, boots, dropped>>

\* No ack within 5 s: backed off, then again.
RecoveryTimesOut ==
  /\ recovery = "sent" /\ recovery' = "scheduled"
  /\ wire' = Settled("recovery")
  /\ UNCHANGED <<seq, buf, store, connected, hidden, timer, flushing, limited,
                 logged, boots, dropped>>

-----------------------------------------------------------------------------
\* attachSocketDiagnostics and initDiagnosticsRecovery: every connect and
\* disconnect is an event; a connect schedules both flushes.  The rate limit
\* is per socket, so that a new connection starts without it.
Connect ==
  /\ ~connected /\ connected' = TRUE /\ limited' = FALSE
  /\ Recorded(TRUE) /\ ScheduleFlush(TRUE, hidden) /\ UNCHANGED hidden
  /\ recovery' = IF recovery = "idle" THEN "scheduled" ELSE recovery
  /\ UNCHANGED <<stored, reported, flushing, wire, logged, boots>>

Disconnect ==
  /\ connected /\ connected' = FALSE
  /\ wire' = {}
  /\ Recorded(TRUE) /\ UNCHANGED <<hidden, timer>>
  /\ UNCHANGED <<stored, reported, flushing, recovery, limited, logged, boots>>

\* pagehide and pageshow.
HidePage(on) ==
  /\ hidden # on /\ hidden' = on
  /\ Recorded(TRUE) /\ ScheduleFlush(connected, on) /\ UNCHANGED connected
  /\ UNCHANGED <<stored, reported, flushing, delivery, boots>>

\* A reload restores the buffer from sessionStorage (restoreOnce); a closed
\* tab loses it.  What was being written is in IndexedDB or is not.
Boot(kept) ==
  /\ boots < MaxBoots /\ boots' = boots + 1
  /\ IF kept THEN UNCHANGED <<buf, dropped>>
             ELSE buf' = <<>> /\ dropped' = dropped \cup ToSet(buf)
  /\ \E done \in SUBSET writes :
       /\ stored' = [e \in Ids |-> IF e \in done /\ stored[e] = "absent"
                                   THEN "unsent" ELSE stored[e]]
       /\ pruned' = pruned \cup (writes \ done)
  /\ writes' = {} /\ reported' = FALSE
  /\ connected' = FALSE /\ hidden' = FALSE /\ timer' = FALSE /\ flushing' = FALSE
  /\ recovery' = "scheduled" /\ wire' = {} /\ limited' = FALSE
  /\ UNCHANGED <<seq, logged>>

Next ==
  \/ Record \/ Prune \/ Flush \/ FlushTimesOut \/ LimitPasses
  \/ \E e \in Ids : Persist(e) \/ PersistFails(e)
  \/ \E m \in wire : FlushAcked(m) \/ HandleBatch(m) \/ RecoveryAcked(m)
  \/ Recover \/ RecoveryTimesOut \/ Connect \/ Disconnect
  \/ \E on \in BOOLEAN : HidePage(on) \/ Boot(on)

Spec == Init /\ [][Next]_vars

-----------------------------------------------------------------------------
\* An event leaves the ring buffer, or counts as received in IndexedDB, only
\* when the server has logged it or when the code means to let it go (a full
\* buffer, a closed tab, retention, an unusable database): no ack, late or for
\* an older batch, covers an event it was not for.
KeptUntilLogged ==
  \A e \in 1..seq : e \notin logged =>
    /\ e \in ToSet(buf) \cup dropped
    /\ e \in writes \cup pruned \/ stored[e] = "unsent"
=============================================================================
