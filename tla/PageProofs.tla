----------------------------- MODULE PageProofs -----------------------------
(***************************************************************************)
(* What holds of a conversation page for any messages and taps: the list   *)
(* shows a message once and loses it only to its deletion, and the trainee *)
(* has at most one pin.                                                    *)
(***************************************************************************)
EXTENDS MCChatSync, FilteringProofs, FiniteSetTheorems

TraineePinRuns(c) == Pinning!TraineePinRuns(c)
TraineePins == Pinning!TraineePins

\* A pin of the trainee that runs alone finds no other when it writes: it has
\* cleared them, and nobody but itself makes one.
OneTapRuns == ~overlapped =>
  \A c, d \in PinCalls : TraineePinRuns(c) /\ TraineePinRuns(d) => c = d
ClearedFirst == ~overlapped =>
  \A c \in PinCalls : TraineePinRuns(c) /\ tap[c].at = "cleared" => TraineePins = {}
PinsAlike == ~overlapped => \A m, n \in TraineePins : m = n

PinsInv == Pinning!TypeOK /\ OneTapRuns /\ ClearedFirst /\ PinsAlike

LEMMA InitPins == Pinning!Init => PinsInv
<1> SUFFICES ASSUME Pinning!Init PROVE PinsInv
  OBVIOUS
<1>1. (CHOOSE m \in PinMsgs : TRUE) \in PinMsgs
  BY PinsAssumption DEF PinsAssumption
<1>2. /\ tap \in [PinCalls -> Pinning!Taps]
      /\ \A c \in PinCalls : tap[c].at = "unused"
  BY <1>1 DEF Pinning!Init, Pinning!Unused, Pinning!Taps, Pinning!Places, Pinning!Legs,
     Pinning!People
<1>3. /\ pinnedBy \in [PinMsgs -> Pinning!People \cup {Pinning!NoOne}]
      /\ \A m \in PinMsgs : pinnedBy[m] # "trainee"
  BY DEF Pinning!Init, Pinning!NoOne
<1>a. /\ bar \in [Pinning!People -> SUBSET PinMsgs]
      /\ room \in [Pinning!People -> Seq(Pinning!Notices)]
  BY DEF Pinning!Init
<1>b. fetch \in [Pinning!People -> [at : {"initial", "read", "shown"}, msgs : SUBSET PinMsgs]]
  BY DEF Pinning!Init, Pinning!NotAsked
<1>c. gone \subseteq PinMsgs /\ overlapped \in BOOLEAN
  BY DEF Pinning!Init
<1>4. Pinning!TypeOK
  BY <1>2, <1>3, <1>a, <1>b, <1>c DEF Pinning!TypeOK
<1>5. OneTapRuns /\ ClearedFirst /\ PinsAlike
  BY <1>2, <1>3 DEF OneTapRuns, ClearedFirst, PinsAlike, TraineePinRuns, TraineePins,
     Pinning!TraineePinRuns, Pinning!TraineePins, Pinning!Running
<1> QED
  BY <1>4, <1>5 DEF PinsInv

LEMMA MovedTap ==
  ASSUME PinsInv, NEW c \in PinCalls, NEW at \in Pinning!Places, NEW leg \in Pinning!Legs,
         \/ tap' = [tap EXCEPT ![c].at = at]
         \/ tap' = [tap EXCEPT ![c].at = at, ![c].leg = leg]
  PROVE  /\ tap' \in [PinCalls -> Pinning!Taps]
         /\ tap'[c].at = at /\ tap'[c].by = tap[c].by /\ tap'[c].op = tap[c].op
         /\ \A d \in PinCalls : d # c => tap'[d] = tap[d]
<1>1. tap \in [PinCalls -> Pinning!Taps]
  BY DEF PinsInv, Pinning!TypeOK
<1>2. tap[c] \in [at : Pinning!Places, leg : Pinning!Legs, by : Pinning!People,
                  op : {"pin", "unpin"}, msg : PinMsgs]
  BY <1>1 DEF Pinning!Taps
<1>3. CASE tap' = [tap EXCEPT ![c].at = at]
  <2>1. [tap[c] EXCEPT !.at = at] \in Pinning!Taps
    BY <1>2 DEF Pinning!Taps
  <2> QED
    BY <1>1, <1>2, <1>3, <2>1
<1>4. CASE tap' = [tap EXCEPT ![c].at = at, ![c].leg = leg]
  <2>1. [tap[c] EXCEPT !.at = at, !.leg = leg] \in Pinning!Taps
    BY <1>2 DEF Pinning!Taps
  <2> QED
    BY <1>1, <1>2, <1>4, <2>1
<1> QED
  BY <1>3, <1>4

\* Steps that make no pin of the trainee, and start none.
LEMMA NoTraineePin ==
  ASSUME PinsInv, Pinning!TypeOK', UNCHANGED overlapped,
         \A m \in PinMsgs : m \notin gone' /\ pinnedBy'[m] = "trainee" =>
                              m \notin gone /\ pinnedBy[m] = "trainee",
         \A c \in PinCalls :
           Pinning!TraineePinRuns(c)' =>
             TraineePinRuns(c) /\ (tap'[c].at = "cleared" => tap[c].at = "cleared")
  PROVE  PinsInv'
<1>1. TraineePins' \subseteq TraineePins
  BY DEF TraineePins, Pinning!TraineePins
<1>2. \A c \in PinCalls : TraineePinRuns(c)' =>
        TraineePinRuns(c) /\ (tap'[c].at = "cleared" => tap[c].at = "cleared")
  BY DEF TraineePinRuns
<1> QED
  BY <1>1, <1>2 DEF PinsInv, OneTapRuns, ClearedFirst, PinsAlike

LEMMA TapPins ==
  ASSUME PinsInv, NEW c \in PinCalls, NEW u \in Pinning!People, NEW op \in {"pin", "unpin"},
         NEW m \in PinMsgs, Pinning!Tap(c, u, op, m)
  PROVE  PinsInv'
<1> USE DEF PinsInv
<1> DEFINE new == [at |-> "asked", leg |-> "rest", by |-> u, op |-> op, msg |-> m]
<1>1. /\ tap' = [tap EXCEPT ![c] = new] /\ tap[c].at = "unused"
      /\ overlapped' = (overlapped \/
           (u = "trainee" /\ op = "pin" /\ \E d \in PinCalls : TraineePinRuns(d)))
      /\ UNCHANGED <<pinnedBy, gone, bar, room, fetch>>
  BY DEF Pinning!Tap, TraineePinRuns
<1>2. /\ tap' \in [PinCalls -> Pinning!Taps] /\ overlapped' \in BOOLEAN
      /\ tap'[c].at = "asked" /\ tap'[c].by = u /\ tap'[c].op = op
      /\ \A d \in PinCalls : d # c => tap'[d] = tap[d]
  BY <1>1 DEF Pinning!TypeOK, Pinning!Taps, Pinning!Places, Pinning!Legs
<1>3. Pinning!TypeOK'
  BY <1>1, <1>2 DEF Pinning!TypeOK
<1>4. \A d \in PinCalls : d # c => (TraineePinRuns(d)' <=> TraineePinRuns(d))
  BY <1>2 DEF TraineePinRuns, Pinning!TraineePinRuns
<1>5. TraineePinRuns(c)' => u = "trainee" /\ op = "pin"
  BY <1>2 DEF TraineePinRuns, Pinning!TraineePinRuns
<1>6. TraineePins' = TraineePins
  BY <1>1 DEF TraineePins, Pinning!TraineePins
<1>7. ~overlapped' => ~overlapped /\
        (TraineePinRuns(c)' => \A d \in PinCalls : ~TraineePinRuns(d))
  BY <1>1, <1>5
<1> QED
  BY <1>2, <1>3, <1>4, <1>6, <1>7 DEF OneTapRuns, ClearedFirst, PinsAlike

LEMMA CheckPins == ASSUME PinsInv, NEW c \in PinCalls, Pinning!Check(c) PROVE PinsInv'
<1>1. /\ tap[c].at = "asked" /\ UNCHANGED <<pinnedBy, gone, bar, room, fetch, overlapped>>
      /\ \/ tap' = [tap EXCEPT ![c].at = "checked"]
         \/ tap' = [tap EXCEPT ![c].at = "refused"]
  BY DEF Pinning!Check
<1>2. /\ tap' \in [PinCalls -> Pinning!Taps]
      /\ tap'[c].at \in {"checked", "refused"} /\ tap'[c].by = tap[c].by /\ tap'[c].op = tap[c].op
      /\ \A d \in PinCalls : d # c => tap'[d] = tap[d]
  BY <1>1, MovedTap DEF Pinning!Places, Pinning!Legs
<1>3. Pinning!TypeOK'
  BY <1>1, <1>2 DEF PinsInv, Pinning!TypeOK
<1> QED
  BY <1>1, <1>2, <1>3, NoTraineePin DEF TraineePinRuns, Pinning!TraineePinRuns, Pinning!Running

LEMMA ClearPins == ASSUME PinsInv, NEW c \in PinCalls, Pinning!Clear(c) PROVE PinsInv'
<1> USE DEF PinsInv
<1>1. /\ TraineePinRuns(c)
      /\ pinnedBy' = [m \in PinMsgs |-> IF m \in gone THEN pinnedBy[m] ELSE Pinning!NoOne]
      /\ tap' = [tap EXCEPT ![c].at = "cleared"]
      /\ UNCHANGED <<gone, bar, room, fetch, overlapped>>
  BY DEF Pinning!Clear, TraineePinRuns
<1>2. /\ tap' \in [PinCalls -> Pinning!Taps]
      /\ tap'[c].by = tap[c].by /\ tap'[c].op = tap[c].op
      /\ \A d \in PinCalls : d # c => tap'[d] = tap[d]
      /\ pinnedBy' \in [PinMsgs -> Pinning!People \cup {Pinning!NoOne}]
  BY <1>1, MovedTap DEF Pinning!TypeOK, Pinning!Places, Pinning!Legs
<1>3. Pinning!TypeOK'
  BY <1>1, <1>2 DEF Pinning!TypeOK
<1>4. TraineePins' = {}
  BY <1>1 DEF TraineePins, Pinning!TraineePins, Pinning!NoOne
<1>5. \A d \in PinCalls : TraineePinRuns(d)' => TraineePinRuns(d)
  BY <1>1, <1>2 DEF TraineePinRuns, Pinning!TraineePinRuns
<1> QED
  BY <1>1, <1>3, <1>4, <1>5 DEF OneTapRuns, ClearedFirst, PinsAlike

\* The trainee's own write is the first after its clearing.
LEMMA WritePins == ASSUME PinsInv, NEW c \in PinCalls, Pinning!Write(c) PROVE PinsInv'
<1> USE DEF PinsInv
<1> DEFINE t == tap[c]
<1>1. /\ t.at = IF TraineePinRuns(c) THEN "cleared" ELSE "checked"
      /\ pinnedBy' = [pinnedBy EXCEPT ![t.msg] = IF t.op = "pin" THEN t.by ELSE Pinning!NoOne]
      /\ UNCHANGED <<gone, fetch, overlapped>>
  BY DEF Pinning!Write, TraineePinRuns
<1>2. t \in Pinning!Taps
  BY DEF Pinning!TypeOK
<1>3. \/ /\ tap' = [tap EXCEPT ![c].at = "asked", ![c].leg = "socket"]
         /\ bar' = [bar EXCEPT ![t.by] = IF t.op = "pin" THEN @ \cup {t.msg} ELSE @ \ {t.msg}]
         /\ room' = room
      \/ /\ tap' = [tap EXCEPT ![c].at = "done"]
         /\ room' = [u \in Pinning!People |-> Append(room[u], [op |-> t.op, msg |-> t.msg])]
         /\ bar' = bar
  BY DEF Pinning!Write
<1>4. /\ tap' \in [PinCalls -> Pinning!Taps]
      /\ tap'[c].at \in {"asked", "done"} /\ tap'[c].by = t.by /\ tap'[c].op = t.op
      /\ \A d \in PinCalls : d # c => tap'[d] = tap[d]
  BY <1>3, MovedTap DEF Pinning!Places, Pinning!Legs
<1>5. /\ pinnedBy' \in [PinMsgs -> Pinning!People \cup {Pinning!NoOne}]
      /\ \A m \in PinMsgs : m # t.msg => pinnedBy'[m] = pinnedBy[m]
      /\ pinnedBy'[t.msg] = IF t.op = "pin" THEN t.by ELSE Pinning!NoOne
  BY <1>1, <1>2 DEF Pinning!TypeOK, Pinning!Taps
<1>a. t.msg \in PinMsgs /\ t.by \in Pinning!People
  BY <1>2 DEF Pinning!Taps
<1>6. bar' \in [Pinning!People -> SUBSET PinMsgs]
  <2>1. bar \in [Pinning!People -> SUBSET PinMsgs]
    BY DEF Pinning!TypeOK
  <2> HIDE DEF t
  <2> QED
    BY <1>a, <1>3, <2>1
<1>7. room' \in [Pinning!People -> Seq(Pinning!Notices)]
  <2>1. [op |-> t.op, msg |-> t.msg] \in Pinning!Notices
    BY <1>2 DEF Pinning!Taps, Pinning!Notices
  <2>2. room \in [Pinning!People -> Seq(Pinning!Notices)]
    BY DEF Pinning!TypeOK
  <2>3. \A u \in Pinning!People :
          Append(room[u], [op |-> t.op, msg |-> t.msg]) \in Seq(Pinning!Notices)
    BY <2>1, <2>2
  <2> HIDE DEF t
  <2> QED
    BY <1>3, <2>2, <2>3
<1>8. Pinning!TypeOK'
  BY <1>1, <1>4, <1>5, <1>6, <1>7 DEF Pinning!TypeOK
<1>9. \A d \in PinCalls : TraineePinRuns(d)' =>
        TraineePinRuns(d) /\ (tap'[d].at = "cleared" => d # c /\ tap[d].at = "cleared")
  <2>1. t.at \in Pinning!Running
    BY <1>1 DEF Pinning!Running
  <2> QED
    BY <1>4, <2>1 DEF TraineePinRuns, Pinning!TraineePinRuns
<1> HIDE DEF t
<1>10. CASE TraineePinRuns(c)
  <2>1. ~overlapped => TraineePins = {}
    BY <1>1, <1>10 DEF ClearedFirst, t
  <2>2. TraineePins' \subseteq TraineePins \cup {t.msg}
    BY <1>1, <1>5 DEF TraineePins, Pinning!TraineePins
  <2>3. ~overlapped => \A d \in PinCalls : TraineePinRuns(d)' => tap'[d].at # "cleared"
    BY <1>9, <1>10 DEF OneTapRuns
  <2> QED
    BY <1>1, <1>8, <1>9, <2>1, <2>2, <2>3 DEF OneTapRuns, ClearedFirst, PinsAlike
<1>11. CASE ~TraineePinRuns(c)
  <2>1. pinnedBy'[t.msg] # "trainee"
    BY <1>1, <1>5, <1>11 DEF TraineePinRuns, Pinning!TraineePinRuns, Pinning!Running,
       Pinning!NoOne, t
  <2>2. \A m \in PinMsgs : pinnedBy'[m] = "trainee" => pinnedBy[m] = "trainee"
    BY <1>5, <2>1
  <2> QED
    BY <1>1, <1>8, <1>9, <2>2, NoTraineePin DEF TraineePinRuns
<1> QED
  BY <1>10, <1>11

\* The bars, their answers and a deletion touch no pin but to take it away.
LEMMA BarPins ==
  ASSUME PinsInv, \/ \E u \in Pinning!People :
                       Pinning!Deliver(u) \/ Pinning!Fetch(u) \/ Pinning!ShowFetched(u)
                  \/ \E m \in PinMsgs : Pinning!Delete(m)
  PROVE  PinsInv'
<1> USE DEF PinsInv
<1>1. ASSUME NEW u \in Pinning!People, Pinning!Deliver(u) PROVE PinsInv'
  <2>1. /\ room[u] # <<>> /\ room[u] \in Seq(Pinning!Notices)
        /\ UNCHANGED <<pinnedBy, gone, tap, fetch, overlapped>>
        /\ room' = [room EXCEPT ![u] = Tail(@)]
    BY <1>1 DEF Pinning!Deliver, Pinning!TypeOK
  <2>2. Head(room[u]) \in Pinning!Notices /\ Tail(room[u]) \in Seq(Pinning!Notices)
    BY <2>1, HeadTailProperties
  <2>3. Head(room[u]).msg \in PinMsgs
    BY <2>2 DEF Pinning!Notices
  <2>4. bar' \in [Pinning!People -> SUBSET PinMsgs]
    BY <1>1, <2>3 DEF Pinning!Deliver, Pinning!TypeOK
  <2>5. Pinning!TypeOK'
    BY <2>1, <2>2, <2>4 DEF Pinning!TypeOK
  <2> QED
    BY <2>1, <2>5, NoTraineePin DEF TraineePinRuns, Pinning!TraineePinRuns
<1>2. ASSUME NEW u \in Pinning!People, Pinning!Fetch(u) PROVE PinsInv'
  <2>1. /\ fetch' \in [Pinning!People -> [at : {"initial", "read", "shown"}, msgs : SUBSET PinMsgs]]
        /\ UNCHANGED <<pinnedBy, gone, tap, bar, room, overlapped>>
    BY <1>2 DEF Pinning!Fetch, Pinning!TypeOK
  <2>2. Pinning!TypeOK'
    BY <2>1 DEF Pinning!TypeOK
  <2> QED
    BY <2>1, <2>2, NoTraineePin DEF TraineePinRuns, Pinning!TraineePinRuns
<1>3. ASSUME NEW u \in Pinning!People, Pinning!ShowFetched(u) PROVE PinsInv'
  <2>1. /\ fetch' \in [Pinning!People -> [at : {"initial", "read", "shown"}, msgs : SUBSET PinMsgs]]
        /\ bar' \in [Pinning!People -> SUBSET PinMsgs]
        /\ UNCHANGED <<pinnedBy, gone, tap, room, overlapped>>
    BY <1>3 DEF Pinning!ShowFetched, Pinning!TypeOK
  <2>2. Pinning!TypeOK'
    BY <2>1 DEF Pinning!TypeOK
  <2> QED
    BY <2>1, <2>2, NoTraineePin DEF TraineePinRuns, Pinning!TraineePinRuns
<1>4. ASSUME NEW m \in PinMsgs, Pinning!Delete(m) PROVE PinsInv'
  <2>1. /\ gone' = gone \cup {m} /\ UNCHANGED <<pinnedBy, tap, bar, room, fetch, overlapped>>
    BY <1>4 DEF Pinning!Delete
  <2>2. Pinning!TypeOK'
    BY <2>1 DEF Pinning!TypeOK
  <2> QED
    BY <2>1, <2>2, NoTraineePin DEF TraineePinRuns, Pinning!TraineePinRuns
<1> QED
  BY <1>1, <1>2, <1>3, <1>4

LEMMA NextPins == PinsInv /\ [Pinning!Next]_pinVars => PinsInv'
<1> SUFFICES ASSUME PinsInv, [Pinning!Next]_pinVars PROVE PinsInv'
  OBVIOUS
<1>1. ASSUME UNCHANGED pinVars PROVE PinsInv'
  BY <1>1, Zenon DEF pinVars, PinsInv, Pinning!TypeOK, OneTapRuns, ClearedFirst, PinsAlike,
     TraineePinRuns, TraineePins, Pinning!TraineePinRuns, Pinning!TraineePins
<1>2. ASSUME Pinning!Next PROVE PinsInv'
  BY <1>2, TapPins, CheckPins, ClearPins, WritePins, BarPins DEF Pinning!Next
<1> QED
  BY <1>1, <1>2

\* A trainee's pins are cleared before one is written, in every interleaving of
\* the taps that did not start beside a pin of the trainee
\* (conversations.service.ts:293-360).
THEOREM PinsInvariant == PageSpec => []PinsInv
<1>1. PageInit => PinsInv
  BY InitPins DEF PageInit
<1>2. [PageNext]_<<focus, listVars, pinVars>> => [Pinning!Next]_pinVars
  BY DEF PageNext
<1>3. PinsInv /\ [PageNext]_<<focus, listVars, pinVars>> => PinsInv'
  BY <1>2, NextPins
<1> QED
  BY <1>1, <1>3, PTL DEF PageSpec

\* A trainee has at most one pin in a conversation, for any messages and taps,
\* unless a second tap ran beside a pin (conversations.service.ts:308-309).
THEOREM OnePinOfTheTrainee == PageSpec => []OneTraineePin
<1>1. PinsInv => OneTraineePin
  BY DEF PinsInv, PinsAlike, OneTraineePin, Pinning!OneTraineePin, TraineePins
<1> QED
  BY <1>1, PinsInvariant, PTL

-----------------------------------------------------------------------------
(* The list: what its operations keep, for every list.                     *)

Unique(l) == \A i, j \in 1..Len(l) : l[i].msg = l[j].msg => i = j

LEMMA KeptElements ==
  ASSUME NEW E, NEW l \in Seq(E), NEW places \in SUBSET (1..Len(l))
  PROVE  /\ Kept(l, places) \in Seq(E)
         /\ \A k \in 1..Len(Kept(l, places)) : \E i \in places : Kept(l, places)[k] = l[i]
         /\ \A i \in places : \E k \in 1..Len(Kept(l, places)) : Kept(l, places)[k] = l[i]
         /\ Unique(l) => Unique(Kept(l, places))
<1> DEFINE r == Kept(l, places)
<1>1. r \in Seq(E) /\ InOrder(r, l, places)
  BY FilteringKeeps
<1> HIDE DEF r
<1>2. PICK at \in [1..Len(r) -> places] :
        /\ \A k \in 1..Len(r) : r[k] = l[at[k]]
        /\ \A k, m \in 1..Len(r) : k < m => at[k] < at[m]
        /\ \A i \in places : \E k \in 1..Len(r) : at[k] = i
  BY <1>1 DEF InOrder
<1>3. ASSUME Unique(l), NEW k \in 1..Len(r), NEW m \in 1..Len(r), r[k].msg = r[m].msg
      PROVE  k = m
  <2>1. at[k] \in 1..Len(l) /\ at[m] \in 1..Len(l)
    BY <1>2
  <2>2. at[k] = at[m]
    BY <1>2, <1>3, <2>1 DEF Unique
  <2>3. k \in Int /\ m \in Int /\ ~(at[k] < at[k])
    BY <2>1
  <2>4. ~(k < m) /\ ~(m < k)
    BY <1>2, <2>2, <2>3
  <2> QED
    BY <2>3, <2>4
<1>4. /\ \A k \in 1..Len(r) : \E i \in places : r[k] = l[i]
      /\ \A i \in places : \E k \in 1..Len(r) : r[k] = l[i]
  BY <1>2
<1>5. Unique(l) => Unique(r)
  BY <1>3 DEF Unique
<1> QED
  BY <1>1, <1>4, <1>5 DEF r

LEMMA JoinedLists ==
  ASSUME NEW E, NEW a \in Seq(E), NEW b \in Seq(E), Unique(a), Unique(b),
         \A i \in 1..Len(a), j \in 1..Len(b) : a[i].msg # b[j].msg
  PROVE  a \o b \in Seq(E) /\ Unique(a \o b)
<1>1. /\ a \o b \in Seq(E) /\ Len(a) \in Nat /\ Len(b) \in Nat
      /\ Len(a \o b) = Len(a) + Len(b)
      /\ \A i \in 1..Len(a \o b) :
           (a \o b)[i] = IF i <= Len(a) THEN a[i] ELSE b[i - Len(a)]
  BY ConcatProperties, LenProperties
<1>2. ASSUME NEW i \in 1..Len(a \o b), NEW j \in 1..Len(a \o b),
             (a \o b)[i].msg = (a \o b)[j].msg
      PROVE  i = j
  <2>1. CASE i <= Len(a) /\ j <= Len(a)
    BY <1>1, <1>2, <2>1 DEF Unique
  <2>2. CASE i > Len(a) /\ j > Len(a)
    <3>1. i - Len(a) \in 1..Len(b) /\ j - Len(a) \in 1..Len(b)
      BY <1>1, <2>2
    <3>2. (a \o b)[i] = b[i - Len(a)] /\ (a \o b)[j] = b[j - Len(a)]
      BY <1>1, <2>2
    <3>3. i - Len(a) = j - Len(a)
      BY <1>2, <3>1, <3>2 DEF Unique
    <3> QED
      BY <1>1, <3>3
  <2>3. CASE i <= Len(a) /\ j > Len(a)
    <3>1. i \in 1..Len(a) /\ j - Len(a) \in 1..Len(b)
      BY <1>1, <2>3
    <3> QED
      BY <1>1, <1>2, <2>3, <3>1
  <2>4. CASE i > Len(a) /\ j <= Len(a)
    <3>1. j \in 1..Len(a) /\ i - Len(a) \in 1..Len(b)
      BY <1>1, <2>4
    <3> QED
      BY <1>1, <1>2, <2>4, <3>1
  <2> QED
    BY <1>1, <2>1, <2>2, <2>3, <2>4
<1> QED
  BY <1>1, <1>2 DEF Unique

LEMMA JoinedKeys ==
  ASSUME NEW E, NEW a \in Seq(E), NEW b \in Seq(E)
  PROVE  Keys(a) \cup Keys(b) \subseteq Keys(a \o b)
<1>1. /\ Len(a) \in Nat /\ Len(b) \in Nat
      /\ Len(a \o b) = Len(a) + Len(b)
      /\ \A i \in 1..Len(a \o b) :
           (a \o b)[i] = IF i <= Len(a) THEN a[i] ELSE b[i - Len(a)]
  BY ConcatProperties, LenProperties
<1>2. \A i \in 1..Len(a) : i \in 1..Len(a \o b) /\ (a \o b)[i] = a[i]
  BY <1>1
<1>3. \A i \in 1..Len(b) : /\ i + Len(a) \in 1..Len(a \o b)
                           /\ (a \o b)[i + Len(a)] = b[i]
  <2> SUFFICES ASSUME NEW i \in 1..Len(b)
               PROVE  /\ i + Len(a) \in 1..Len(a \o b)
                      /\ (a \o b)[i + Len(a)] = b[i]
    OBVIOUS
  <2>1. i + Len(a) \in 1..Len(a \o b) /\ ~(i + Len(a) <= Len(a)) /\ i + Len(a) - Len(a) = i
    BY <1>1
  <2> QED
    BY <1>1, <2>1
<1> QED
  BY <1>2, <1>3 DEF Keys

LEMMA ReconciledList ==
  ASSUME NEW l \in Seq(Entries), Unique(l), NEW e \in Entries
  PROVE  /\ Reconciled(l, e) \in Seq(Entries) /\ Unique(Reconciled(l, e))
         /\ Keys(l) \subseteq Keys(Reconciled(l, e))
<1> DEFINE r == Reconciled(l, e)
<1>1. Len(l) \in Nat /\ \A i \in 1..Len(l) : l[i] \in Entries
  BY LenProperties, ElementOfSeq
<1>2. CASE e.msg \in Keys(l)
  <2>1. r = [i \in 1..Len(l) |-> IF l[i].msg = e.msg THEN e ELSE l[i]]
    BY <1>2 DEF Reconciled
  <2>2. r \in Seq(Entries) /\ Len(r) = Len(l)
    BY <1>1, <2>1, IsASeq
  <2> HIDE DEF r
  <2>3. \A i \in 1..Len(l) : r[i].msg = l[i].msg
    BY <2>1
  <2>4. Unique(r) /\ Keys(l) = Keys(r)
    BY <2>2, <2>3 DEF Unique, Keys
  <2> QED
    BY <2>2, <2>4 DEF r
<1>3. CASE e.msg \notin Keys(l)
  <2>1. r = Append(l, e)
    BY <1>3 DEF Reconciled
  <2>2. /\ r \in Seq(Entries) /\ Len(r) = Len(l) + 1
        /\ r[Len(r)] = e /\ \A i \in 1..Len(l) : r[i] = l[i]
    BY <2>1, AppendProperties
  <2> HIDE DEF r
  <2>3. \A i \in 1..Len(r) : i \in 1..Len(l) \/ i = Len(r)
    BY <1>1, <2>2
  <2>4. \A i \in 1..Len(l) : l[i].msg # e.msg
    BY <1>3 DEF Keys
  <2>5. Unique(r)
    BY <2>2, <2>3, <2>4 DEF Unique
  <2>6. 1..Len(l) \subseteq 1..Len(r)
    BY <1>1, <2>2
  <2>7. Keys(l) \subseteq Keys(r)
    BY <2>2, <2>6 DEF Keys
  <2> QED
    BY <2>2, <2>5, <2>7 DEF r
<1> QED
  BY <1>2, <1>3

LEMMA ConfirmedList ==
  ASSUME NEW items \in Seq(Copies)
  PROVE  /\ Confirmed(items) \in Seq(Entries) /\ Len(Confirmed(items)) = Len(items)
         /\ \A i \in 1..Len(items) : Confirmed(items)[i].msg = items[i].msg
         /\ Keys(Confirmed(items)) = Keys(items) /\ Keys(items) \subseteq Msgs
         /\ Unique(items) => Unique(Confirmed(items))
<1> DEFINE c == Confirmed(items)
<1>1. Len(items) \in Nat /\ \A i \in 1..Len(items) : items[i] \in Copies
  BY LenProperties, ElementOfSeq
<1>2. c = [i \in 1..Len(items) |->
             [msg |-> items[i].msg, real |-> TRUE, ver |-> items[i].ver]]
  BY DEF Confirmed
<1>3. \A i \in 1..Len(items) :
        [msg |-> items[i].msg, real |-> TRUE, ver |-> items[i].ver] \in Entries
  BY <1>1 DEF Copies, Entries
<1>4. c \in Seq(Entries) /\ Len(c) = Len(items)
  BY <1>1, <1>2, <1>3, IsASeq
<1> HIDE DEF c
<1>5. \A i \in 1..Len(items) : c[i].msg = items[i].msg
  BY <1>2
<1>6. Keys(c) = Keys(items) /\ (Unique(items) => Unique(c))
  BY <1>4, <1>5 DEF Keys, Unique
<1>7. Keys(items) \subseteq Msgs
  BY <1>1 DEF Keys, Copies
<1> QED
  BY <1>4, <1>5, <1>6, <1>7 DEF c

LEMMA MergedList ==
  ASSUME NEW l \in Seq(Entries), Unique(l), NEW items \in Seq(Copies), Unique(items)
  PROVE  /\ Merged(l, items) \in Seq(Entries) /\ Unique(Merged(l, items))
         /\ Keys(l) \subseteq Keys(Merged(l, items))
<1> DEFINE c == Confirmed(items)
           places == Without(l, Keys(items))
           r == Kept(l, places)
<1>1. c \in Seq(Entries) /\ Unique(c) /\ Keys(c) = Keys(items)
  BY ConfirmedList
<1>2. places \in SUBSET (1..Len(l)) /\ \A i \in places : l[i].msg \notin Keys(items)
  BY DEF Without
<1>3. \A i \in (1..Len(l)) \ places : l[i].msg \in Keys(items)
  BY DEF Without
<1>4. Merged(l, items) = c \o r
  BY DEF Merged
<1> HIDE DEF c, places
<1>5. /\ r \in Seq(Entries) /\ Unique(r)
      /\ \A k \in 1..Len(r) : \E i \in places : r[k] = l[i]
      /\ \A i \in places : \E k \in 1..Len(r) : r[k] = l[i]
  BY <1>2, KeptElements
<1> HIDE DEF r
<1>6. \A i \in 1..Len(c), k \in 1..Len(r) : c[i].msg # r[k].msg
  BY <1>1, <1>2, <1>5 DEF Keys
<1>7. c \o r \in Seq(Entries) /\ Unique(c \o r)
  BY <1>1, <1>5, <1>6, JoinedLists
<1>8. Keys(l) \subseteq Keys(c) \cup Keys(r)
  <2> SUFFICES ASSUME NEW i \in 1..Len(l) PROVE l[i].msg \in Keys(c) \cup Keys(r)
    BY DEF Keys
  <2>1. CASE i \in places
    BY <1>5, <2>1 DEF Keys
  <2>2. CASE i \notin places
    BY <1>1, <1>3, <2>2
  <2> QED
    BY <2>1, <2>2
<1>9. Keys(c) \cup Keys(r) \subseteq Keys(c \o r)
  BY <1>1, <1>5, JoinedKeys
<1> QED
  BY <1>4, <1>7, <1>8, <1>9

LEMMA PrependedList ==
  ASSUME NEW l \in Seq(Entries), Unique(l), NEW items \in Seq(Copies), Unique(items)
  PROVE  /\ Prepended(l, items) \in Seq(Entries) /\ Unique(Prepended(l, items))
         /\ Keys(l) \subseteq Keys(Prepended(l, items))
<1> DEFINE c == Confirmed(items)
           places == Without(items, Keys(l))
           r == Kept(c, places)
<1>1. c \in Seq(Entries) /\ Unique(c) /\ Len(c) = Len(items)
      /\ \A i \in 1..Len(items) : c[i].msg = items[i].msg
  BY ConfirmedList
<1>2. places \in SUBSET (1..Len(items)) /\ \A i \in places : items[i].msg \notin Keys(l)
  BY DEF Without
<1>4. Prepended(l, items) = r \o l
  BY DEF Prepended
<1> HIDE DEF c, places
<1>3. places \in SUBSET (1..Len(c)) /\ \A i \in places : c[i].msg \notin Keys(l)
  BY <1>1, <1>2
<1>5. /\ r \in Seq(Entries) /\ Unique(r)
      /\ \A k \in 1..Len(r) : \E i \in places : r[k] = c[i]
  BY <1>1, <1>3, KeptElements
<1> HIDE DEF r
<1>6. \A k \in 1..Len(r), i \in 1..Len(l) : r[k].msg # l[i].msg
  BY <1>3, <1>5 DEF Keys
<1>7. r \o l \in Seq(Entries) /\ Unique(r \o l)
  BY <1>5, <1>6, JoinedLists
<1>8. Keys(r) \cup Keys(l) \subseteq Keys(r \o l)
  BY <1>5, JoinedKeys
<1> QED
  BY <1>4, <1>7, <1>8

LEMMA ChangedList ==
  ASSUME NEW l \in Seq(Entries), Unique(l), NEW m \in Msgs, NEW v \in 0..1
  PROVE  /\ Updated(l, m, v) \in Seq(Entries) /\ Unique(Updated(l, m, v))
         /\ Keys(l) \subseteq Keys(Updated(l, m, v))
         /\ Removed(l, m) \in Seq(Entries) /\ Unique(Removed(l, m))
         /\ Keys(l) \ {m} \subseteq Keys(Removed(l, m))
<1>1. Len(l) \in Nat /\ \A i \in 1..Len(l) : l[i] \in Entries
  BY LenProperties, ElementOfSeq
<1> DEFINE u == Updated(l, m, v)
<1>2. u = [i \in 1..Len(l) |->
             IF l[i].msg = m /\ l[i].real THEN [l[i] EXCEPT !.ver = v] ELSE l[i]]
  BY DEF Updated
<1>3. \A i \in 1..Len(l) :
        LET e == IF l[i].msg = m /\ l[i].real THEN [l[i] EXCEPT !.ver = v] ELSE l[i]
        IN e \in Entries /\ e.msg = l[i].msg
  BY <1>1 DEF Entries
<1>4. u \in Seq(Entries) /\ Len(u) = Len(l)
  BY <1>1, <1>2, <1>3, IsASeq
<1> HIDE DEF u
<1>5. \A i \in 1..Len(l) : u[i].msg = l[i].msg
  BY <1>2, <1>3
<1>6. Unique(u) /\ Keys(l) \subseteq Keys(u)
  BY <1>4, <1>5 DEF Unique, Keys
<1> DEFINE places == {i \in 1..Len(l) : ~(l[i].msg = m /\ l[i].real)}
           r == Kept(l, places)
<1>8. r = Removed(l, m)
  BY DEF Removed
<1>9. /\ places \in SUBSET (1..Len(l))
      /\ \A i \in 1..Len(l) : l[i].msg # m => i \in places
  OBVIOUS
<1> HIDE DEF places
<1>7. /\ r \in Seq(Entries) /\ Unique(r)
      /\ \A i \in places : \E k \in 1..Len(r) : r[k] = l[i]
  BY <1>9, KeptElements
<1> HIDE DEF r
<1>10. Keys(l) \ {m} \subseteq Keys(r)
  BY <1>7, <1>9 DEF Keys
<1> QED
  BY <1>4, <1>6, <1>7, <1>8, <1>10 DEF u

LEMMA CopiedPage ==
  ASSUME ver \in [Msgs -> 0..1], NEW S \in SUBSET Msgs
  PROVE  Copied(S) \in Seq(Copies) /\ Unique(Copied(S))
<1> DEFINE rows == [m \in Msgs |-> [msg |-> m, ver |-> ver[m]]]
<1>1. \A m \in 1..LastMsg : [msg |-> m, ver |-> ver[m]] \in Copies
  BY DEF Copies, Msgs
<1>2. LastMsg \in Nat
  BY SyncAssumption DEF SyncAssumption
<1>3. rows \in Seq(Copies) /\ Len(rows) = LastMsg
  BY <1>1, <1>2, IsASeq DEF Msgs
<1>4. Unique(rows)
  BY <1>3 DEF Unique, Msgs
<1>5. S \in SUBSET (1..Len(rows))
  BY <1>3 DEF Msgs
<1>6. Copied(S) = Kept(rows, S)
  BY DEF Copied
<1> HIDE DEF rows
<1> QED
  BY <1>3, <1>4, <1>5, <1>6, KeptElements

-----------------------------------------------------------------------------
(* The list in its page: every message once, and gone only when deleted.   *)

RowsFit ==
  /\ row \in [Msgs -> {"none", "live", "deleted"}]
  /\ ver \in [Msgs -> 0..1]
  /\ call \in [Ops \X Msgs -> Steps]
  /\ \A m \in Msgs : call[<<"delete", m>>] \in {"written", "announced"} => row[m] = "deleted"
LinkFit ==
  /\ connected \in BOOLEAN /\ inRoom \in BOOLEAN /\ mounted \in BOOLEAN
  /\ asks \in [{"join", "leave"} -> Nat]
  /\ sends \in [Places -> SUBSET Own] /\ answering \in SUBSET Own
  /\ turns \in 0..MaxTurns
Deletions(events, rows) == \A i \in 1..Len(events) :
  events[i].kind = "deleted" => rows[events[i].msg] = "deleted"
EventsFit == chan \in Seq(Events) /\ Deletions(chan, row)
Requests == [at : {"idle", "asked", "read"}, items : Seq(Copies), next : 0..LastMsg,
             from : 0..LastMsg, since : SUBSET Msgs]
LoadsFit ==
  /\ load \in [Slots -> Requests]
  /\ \A s \in Slots : Unique(load[s].items)
ListFit ==
  /\ list \in Seq(Entries) /\ Unique(list)
  /\ cursor \in 0..LastMsg /\ missed \subseteq Msgs

ListInv == RowsFit /\ LinkFit /\ EventsFit /\ LoadsFit /\ ListFit

\* The actions that store a message, answer its sender and bring the socket back.
Stored(m) == Store(m) \/ \E p \in Places : StoreOwn(m, p)
Answered(m) == Answer(m) \/ AnswerAgain(m)
Reconnects == \E rebuilt \in BOOLEAN : Connect(rebuilt)

LEMMA StoredRow ==
  ASSUME NEW m, Stored(m)
  PROVE  /\ row[m] = "none" /\ row' = [row EXCEPT ![m] = "live"]
         /\ call' = [call EXCEPT ![<<"send", m>>] = "written"]
         /\ UNCHANGED <<ver, connected, inRoom, asks, chan, mounted, load, list, cursor, turns,
                        missed>>
BY DEF Stored, Store, StoreOwn, Inserted, link, page

LEMMA Bounds == LastMsg \in Nat \ {0} /\ MaxTurns \in Nat /\ Own \subseteq Msgs
BY SyncAssumption DEF SyncAssumption

LEMMA IdleRequest == Idle \in Requests /\ Idle.items = <<>> /\ Unique(<<>>)
<1>1. <<>> \in Seq(Copies) /\ Len(<<>>) = 0
  OBVIOUS
<1> QED
  BY <1>1, Bounds DEF Idle, Requests, Unique

LEMMA InitList == Init => ListInv
<1> SUFFICES ASSUME Init PROVE ListInv
  OBVIOUS
<1>1. RowsFit
  BY DEF Init, RowsFit, Steps, Ops
<1>a. /\ asks \in [{"join", "leave"} -> Nat] /\ turns \in 0..MaxTurns
      /\ sends \in [Places -> SUBSET Own] /\ answering \in SUBSET Own
      /\ chan \in Seq(Events) /\ Len(chan) = 0
  BY Bounds DEF Init
<1>b. connected \in BOOLEAN /\ inRoom \in BOOLEAN /\ mounted \in BOOLEAN
  BY DEF Init
<1>2. LinkFit /\ EventsFit
  BY <1>a, <1>b DEF LinkFit, EventsFit, Deletions
<1>3. LoadsFit
  BY IdleRequest DEF Init, LoadsFit
<1>4. ListFit
  BY Bounds, IdleRequest DEF Init, ListFit
<1> QED
  BY <1>1, <1>2, <1>3, <1>4 DEF ListInv

\* The server: a message stays deleted.
LEMMA RowsStep ==
  ASSUME RowsFit, [Next]_vars
  PROVE  RowsFit' /\ \A m \in Msgs : row[m] = "deleted" => row'[m] = "deleted"
<1> USE DEF RowsFit
<1>1. ASSUME NEW m \in Msgs, Stored(m)
      PROVE  RowsFit' /\ \A n \in Msgs : row[n] = "deleted" => row'[n] = "deleted"
  <2>1. /\ row[m] = "none" /\ row' = [row EXCEPT ![m] = "live"]
        /\ call' = [call EXCEPT ![<<"send", m>>] = "written"] /\ ver' = ver
    BY <1>1, StoredRow
  <2>2. \A n \in Msgs : call'[<<"delete", n>>] = call[<<"delete", n>>]
    BY <2>1
  <2> QED
    BY <2>1, <2>2 DEF Steps, Ops
<1>2. ASSUME NEW m \in Msgs, NEW op \in Ops, NEW to \in Steps,
             UNCHANGED ver, call' = [call EXCEPT ![<<op, m>>] = to],
             \/ row' = row
             \/ op = "delete" /\ row' = [row EXCEPT ![m] = "deleted"],
             to \in {"written", "announced"} /\ op = "delete" => row'[m] = "deleted"
      PROVE  RowsFit' /\ \A n \in Msgs : row[n] = "deleted" => row'[n] = "deleted"
  <2>1. \A n \in Msgs : call'[<<"delete", n>>] =
          IF op = "delete" /\ n = m THEN to ELSE call[<<"delete", n>>]
    BY <1>2 DEF Ops
  <2>2. row' \in [Msgs -> {"none", "live", "deleted"}]
        /\ \A n \in Msgs : row[n] = "deleted" => row'[n] = "deleted"
    BY <1>2
  <2>3. call' \in [Ops \X Msgs -> Steps]
    BY <1>2
  <2> QED
    BY <1>2, <2>1, <2>2, <2>3
<1>3. ASSUME NEW m \in Msgs, NEW op \in {"edit", "delete"}, Check(op, m)
      PROVE  RowsFit' /\ \A n \in Msgs : row[n] = "deleted" => row'[n] = "deleted"
  <2>1. /\ UNCHANGED <<row, ver>>
        /\ \/ call' = [call EXCEPT ![<<op, m>>] = "checked"]
           \/ call' = [call EXCEPT ![<<op, m>>] = "refused"]
    BY <1>3 DEF Check
  <2> QED
    BY <1>2, <2>1 DEF Ops, Steps
<1>4. ASSUME NEW m \in Msgs, WriteDelete(m)
      PROVE  RowsFit' /\ \A n \in Msgs : row[n] = "deleted" => row'[n] = "deleted"
  <2>1. /\ UNCHANGED ver /\ row' = [row EXCEPT ![m] = "deleted"]
        /\ call' = [call EXCEPT ![<<"delete", m>>] = "written"]
    BY <1>4 DEF WriteDelete
  <2> QED
    BY <1>2, <2>1 DEF Ops, Steps
<1>5. ASSUME NEW m \in Msgs, WriteEdit(m)
      PROVE  RowsFit' /\ \A n \in Msgs : row[n] = "deleted" => row'[n] = "deleted"
  <2>1. /\ UNCHANGED row /\ ver' = [ver EXCEPT ![m] = 1]
        /\ call' = [call EXCEPT ![<<"edit", m>>] = "written"]
    BY <1>5 DEF WriteEdit
  <2>2. \A n \in Msgs : call'[<<"delete", n>>] = call[<<"delete", n>>]
    BY <2>1
  <2> QED
    BY <2>1, <2>2 DEF Ops, Steps
<1>6. ASSUME NEW m \in Msgs,
             \/ AnnounceNew(m) \/ AnnounceChange("edit", "updated", m)
             \/ AnnounceChange("delete", "deleted", m)
      PROVE  RowsFit' /\ \A n \in Msgs : row[n] = "deleted" => row'[n] = "deleted"
  <2>1. PICK op \in Ops :
          /\ UNCHANGED <<row, ver>> /\ call[<<op, m>>] = "written"
          /\ call' = [call EXCEPT ![<<op, m>>] = "announced"]
    BY <1>6 DEF AnnounceNew, AnnounceChange, Ops
  <2> QED
    BY <1>2, <2>1 DEF Steps
<1>7. ASSUME \/ \E m \in Msgs : Emit(m) \/ Answered(m)
             \/ HandleJoin \/ HandleLeave
             \/ \E s \in {"first", "second"} : Open(s) \/ MergePage(s)
             \/ Close \/ Drop \/ Reconnects \/ LoadMore \/ PrependPage
             \/ \E s \in Slots : ReadPage(s) \/ LoadFails(s)
             \/ Deliver \/ UNCHANGED vars
      PROVE  UNCHANGED <<row, ver, call>>
  BY <1>7 DEF Emit, Answered, Answer, AnswerAgain, HandleJoin, HandleLeave, Open, MergePage,
     Close, Drop, Reconnects, Connect, LoadMore, PrependPage, ReadPage, LoadFails, Deliver,
     vars, server
<1> QED
  BY <1>1, <1>3, <1>4, <1>5, <1>6, <1>7 DEF Next, Stored, Answered, Reconnects

\* The socket and the page.
LEMMA LinkStep == ASSUME LinkFit, [Next]_vars PROVE LinkFit'
<1> USE DEF LinkFit
<1>1. ASSUME HandleJoin \/ HandleLeave PROVE LinkFit'
  <2>1. /\ asks' \in [{"join", "leave"} -> Nat]
        /\ UNCHANGED <<connected, mounted, turns, sends, answering>>
    BY <1>1 DEF HandleJoin, HandleLeave, page, own
  <2>2. inRoom' \in BOOLEAN
    BY <1>1 DEF HandleJoin, HandleLeave
  <2> QED
    BY <2>1, <2>2
<1>2. ASSUME NEW s \in {"first", "second"}, Open(s) PROVE LinkFit'
  <2>1. /\ asks' \in [{"join", "leave"} -> Nat] /\ turns' \in 0..MaxTurns
        /\ mounted' \in BOOLEAN /\ UNCHANGED <<connected, inRoom, sends, answering>>
    BY <1>2, Bounds DEF Open, own
  <2> QED
    BY <2>1
<1>3. ASSUME Close PROVE LinkFit'
  <2>1. /\ asks' \in [{"join", "leave"} -> Nat]
        /\ UNCHANGED <<connected, inRoom, turns, sends, answering>>
    BY <1>3 DEF Close, own
  <2>2. mounted' \in BOOLEAN
    BY <1>3 DEF Close
  <2> QED
    BY <2>1, <2>2
<1>4. ASSUME Drop PROVE LinkFit'
  <2>1. /\ asks' \in [{"join", "leave"} -> Nat]
        /\ turns' \in 0..MaxTurns /\ mounted' = mounted
    BY <1>4, Bounds DEF Drop
  <2>2. connected' \in BOOLEAN /\ inRoom' \in BOOLEAN
    BY <1>4 DEF Drop
  <2>3. sends' \in [Places -> SUBSET Own] /\ answering' \in SUBSET Own
    BY <1>4 DEF Drop, Places
  <2> QED
    BY <2>1, <2>2, <2>3
<1>5. ASSUME NEW rebuilt \in BOOLEAN, Connect(rebuilt) PROVE LinkFit'
  <2>1. connected' \in BOOLEAN /\ UNCHANGED <<inRoom, mounted, turns, sends, answering>>
    BY <1>5 DEF Connect, page, own
  <2>2. asks' \in [{"join", "leave"} -> Nat]
    BY <1>5 DEF Connect
  <2> QED
    BY <2>1, <2>2
<1>6. ASSUME NEW m \in Msgs, Emit(m) \/ StoreOwn(m, "here") \/ StoreOwn(m, "gone") \/ Answered(m)
      PROVE  LinkFit'
  <2>1. UNCHANGED <<connected, inRoom, asks, mounted, turns>>
    BY <1>6 DEF Emit, StoreOwn, Answered, Answer, AnswerAgain, link, page
  <2>2. ASSUME Emit(m) PROVE sends' \in [Places -> SUBSET Own] /\ answering' \in SUBSET Own
    BY <2>2 DEF Emit, Places
  <2>3. ASSUME NEW p \in Places, StoreOwn(m, p)
        PROVE  sends' \in [Places -> SUBSET Own] /\ answering' \in SUBSET Own
    <3>1. m \in Own /\ sends[p] \in SUBSET Own
      BY <2>3 DEF StoreOwn
    <3> QED
      BY <2>3, <3>1 DEF StoreOwn
  <2>4. ASSUME Answered(m) PROVE sends' \in [Places -> SUBSET Own] /\ answering' \in SUBSET Own
    BY <2>4 DEF Answered, Answer, AnswerAgain, Places
  <2> QED
    BY <1>6, <2>1, <2>2, <2>3, <2>4 DEF Places
<1>7. ASSUME \/ \E m \in Msgs :
                  \/ Store(m) \/ WriteEdit(m) \/ WriteDelete(m)
                  \/ \E op \in {"edit", "delete"} : Check(op, m)
                  \/ AnnounceNew(m) \/ AnnounceChange("edit", "updated", m)
                  \/ AnnounceChange("delete", "deleted", m)
             \/ \E s \in {"first", "second"} : MergePage(s)
             \/ LoadMore \/ PrependPage
             \/ \E s \in Slots : ReadPage(s) \/ LoadFails(s)
             \/ Deliver \/ UNCHANGED vars
      PROVE  UNCHANGED <<connected, inRoom, asks, mounted, turns, sends, answering>>
  BY <1>7 DEF Store, WriteEdit, WriteDelete, Check, AnnounceNew, AnnounceChange,
     MergePage, LoadMore, PrependPage, ReadPage, LoadFails, Deliver, vars, link, page, own
<1> QED
  BY <1>1, <1>2, <1>3, <1>4, <1>5, <1>6, <1>7, Zenon DEF Next, Answered, Places

\* The channel: a deletion is announced after it.
LEMMA MoreEvents ==
  ASSUME NEW rows, NEW a \in Seq(Events), NEW b \in Seq(Events),
         Deletions(a, rows), Deletions(b, rows)
  PROVE  a \o b \in Seq(Events) /\ Deletions(a \o b, rows)
<1>1. /\ a \o b \in Seq(Events) /\ Len(a) \in Nat /\ Len(b) \in Nat
      /\ Len(a \o b) = Len(a) + Len(b)
      /\ \A i \in 1..Len(a \o b) :
           (a \o b)[i] = IF i <= Len(a) THEN a[i] ELSE b[i - Len(a)]
  BY ConcatProperties, LenProperties
<1>2. ASSUME NEW i \in 1..Len(a \o b), (a \o b)[i].kind = "deleted"
      PROVE  rows[(a \o b)[i].msg] = "deleted"
  <2>1. CASE i <= Len(a)
    BY <1>1, <1>2, <2>1 DEF Deletions
  <2>2. CASE i > Len(a)
    <3>1. i - Len(a) \in 1..Len(b) /\ (a \o b)[i] = b[i - Len(a)]
      BY <1>1, <2>2
    <3> QED
      BY <1>2, <3>1 DEF Deletions
  <2> QED
    BY <1>1, <2>1, <2>2
<1> QED
  BY <1>1, <1>2 DEF Deletions

LEMMA OneEvent ==
  ASSUME NEW rows, NEW e \in Events, e.kind = "deleted" => rows[e.msg] = "deleted"
  PROVE  /\ <<e>> \in Seq(Events) /\ Deletions(<<e>>, rows)
         /\ ToRoom(e) \in Seq(Events) /\ Deletions(ToRoom(e), rows)
<1>1. <<e>> \in Seq(Events) /\ Len(<<e>>) = 1 /\ <<e>>[1] = e
  OBVIOUS
<1>2. <<>> \in Seq(Events) /\ Len(<<>>) = 0
  OBVIOUS
<1>3. Deletions(<<e>>, rows) /\ Deletions(<<>>, rows)
  BY <1>1, <1>2 DEF Deletions
<1> QED
  BY <1>1, <1>2, <1>3 DEF ToRoom

LEMMA EventsStep == ASSUME ListInv, [Next]_vars PROVE EventsFit'
<1> USE DEF ListInv
<1>1. Deletions(chan, row') /\ chan \in Seq(Events)
  <2>1. \A m \in Msgs : row[m] = "deleted" => row'[m] = "deleted"
    BY RowsStep
  <2>a. chan \in Seq(Events)
    BY DEF EventsFit
  <2>b. \A i \in 1..Len(chan) : chan[i] \in Events
    BY <2>a, ElementOfSeq
  <2>2. \A i \in 1..Len(chan) : chan[i].msg \in Msgs
    BY <2>b DEF Events
  <2> QED
    BY <2>1, <2>2 DEF EventsFit, Deletions
<1>2. ASSUME NEW m \in Msgs, AnnounceNew(m) PROVE EventsFit'
  <2> DEFINE e == [kind |-> "new", msg |-> m, ver |-> 0]
  <2>1. chan' = chan \/ chan' = chan \o ToRoom(e)
    BY <1>2 DEF AnnounceNew
  <2>2. e \in Events /\ e.kind # "deleted"
    BY DEF Events, Kinds
  <2> HIDE DEF e
  <2>3. ToRoom(e) \in Seq(Events) /\ Deletions(ToRoom(e), row')
    BY <2>2, OneEvent
  <2>4. chan \o ToRoom(e) \in Seq(Events) /\ Deletions(chan \o ToRoom(e), row')
    BY <1>1, <2>3, MoreEvents
  <2> QED
    BY <1>1, <2>1, <2>4 DEF EventsFit
<1>3. ASSUME NEW m \in Msgs, NEW op \in {"edit", "delete"}, NEW kind \in {"updated", "deleted"},
             AnnounceChange(op, kind, m), kind = "deleted" => op = "delete"
      PROVE  EventsFit'
  <2> DEFINE e == [kind |-> kind, msg |-> m, ver |-> ver[m]]
  <2>1. /\ chan' = chan \o ToRoom(e) /\ row' = row
        /\ call[<<op, m>>] = "written"
    BY <1>3 DEF AnnounceChange
  <2>2. e \in Events /\ (e.kind = "deleted" => row'[e.msg] = "deleted")
    BY <1>3, <2>1 DEF RowsFit, Events, Kinds
  <2> HIDE DEF e
  <2>3. ToRoom(e) \in Seq(Events) /\ Deletions(ToRoom(e), row')
    BY <2>2, OneEvent
  <2>4. chan \o ToRoom(e) \in Seq(Events) /\ Deletions(chan \o ToRoom(e), row')
    BY <1>1, <2>3, MoreEvents
  <2> QED
    BY <2>1, <2>4 DEF EventsFit
<1>4. ASSUME NEW m \in Msgs, Answered(m) PROVE EventsFit'
  <2>1. PICK v \in 0..1 : chan' = Append(chan, [kind |-> "ack", msg |-> m, ver |-> v])
    <3>1. 0 \in 0..1 /\ ver[m] \in 0..1
      BY DEF RowsFit
    <3> QED
      BY <1>4, <3>1 DEF Answered, Answer, AnswerAgain
  <2> DEFINE e == [kind |-> "ack", msg |-> m, ver |-> v]
  <2>2. e \in Events /\ e.kind # "deleted"
    BY DEF Events, Kinds
  <2>a. chan' = Append(chan, e)
    BY <2>1
  <2> HIDE DEF e
  <2>3. <<e>> \in Seq(Events) /\ Deletions(<<e>>, row')
    BY <2>2, OneEvent
  <2>4. chan \o <<e>> \in Seq(Events) /\ Deletions(chan \o <<e>>, row')
    BY <1>1, <2>3, MoreEvents
  <2>5. Append(chan, e) = chan \o <<e>>
    BY <1>1, <2>2, AppendIsConcat
  <2> QED
    BY <2>a, <2>4, <2>5 DEF EventsFit
<1>5. ASSUME Deliver PROVE EventsFit'
  <2>1. chan # <<>> /\ chan' = Tail(chan)
    BY <1>5 DEF Deliver
  <2>2. /\ Tail(chan) \in Seq(Events) /\ Len(Tail(chan)) = Len(chan) - 1 /\ Len(chan) \in Nat
        /\ \A i \in 1..Len(Tail(chan)) : Tail(chan)[i] = chan[i + 1]
    BY <1>1, <2>1, HeadTailProperties, LenProperties
  <2>3. \A i \in 1..Len(Tail(chan)) : i + 1 \in 1..Len(chan)
    BY <2>2
  <2> QED
    BY <1>1, <2>1, <2>2, <2>3 DEF EventsFit, Deletions
<1>6. ASSUME Drop PROVE EventsFit'
  <2>1. chan' = <<>> /\ <<>> \in Seq(Events) /\ Len(<<>>) = 0
    BY <1>6 DEF Drop
  <2> QED
    BY <2>1 DEF EventsFit, Deletions
<1>7. ASSUME \/ \E m \in Msgs :
                  \/ Stored(m) \/ WriteEdit(m) \/ WriteDelete(m) \/ Emit(m)
                  \/ \E op \in {"edit", "delete"} : Check(op, m)
             \/ HandleJoin \/ HandleLeave
             \/ \E s \in {"first", "second"} : Open(s) \/ MergePage(s)
             \/ Close \/ Reconnects \/ LoadMore \/ PrependPage
             \/ \E s \in Slots : ReadPage(s) \/ LoadFails(s)
             \/ UNCHANGED vars
      PROVE  EventsFit'
  <2>1. chan' = chan
    BY <1>7, StoredRow DEF WriteEdit, WriteDelete, Emit, Check, HandleJoin, HandleLeave, Open,
       MergePage, Close, Reconnects, Connect, LoadMore, PrependPage, ReadPage, LoadFails, vars
  <2> QED
    BY <1>1, <2>1 DEF EventsFit
<1> QED
  BY <1>2, <1>3, <1>4, <1>5, <1>6, <1>7 DEF Next, Stored, Answered, Reconnects

-----------------------------------------------------------------------------
(* The requests in flight.                                                 *)

LEMMA LeastMessage ==
  ASSUME NEW S \in SUBSET Msgs, S # {}
  PROVE  (CHOOSE m \in S : \A n \in S : m <= n) \in S
<1>1. S \subseteq Nat
  BY Bounds DEF Msgs
<1> QED
  BY <1>1, LeastNumber

LEMMA NewestOfSome ==
  ASSUME NEW S \in SUBSET Msgs
  PROVE  Newest(S) \in SUBSET S /\ (S # {} => Newest(S) # {})
<1>1. Newest(S) \in SUBSET S
  BY DEF Newest
<1>2. ASSUME S # {} PROVE Newest(S) # {}
  <2> DEFINE after == {LastMsg - m : m \in S}
  <2>1. after \subseteq Nat /\ after # {}
    BY <1>2, Bounds DEF Msgs
  <2>2. PICK a \in after : \A b \in after : a <= b
    BY <2>1, LeastNumber
  <2>3. PICK m \in S : a = LastMsg - m
    BY <2>2
  <2>4. \A n \in S : LastMsg - m <= LastMsg - n
    BY <2>2, <2>3
  <2>5. \A n \in S : ~(n > m)
    BY <2>3, <2>4, Bounds DEF Msgs
  <2>6. {n \in S : n > m} = {}
    BY <2>5
  <2>7. Cardinality({n \in S : n > m}) < PageLimit
    BY <2>6, FS_EmptySet, SyncAssumption DEF SyncAssumption
  <2> QED
    BY <2>3, <2>7 DEF Newest
<1> QED
  BY <1>1, <1>2

LEMMA OneRequest ==
  ASSUME LoadsFit, NEW s \in Slots, NEW r \in Requests, Unique(r.items),
         load' = [load EXCEPT ![s] = r]
  PROVE  LoadsFit'
<1>1. \A t \in Slots : load'[t] = IF t = s THEN r ELSE load[t]
  BY DEF LoadsFit
<1> QED
  BY <1>1 DEF LoadsFit

LEMMA NotedRequests ==
  ASSUME LoadsFit, NEW more \in SUBSET Msgs,
         load' = [s \in Slots |-> IF load[s].at = "read"
                    THEN [load[s] EXCEPT !.since = @ \cup more] ELSE load[s]]
  PROVE  LoadsFit'
<1>1. \A s \in Slots : load'[s] \in Requests /\ load'[s].items = load[s].items
  BY DEF LoadsFit, Requests
<1> QED
  BY <1>1 DEF LoadsFit

LEMMA ReadRequest == ASSUME ListInv, NEW s \in Slots, ReadPage(s) PROVE LoadsFit'
<1> USE DEF ListInv
<1> DEFINE matching == Matching(load[s].from)
           items == Newest(matching)
           next == IF items = matching THEN 0
                   ELSE CHOOSE m \in items : \A n \in items : m <= n
           r == [load[s] EXCEPT !.at = "read", !.items = Copied(items), !.next = next]
<1>1. load[s] \in Requests
  BY DEF LoadsFit
<1>a. load' = [load EXCEPT ![s].at = "read", ![s].items = Copied(items), ![s].next = next]
  BY Zenon DEF ReadPage
<1>3. matching \in SUBSET Msgs
  BY DEF Matching, Live
<1> HIDE DEF matching
<1>4. items \in SUBSET Msgs /\ (items # matching => items # {})
  BY <1>3, NewestOfSome
<1> HIDE DEF items
<1>5. next \in 0..LastMsg
  <2>1. CASE items = matching
    BY <2>1, Bounds
  <2>2. CASE items # matching
    <3>1. (CHOOSE m \in items : \A n \in items : m <= n) \in items
      BY <1>4, <2>2, LeastMessage
    <3>2. next \in items
      BY <2>2, <3>1
    <3> HIDE DEF next
    <3> QED
      BY <1>4, <3>2, Bounds DEF Msgs
  <2> QED
    BY <2>1, <2>2
<1>6. Copied(items) \in Seq(Copies) /\ Unique(Copied(items))
  BY <1>4, CopiedPage DEF RowsFit
<1> HIDE DEF next
<1>2. load' = [load EXCEPT ![s] = r]
  BY <1>a DEF LoadsFit, Requests
<1>7. r \in Requests /\ r.items = Copied(items)
  BY <1>1, <1>5, <1>6 DEF Requests
<1> HIDE DEF r
<1> QED
  BY <1>2, <1>6, <1>7, OneRequest

LEMMA LoadsStep == ASSUME ListInv, [Next]_vars PROVE LoadsFit'
<1> USE DEF ListInv
<1>1. ASSUME NEW s \in {"first", "second"}, Load(s) PROVE LoadsFit'
  <2>1. load' = [load EXCEPT ![s] = [Idle EXCEPT !.at = "asked"]]
    BY <1>1 DEF Load
  <2>2. /\ [Idle EXCEPT !.at = "asked"] \in Requests
        /\ [Idle EXCEPT !.at = "asked"].items = <<>>
    BY IdleRequest DEF Idle, Requests
  <2> QED
    BY <2>1, <2>2, IdleRequest, OneRequest DEF Slots
<1>2. ASSUME LoadMore PROVE LoadsFit'
  <2>1. load' = [load EXCEPT !["more"] = [Idle EXCEPT !.at = "asked", !.from = cursor]]
    BY <1>2 DEF LoadMore
  <2>2. /\ [Idle EXCEPT !.at = "asked", !.from = cursor] \in Requests
        /\ [Idle EXCEPT !.at = "asked", !.from = cursor].items = <<>>
    BY IdleRequest DEF Idle, Requests, ListFit
  <2> QED
    BY <2>1, <2>2, IdleRequest, OneRequest DEF Slots
<1>3. ASSUME NEW s \in Slots, load' = [load EXCEPT ![s] = Idle] PROVE LoadsFit'
  BY <1>3, IdleRequest, OneRequest
<1>4. ASSUME \/ \E s \in {"first", "second"} : MergePage(s)
             \/ PrependPage \/ \E s \in Slots : LoadFails(s)
      PROVE  LoadsFit'
  <2>1. \E s \in Slots : load' = [load EXCEPT ![s] = Idle]
    BY <1>4 DEF MergePage, PrependPage, LoadFails, Slots
  <2> QED
    BY <1>3, <2>1
<1>5. ASSUME NEW m \in Msgs, load' = Noted(m) PROVE LoadsFit'
  <2>1. load' = [s \in Slots |-> IF load[s].at = "read"
                    THEN [load[s] EXCEPT !.since = @ \cup {m}] ELSE load[s]]
    BY <1>5 DEF Noted
  <2>2. {m} \in SUBSET Msgs
    OBVIOUS
  <2> QED
    BY <2>1, <2>2, NotedRequests
<1>6. ASSUME Drop PROVE LoadsFit'
  <2> DEFINE lost == {chan[i].msg : i \in {j \in 1..Len(chan) : Change(chan[j])}}
  <2>1. load' = [s \in Slots |-> IF load[s].at = "read"
                    THEN [load[s] EXCEPT !.since = @ \cup lost] ELSE load[s]]
    BY <1>6 DEF Drop
  <2>2. lost \in SUBSET Msgs
    <3>1. chan \in Seq(Events)
      BY DEF EventsFit
    <3>2. \A i \in 1..Len(chan) : chan[i] \in Events
      BY <3>1, ElementOfSeq
    <3> QED
      BY <3>2 DEF Events
  <2> HIDE DEF lost
  <2> QED
    BY <2>1, <2>2, NotedRequests
<1>7. ASSUME Deliver PROVE LoadsFit'
  <2>1. load' = load \/ load' = Noted(Head(chan).msg)
    BY <1>7 DEF Deliver
  <2>2. Head(chan).msg \in Msgs
    <3>1. chan # <<>> /\ chan \in Seq(Events)
      BY <1>7 DEF Deliver, EventsFit
    <3>2. Head(chan) \in Events
      BY <3>1, HeadTailProperties
    <3> QED
      BY <3>2 DEF Events
  <2> QED
    BY <1>5, <2>1, <2>2 DEF LoadsFit
<1>8. ASSUME NEW m \in Msgs, \/ AnnounceChange("edit", "updated", m)
                             \/ AnnounceChange("delete", "deleted", m)
      PROVE  LoadsFit'
  <2>1. load' = load \/ load' = Noted(m)
    BY <1>8 DEF AnnounceChange
  <2> QED
    BY <1>5, <2>1 DEF LoadsFit
<1>9. ASSUME Reconnects PROVE LoadsFit'
  <2>1. load' = load \/ \E s \in {"first", "second"} : Load(s)
    BY <1>9 DEF Reconnects, Connect, FreeSlots
  <2> QED
    BY <1>1, <2>1 DEF LoadsFit
<1>10. ASSUME NEW s \in {"first", "second"}, Open(s) PROVE LoadsFit'
  BY <1>1, <1>10 DEF Open
<1>11. ASSUME \/ \E m \in Msgs :
                   \/ Stored(m) \/ WriteEdit(m) \/ WriteDelete(m)
                   \/ \E op \in {"edit", "delete"} : Check(op, m)
                   \/ AnnounceNew(m) \/ Emit(m) \/ Answered(m)
              \/ HandleJoin \/ HandleLeave \/ Close \/ UNCHANGED vars
       PROVE  LoadsFit'
  <2>1. load' = load
    BY <1>11, StoredRow DEF WriteEdit, WriteDelete, Check, AnnounceNew, Emit, Answered, Answer,
       AnswerAgain, HandleJoin, HandleLeave, Close, vars
  <2> QED
    BY <2>1 DEF LoadsFit
<1> QED
  BY <1>2, <1>4, <1>6, <1>7, <1>8, <1>9, <1>10, <1>11, ReadRequest DEF Next, Stored, Answered,
     Reconnects

-----------------------------------------------------------------------------
(* The list.                                                               *)

Gone(m) == row[m] = "deleted"

LEMMA ListStep ==
  ASSUME ListInv, [Next]_vars
  PROVE  ListFit' /\ \A m \in Keys(list) \ Keys(list') : Gone(m)
<1> USE DEF ListInv
<1>1. list \in Seq(Entries) /\ Unique(list)
  BY DEF ListFit
<1>2. ASSUME NEW m \in Msgs, Emit(m)
      PROVE  ListFit' /\ Keys(list) \subseteq Keys(list')
  <2> DEFINE e == [msg |-> m, real |-> FALSE, ver |-> 0]
  <2>1. /\ list' = list \/ list' = Reconciled(list, e)
        /\ UNCHANGED <<cursor, missed>>
    BY <1>2 DEF Emit, Reconciled
  <2>2. e \in Entries
    BY DEF Entries
  <2> HIDE DEF e
  <2>3. list' \in Seq(Entries) /\ Unique(list') /\ Keys(list) \subseteq Keys(list')
    BY <1>1, <2>1, <2>2, ReconciledList
  <2> QED
    BY <2>1, <2>3 DEF ListFit
<1>3. ASSUME NEW s \in {"first", "second"}, MergePage(s)
      PROVE  ListFit' /\ Keys(list) \subseteq Keys(list')
  <2> DEFINE held == Keys(load[s].items)
             least == load[s].next
  <2>1. load[s] \in Requests /\ Unique(load[s].items)
    BY DEF LoadsFit, Slots
  <2>2. /\ load[s].items \in Seq(Copies) /\ least \in 0..LastMsg
    BY <2>1 DEF Requests
  <2>3. /\ list' = Merged(list, load[s].items) /\ cursor' = least
        /\ missed' = (missed \ held) \cup (held \cap load[s].since)
    BY <1>3 DEF MergePage
  <2>4. held \subseteq Msgs
    BY <2>2, ConfirmedList
  <2>5. list' \in Seq(Entries) /\ Unique(list') /\ Keys(list) \subseteq Keys(list')
    BY <1>1, <2>1, <2>2, <2>3, MergedList
  <2> HIDE DEF held, least
  <2>6. missed' \subseteq Msgs /\ cursor' \in 0..LastMsg
    BY <2>2, <2>3, <2>4, Bounds DEF ListFit
  <2> QED
    BY <2>5, <2>6 DEF ListFit
<1>4. ASSUME PrependPage
      PROVE  ListFit' /\ Keys(list) \subseteq Keys(list')
  <2> DEFINE items == load["more"].items
             fresh == Keys(items) \ Keys(list)
  <2>1. load["more"] \in Requests /\ Unique(items)
    BY DEF LoadsFit, Slots
  <2>2. items \in Seq(Copies) /\ load["more"].next \in 0..LastMsg
    BY <2>1 DEF Requests
  <2>3. /\ list' = Prepended(list, items) /\ cursor' = load["more"].next
        /\ missed' = (missed \ fresh) \cup (fresh \cap load["more"].since)
    BY <1>4 DEF PrependPage
  <2>4. Keys(items) \subseteq Msgs
    BY <2>2, ConfirmedList
  <2>5. list' \in Seq(Entries) /\ Unique(list') /\ Keys(list) \subseteq Keys(list')
    BY <1>1, <2>1, <2>2, <2>3, PrependedList
  <2>6. missed' \subseteq Msgs /\ cursor' \in 0..LastMsg
    BY <2>2, <2>3, <2>4 DEF ListFit
  <2> QED
    BY <2>5, <2>6 DEF ListFit
<1>5. ASSUME Deliver
      PROVE  ListFit' /\ \A m \in Keys(list) \ Keys(list') : Gone(m)
  <2> DEFINE e == Head(chan)
             shown == [msg |-> e.msg, real |-> TRUE, ver |-> e.ver]
  <2>1. chan # <<>> /\ chan \in Seq(Events) /\ Deletions(chan, row)
    BY <1>5 DEF Deliver, EventsFit
  <2>2. e \in Events /\ e = chan[1] /\ 1 \in 1..Len(chan)
    BY <2>1, HeadTailProperties, LenProperties
  <2>3. e.kind = "deleted" => Gone(e.msg)
    BY <2>1, <2>2 DEF Deletions, Gone
  <2>4. /\ UNCHANGED cursor
        /\ missed' \in {missed, missed \cup {e.msg}, missed \ {e.msg}}
        /\ list' = list \/ list' = Applied(e)
    BY <1>5 DEF Deliver
  <2> HIDE DEF e
  <2>5. e.msg \in Msgs /\ e.ver \in 0..1 /\ shown \in Entries /\ e.kind \in Kinds
    BY <2>2 DEF Events, Entries
  <2>6. CASE list' = list
    BY <1>1, <2>4, <2>5, <2>6 DEF ListFit
  <2>7. CASE list' = Applied(e) /\ e.kind \in {"new", "ack"}
    <3>1. list' = Reconciled(list, shown)
      BY <2>7 DEF Applied
    <3> HIDE DEF shown
    <3> QED
      BY <1>1, <2>4, <2>5, <3>1, ReconciledList DEF ListFit
  <2>8. CASE list' = Applied(e) /\ e.kind = "updated"
    <3>1. list' = Updated(list, e.msg, e.ver)
      BY <2>8 DEF Applied
    <3> QED
      BY <1>1, <2>4, <2>5, <3>1, ChangedList DEF ListFit
  <2>9. CASE list' = Applied(e) /\ e.kind = "deleted"
    <3>1. list' = Removed(list, e.msg)
      BY <2>9 DEF Applied
    <3> QED
      BY <1>1, <2>3, <2>4, <2>5, <2>9, <3>1, ChangedList DEF ListFit
  <2> QED
    BY <2>4, <2>5, <2>6, <2>7, <2>8, <2>9 DEF Kinds
<1>6. ASSUME NEW m \in Msgs, \/ AnnounceNew(m) \/ AnnounceChange("edit", "updated", m)
                             \/ AnnounceChange("delete", "deleted", m)
      PROVE  ListFit' /\ list' = list
  <2>1. /\ UNCHANGED <<list, cursor>> /\ missed' \in {missed, missed \cup {m}}
    BY <1>6 DEF AnnounceNew, AnnounceChange
  <2> QED
    BY <2>1 DEF ListFit
<1>7. ASSUME Drop PROVE ListFit' /\ list' = list
  <2> DEFINE lost == {chan[i].msg : i \in 1..Len(chan)}
  <2>1. UNCHANGED <<list, cursor>> /\ missed' = missed \cup lost \cup answering
    BY <1>7 DEF Drop
  <2>a. answering \subseteq Msgs
    BY Bounds DEF LinkFit
  <2>2. lost \subseteq Msgs
    <3>1. chan \in Seq(Events)
      BY DEF EventsFit
    <3>2. \A i \in 1..Len(chan) : chan[i] \in Events
      BY <3>1, ElementOfSeq
    <3> QED
      BY <3>2 DEF Events
  <2> HIDE DEF lost
  <2> QED
    BY <2>1, <2>a, <2>2 DEF ListFit
<1>8. ASSUME \/ \E m \in Msgs :
                  \/ Stored(m) \/ WriteEdit(m) \/ WriteDelete(m) \/ Answered(m)
                  \/ \E op \in {"edit", "delete"} : Check(op, m)
             \/ HandleJoin \/ HandleLeave
             \/ \E s \in {"first", "second"} : Open(s)
             \/ Close \/ Reconnects \/ LoadMore
             \/ \E s \in Slots : ReadPage(s) \/ LoadFails(s)
             \/ UNCHANGED vars
      PROVE  ListFit' /\ list' = list
  <2>1. UNCHANGED <<list, cursor, missed>>
    BY <1>8, StoredRow DEF WriteEdit, WriteDelete, Answered, Answer, AnswerAgain, Check,
       HandleJoin, HandleLeave, Open, Close, Reconnects, Connect, LoadMore, ReadPage, LoadFails, vars
  <2> QED
    BY <2>1 DEF ListFit
<1>9. ASSUME ListFit', list' = list \/ Keys(list) \subseteq Keys(list')
      PROVE  ListFit' /\ \A m \in Keys(list) \ Keys(list') : Gone(m)
  BY <1>9
<1> QED
  BY <1>2, <1>3, <1>4, <1>5, <1>6, <1>7, <1>8, <1>9 DEF Next, Stored, Answered, Reconnects

LEMMA PageSteps == [PageNext]_<<focus, listVars, pinVars>> => [Next]_vars
BY DEF PageNext, listVars

\* The messages of the list are what the page loads, the room and the outbox
\* brought, each once, in every interleaving of them (chat.store.ts,
\* message-merge.ts).
THEOREM ListInvariant == PageSpec => []ListInv
<1>1. PageInit => ListInv
  BY InitList DEF PageInit
<1>2. ListInv /\ [PageNext]_<<focus, listVars, pinVars>> => ListInv'
  BY PageSteps, RowsStep, LinkStep, EventsStep, LoadsStep, ListStep DEF ListInv
<1> QED
  BY <1>1, <1>2, PTL DEF PageSpec

\* A message has one bubble, for any number of messages, page size, reconnects
\* and answers (message-merge.ts).
THEOREM OneBubblePerMessage == PageSpec => []NoDuplicates
<1>1. ListInv => NoDuplicates
  BY DEF ListInv, ListFit, Unique, NoDuplicates
<1> QED
  BY <1>1, ListInvariant, PTL

\* No page, reconnect or answer takes a message off the list: only its deletion
\* does (message-merge.ts:109-116).
THEOREM MessagesStayInTheList == PageSpec => OnlyDeletionRemoves
<1>1. ListInv /\ [PageNext]_<<focus, listVars, pinVars>> =>
        [\A m \in Keys(list) \ Keys(list') : row[m] = "deleted"]_vars
  BY PageSteps, ListStep DEF Gone
<1> QED
  BY <1>1, ListInvariant, PTL DEF PageSpec, OnlyDeletionRemoves

\* The page's own state and its pins have their types.
THEOREM PageTypes == PageSpec => []PageTypeOK
<1>1. ListInv => TypeOK
  BY DEF ListInv, RowsFit, LinkFit, EventsFit, LoadsFit, ListFit, Requests, TypeOK
<1>2. PinsInv => Pinning!TypeOK
  BY DEF PinsInv
<1> QED
  BY <1>1, <1>2, ListInvariant, PinsInvariant, PTL DEF PageTypeOK

-----------------------------------------------------------------------------
(* The list once everything has settled.  What the operations of the list  *)
(* make of its entries: nothing but what was there and what came.          *)

LEMMA ReconciledIn ==
  ASSUME NEW l \in Seq(Entries), NEW e \in Entries
  PROVE  /\ \A x \in In(Reconciled(l, e)) : x = e \/ (x \in In(l) /\ x.msg # e.msg)
         /\ e.msg \in Keys(Reconciled(l, e))
<1> DEFINE r == Reconciled(l, e)
<1>1. Len(l) \in Nat
  BY LenProperties
<1>2. CASE e.msg \in Keys(l)
  <2>1. r = [i \in 1..Len(l) |-> IF l[i].msg = e.msg THEN e ELSE l[i]]
    BY <1>2 DEF Reconciled
  <2>2. Len(r) = Len(l)
    BY <1>1, <2>1
  <2> HIDE DEF r
  <2>3. \A i \in 1..Len(l) : r[i] = IF l[i].msg = e.msg THEN e ELSE l[i]
    BY <2>1
  <2> QED
    BY <1>2, <2>2, <2>3 DEF In, Keys, r
<1>3. CASE e.msg \notin Keys(l)
  <2>1. r = Append(l, e)
    BY <1>3 DEF Reconciled
  <2>2. /\ Len(r) = Len(l) + 1
        /\ r[Len(r)] = e /\ \A i \in 1..Len(l) : r[i] = l[i]
    BY <2>1, AppendProperties
  <2> HIDE DEF r
  <2>3. Len(r) \in 1..Len(r) /\ \A i \in 1..Len(r) : i \in 1..Len(l) \/ i = Len(r)
    BY <1>1, <2>2
  <2>4. \A i \in 1..Len(l) : l[i].msg # e.msg
    BY <1>3 DEF Keys
  <2> QED
    BY <2>2, <2>3, <2>4 DEF In, Keys, r
<1> QED
  BY <1>2, <1>3

LEMMA ConfirmedIn ==
  ASSUME NEW items \in Seq(Copies)
  PROVE  \A x \in In(Confirmed(items)) :
           x.real /\ \E c \in In(items) : x.msg = c.msg /\ x.ver = c.ver
<1> DEFINE c == Confirmed(items)
<1>1. Len(c) = Len(items)
  BY ConfirmedList
<1>2. c = [i \in 1..Len(items) |->
             [msg |-> items[i].msg, real |-> TRUE, ver |-> items[i].ver]]
  BY DEF Confirmed
<1> HIDE DEF c
<1>3. \A i \in 1..Len(items) :
        c[i] = [msg |-> items[i].msg, real |-> TRUE, ver |-> items[i].ver]
  BY <1>2
<1>4. ASSUME NEW i \in 1..Len(items)
      PROVE  c[i].real = TRUE /\ c[i].msg = items[i].msg /\ c[i].ver = items[i].ver
  <2> DEFINE x == [msg |-> items[i].msg, real |-> TRUE, ver |-> items[i].ver]
  <2>1. x.real = TRUE /\ x.msg = items[i].msg /\ x.ver = items[i].ver
    OBVIOUS
  <2>2. c[i] = x
    BY <1>3
  <2> HIDE DEF x
  <2> QED
    BY <2>1, <2>2
<1>5. \A x \in In(c) : \E i \in 1..Len(items) : x = c[i]
  BY <1>1 DEF In
<1>6. \A i \in 1..Len(items) : items[i] \in In(items)
  BY DEF In
<1>7. ASSUME NEW x \in In(c)
      PROVE  x.real = TRUE /\ \E k \in In(items) : x.msg = k.msg /\ x.ver = k.ver
  <2>1. PICK i \in 1..Len(items) : x = c[i]
    BY <1>5
  <2>2. items[i] \in In(items)
    BY <1>6
  <2> QED
    BY <1>4, <2>1, <2>2
<1> USE DEF c
<1> QED
  BY <1>7, Zenon

LEMMA MergedIn ==
  ASSUME NEW l \in Seq(Entries), NEW items \in Seq(Copies)
  PROVE  /\ \A x \in In(Merged(l, items)) :
              \/ x \in In(Confirmed(items))
              \/ x \in In(l) /\ x.msg \notin Keys(items)
         /\ Keys(items) \subseteq Keys(Merged(l, items))
<1> DEFINE c == Confirmed(items)
           places == Without(l, Keys(items))
           r == Kept(l, places)
<1>1. c \in Seq(Entries) /\ Keys(c) = Keys(items)
  BY ConfirmedList
<1>2. places \in SUBSET (1..Len(l)) /\ \A i \in places : l[i].msg \notin Keys(items)
  BY DEF Without
<1>3. Merged(l, items) = c \o r
  BY DEF Merged
<1> HIDE DEF c, places
<1>4. r \in Seq(Entries) /\ \A x \in In(r) : \E i \in places : x = l[i]
  <2>1. r \in Seq(Entries)
    BY <1>2, KeptElements
  <2>2. In(r) = {l[i] : i \in places}
    BY <1>2, KeptIn
  <2> QED
    BY <2>1, <2>2
<1> HIDE DEF r
<1>5. In(c \o r) = In(c) \cup In(r) /\ Keys(c) \cup Keys(r) \subseteq Keys(c \o r)
  BY <1>1, <1>4, JoinedElements, JoinedKeys
<1>6. \A x \in In(r) : x \in In(l) /\ x.msg \notin Keys(items)
  BY <1>2, <1>4 DEF In
<1> QED
  BY <1>1, <1>3, <1>5, <1>6 DEF c

LEMMA PrependedIn ==
  ASSUME NEW l \in Seq(Entries), NEW items \in Seq(Copies)
  PROVE  \A x \in In(Prepended(l, items)) :
           \/ x \in In(l)
           \/ x \in In(Confirmed(items)) /\ x.msg \notin Keys(l)
<1> DEFINE c == Confirmed(items)
           places == Without(items, Keys(l))
           r == Kept(c, places)
<1>1. c \in Seq(Entries) /\ Len(c) = Len(items)
      /\ \A i \in 1..Len(items) : c[i].msg = items[i].msg
  BY ConfirmedList
<1>2. places \in SUBSET (1..Len(items)) /\ \A i \in places : items[i].msg \notin Keys(l)
  BY DEF Without
<1>3. Prepended(l, items) = r \o l
  BY DEF Prepended
<1> HIDE DEF c, places
<1>4. places \in SUBSET (1..Len(c)) /\ \A i \in places : c[i].msg \notin Keys(l)
  BY <1>1, <1>2
<1>5. r \in Seq(Entries) /\ \A x \in In(r) : \E i \in places : x = c[i]
  <2>1. r \in Seq(Entries)
    BY <1>1, <1>4, KeptElements
  <2>2. In(r) = {c[i] : i \in places}
    BY <1>1, <1>4, KeptIn
  <2> QED
    BY <2>1, <2>2
<1> HIDE DEF r
<1>6. In(r \o l) = In(r) \cup In(l)
  BY <1>5, JoinedElements
<1>7. \A x \in In(r) : x \in In(c) /\ x.msg \notin Keys(l)
  BY <1>4, <1>5 DEF In
<1> QED
  BY <1>3, <1>6, <1>7 DEF c

LEMMA ChangedIn ==
  ASSUME NEW l \in Seq(Entries), NEW m \in Msgs, NEW v \in 0..1
  PROVE  /\ \A x \in In(Updated(l, m, v)) : \E y \in In(l) :
              /\ x.msg = y.msg /\ x.real = y.real
              /\ IF y.msg = m /\ y.real THEN x.ver = v ELSE x = y
         /\ \A x \in In(Removed(l, m)) : x \in In(l) /\ ~(x.msg = m /\ x.real)
<1> DEFINE u == Updated(l, m, v)
           new(i) == IF l[i].msg = m /\ l[i].real THEN [l[i] EXCEPT !.ver = v] ELSE l[i]
<1>1. Len(l) \in Nat /\ \A i \in 1..Len(l) : l[i] \in Entries
  BY LenProperties, ElementOfSeq
<1>2. u = [i \in 1..Len(l) |-> new(i)]
  BY DEF Updated
<1>3. Len(u) = Len(l)
  BY <1>1, <1>2
<1> HIDE DEF u
<1>4. \A i \in 1..Len(l) : u[i] = new(i)
  BY <1>2
<1>5. ASSUME NEW i \in 1..Len(l)
      PROVE  /\ u[i].msg = l[i].msg /\ u[i].real = l[i].real
             /\ IF l[i].msg = m /\ l[i].real THEN u[i].ver = v ELSE u[i] = l[i]
  <2>1. l[i] \in Entries
    BY <1>1
  <2> QED
    BY <1>4, <2>1 DEF Entries
<1>6. \A x \in In(u) : \E y \in In(l) :
        /\ x.msg = y.msg /\ x.real = y.real
        /\ IF y.msg = m /\ y.real THEN x.ver = v ELSE x = y
  BY <1>3, <1>5 DEF In
<1> DEFINE places == {i \in 1..Len(l) : ~(l[i].msg = m /\ l[i].real)}
           r == Kept(l, places)
<1>7. r = Removed(l, m)
  BY DEF Removed
<1>8. places \in SUBSET (1..Len(l)) /\ \A i \in places : ~(l[i].msg = m /\ l[i].real)
  OBVIOUS
<1> HIDE DEF places
<1>9. \A x \in In(r) : \E i \in places : x = l[i]
  BY <1>8, KeptIn
<1> HIDE DEF r
<1>10. \A x \in In(r) : x \in In(l) /\ ~(x.msg = m /\ x.real)
  BY <1>8, <1>9 DEF In
<1> QED
  BY <1>6, <1>7, <1>10 DEF u

LEMMA CopiedIn ==
  ASSUME ver \in [Msgs -> 0..1], NEW S \in SUBSET Msgs
  PROVE  \A c \in In(Copied(S)) : c.msg \in S /\ c.ver = ver[c.msg]
<1> DEFINE rows == [m \in Msgs |-> [msg |-> m, ver |-> ver[m]]]
<1>1. \A m \in 1..LastMsg : [msg |-> m, ver |-> ver[m]] \in Copies
  BY DEF Copies, Msgs
<1>2. LastMsg \in Nat
  BY SyncAssumption DEF SyncAssumption
<1>3. rows \in Seq(Copies) /\ Len(rows) = LastMsg
  BY <1>1, <1>2, IsASeq DEF Msgs
<1>4. \A m \in Msgs : rows[m].msg = m /\ rows[m].ver = ver[m]
  OBVIOUS
<1>5. S \in SUBSET (1..Len(rows))
  BY <1>3 DEF Msgs
<1>6. Copied(S) = Kept(rows, S)
  BY DEF Copied
<1> HIDE DEF rows
<1>7. \A c \in In(Copied(S)) : \E i \in S : c = rows[i]
  BY <1>3, <1>5, <1>6, KeptIn
<1> QED
  BY <1>4, <1>7

-----------------------------------------------------------------------------
(* What is behind the database is being announced or answered, or its      *)
(* event or answer is still on the socket, or was missed.                  *)

Behind(kind, m) == \E e \in In(chan) : e.kind = kind /\ e.msg = m
Under(op, m) == call[<<op, m>>] = "written"
Begun(op, m) == call[<<op, m>>] \in {"written", "announced"}
Coming(m) ==
  Under("send", m) \/ m \in answering \/ Behind("new", m) \/ Behind("ack", m)
\* Of a copy of m with the version v, in the list or in a page.
Current(m, v) ==
  /\ v # ver[m] => Under("edit", m) \/ Behind("updated", m)
  /\ row[m] = "deleted" => Under("delete", m) \/ Behind("deleted", m)

CallFits(m) ==
  /\ Begun("edit", m) <=> ver[m] = 1
  /\ Begun("delete", m) <=> row[m] = "deleted"
  /\ row[m] = "none" =>
       /\ call[<<"send", m>>] = "idle" /\ call[<<"edit", m>>] = "idle"
       /\ call[<<"delete", m>>] = "idle"
CallsFit == \A m \in Msgs : CallFits(m)
Known(e) ==
  /\ row[e.msg] # "none" /\ (e.ver = 1 => ver[e.msg] = 1)
  /\ e.kind = "updated" => e.ver = 1
  /\ e.kind = "deleted" => row[e.msg] = "deleted"
EventsKnown == \A e \in In(chan) : Known(e)
EntriesKnown == \A x \in In(list) : x.real => row[x.msg] # "none"
AnswersKnown == \A m \in answering : row[m] # "none"
ItemsKnown == \A s \in Slots : \A c \in In(load[s].items) : row[c.msg] # "none"
EntriesSettle ==
  \A x \in In(list) : x.msg \notin missed =>
    IF x.real THEN Current(x.msg, x.ver) ELSE row[x.msg] = "none" \/ Coming(x.msg)
RowsSettle ==
  \A m \in Msgs \ missed : row[m] = "live" /\ m \notin Keys(list) => Coming(m)
ItemsSettle ==
  \A s \in Slots : load[s].at = "read" =>
    \A c \in In(load[s].items) : c.msg \notin load[s].since => Current(c.msg, c.ver)

SettleInv ==
  /\ CallsFit /\ EventsKnown /\ EntriesKnown /\ AnswersKnown /\ ItemsKnown
  /\ EntriesSettle /\ RowsSettle /\ ItemsSettle

LEMMA InitSettles == Init => SettleInv
<1> SUFFICES ASSUME Init PROVE SettleInv
  OBVIOUS
<1>1. In(chan) = {} /\ In(list) = {} /\ \A s \in Slots : In(load[s].items) = {}
  <2>1. In(<<>>) = {}
    BY OneElement
  <2>2. \A s \in Slots : load[s].items = <<>>
    BY DEF Init, Idle
  <2> QED
    BY <2>1, <2>2 DEF Init
<1>2. CallsFit
  BY DEF Init, CallsFit, CallFits, Begun, Ops
<1>3. EventsKnown /\ EntriesKnown /\ ItemsKnown /\ EntriesSettle /\ ItemsSettle
  BY <1>1 DEF EventsKnown, EntriesKnown, ItemsKnown, EntriesSettle, ItemsSettle
<1>4. RowsSettle /\ AnswersKnown
  BY DEF Init, RowsSettle, AnswersKnown
<1> QED
  BY <1>2, <1>3, <1>4 DEF SettleInv

\* The types the steps below rest on.
LEMMA Typed ==
  ASSUME ListInv
  PROVE  /\ row \in [Msgs -> {"none", "live", "deleted"}] /\ ver \in [Msgs -> 0..1]
         /\ call \in [Ops \X Msgs -> Steps]
         /\ chan \in Seq(Events) /\ \A e \in In(chan) : e \in Events
         /\ list \in Seq(Entries) /\ \A x \in In(list) : x \in Entries
         /\ missed \subseteq Msgs /\ answering \subseteq Msgs
         /\ load \in [Slots -> Requests]
         /\ \A s \in Slots : /\ load[s].items \in Seq(Copies)
                             /\ \A c \in In(load[s].items) : c \in Copies
<1>1. /\ row \in [Msgs -> {"none", "live", "deleted"}] /\ ver \in [Msgs -> 0..1]
      /\ call \in [Ops \X Msgs -> Steps] /\ missed \subseteq Msgs
      /\ load \in [Slots -> Requests]
  BY DEF ListInv, RowsFit, ListFit, LoadsFit
<1>2. chan \in Seq(Events) /\ list \in Seq(Entries)
  BY DEF ListInv, EventsFit, ListFit
<1>3. \A s \in Slots : load[s].items \in Seq(Copies)
  BY <1>1 DEF Requests
<1>4. \A E : \A s \in Seq(E) : \A x \in In(s) : x \in E
  BY ElementOfSeq DEF In
<1>5. answering \subseteq Msgs
  BY Bounds DEF ListInv, LinkFit
<1> QED
  BY <1>1, <1>2, <1>3, <1>4, <1>5

LEMMA CallsStep == ASSUME ListInv, CallsFit, [Next]_vars PROVE CallsFit'
<1>t. /\ row \in [Msgs -> {"none", "live", "deleted"}] /\ ver \in [Msgs -> 0..1]
      /\ call \in [Ops \X Msgs -> Steps]
  BY Typed
<1> USE <1>t
\* What a step that moves one call has to show.
<1>m. ASSUME NEW m \in Msgs, NEW op \in Ops, NEW to \in Steps,
             call' = [call EXCEPT ![<<op, m>>] = to],
             \A n \in Msgs \ {m} : row'[n] = row[n] /\ ver'[n] = ver[n],
             CallFits(m)'
      PROVE  CallsFit'
  <2>1. \A n \in Msgs \ {m}, o \in Ops : call'[<<o, n>>] = call[<<o, n>>]
    BY <1>m
  <2>2. ASSUME NEW n \in Msgs \ {m} PROVE CallFits(n)'
    <3>1. CallFits(n)
      BY DEF CallsFit
    <3>2. /\ call'[<<"send", n>>] = call[<<"send", n>>]
          /\ call'[<<"edit", n>>] = call[<<"edit", n>>]
          /\ call'[<<"delete", n>>] = call[<<"delete", n>>]
          /\ row'[n] = row[n] /\ ver'[n] = ver[n]
      BY <1>m, <2>1 DEF Ops
    <3> QED
      BY <3>1, <3>2 DEF CallFits, Begun
  <2> QED
    BY <1>m, <2>2 DEF CallsFit
<1>0. ASSUME NEW m \in Msgs PROVE CallFits(m)
  BY DEF CallsFit
<1>1. ASSUME NEW m \in Msgs, Stored(m) PROVE CallsFit'
  <2>1. /\ row[m] = "none" /\ row' = [row EXCEPT ![m] = "live"] /\ ver' = ver
        /\ call' = [call EXCEPT ![<<"send", m>>] = "written"]
    BY <1>1 DEF Stored, Store, StoreOwn, Inserted
  <2>2. /\ call'[<<"edit", m>>] = call[<<"edit", m>>]
        /\ call'[<<"delete", m>>] = call[<<"delete", m>>] /\ row'[m] = "live"
    BY <2>1
  <2>3. CallFits(m)'
    BY <1>0, <2>1, <2>2 DEF CallFits, Begun
  <2> QED
    BY <1>m, <2>1, <2>3 DEF Ops, Steps
<1>2. ASSUME NEW m \in Msgs, NEW op \in {"edit", "delete"}, Check(op, m) PROVE CallsFit'
  <2>1. /\ UNCHANGED <<row, ver>> /\ row[m] # "none" /\ call[<<op, m>>] = "idle"
        /\ \E to \in {"checked", "refused"} : call' = [call EXCEPT ![<<op, m>>] = to]
    BY <1>2 DEF Check
  <2>2. PICK to \in {"checked", "refused"} : call' = [call EXCEPT ![<<op, m>>] = to]
    BY <2>1
  <2>3. \A o \in Ops : call'[<<o, m>>] = IF o = op THEN to ELSE call[<<o, m>>]
    BY <2>2
  <2>4. CallFits(m)'
    BY <1>0, <2>1, <2>3 DEF CallFits, Begun, Ops
  <2> QED
    BY <1>m, <2>1, <2>2, <2>4 DEF Ops, Steps
<1>3. ASSUME NEW m \in Msgs, WriteEdit(m) PROVE CallsFit'
  <2>1. /\ call[<<"edit", m>>] = "checked" /\ ver' = [ver EXCEPT ![m] = 1] /\ row' = row
        /\ call' = [call EXCEPT ![<<"edit", m>>] = "written"]
    BY <1>3 DEF WriteEdit
  <2>2. /\ call'[<<"edit", m>>] = "written" /\ ver'[m] = 1
        /\ call'[<<"delete", m>>] = call[<<"delete", m>>]
    BY <2>1 DEF Ops
  <2>3. CallFits(m)'
    BY <1>0, <2>1, <2>2 DEF CallFits, Begun
  <2> QED
    BY <1>m, <2>1, <2>3 DEF Ops, Steps
<1>4. ASSUME NEW m \in Msgs, WriteDelete(m) PROVE CallsFit'
  <2>1. /\ call[<<"delete", m>>] = "checked" /\ row' = [row EXCEPT ![m] = "deleted"]
        /\ ver' = ver /\ call' = [call EXCEPT ![<<"delete", m>>] = "written"]
    BY <1>4 DEF WriteDelete
  <2>2. /\ call'[<<"delete", m>>] = "written" /\ row'[m] = "deleted"
        /\ call'[<<"edit", m>>] = call[<<"edit", m>>]
    BY <2>1 DEF Ops
  <2>3. CallFits(m)'
    BY <1>0, <2>1, <2>2 DEF CallFits, Begun
  <2> QED
    BY <1>m, <2>1, <2>3 DEF Ops, Steps
<1>5. ASSUME NEW m \in Msgs, \/ AnnounceNew(m) \/ AnnounceChange("edit", "updated", m)
                             \/ AnnounceChange("delete", "deleted", m)
      PROVE  CallsFit'
  <2>1. PICK op \in Ops :
          /\ UNCHANGED <<row, ver>> /\ call[<<op, m>>] = "written"
          /\ call' = [call EXCEPT ![<<op, m>>] = "announced"]
    BY <1>5 DEF AnnounceNew, AnnounceChange, Ops
  <2>2. \A o \in Ops : call'[<<o, m>>] = IF o = op THEN "announced" ELSE call[<<o, m>>]
    BY <2>1
  <2>3. CallFits(m)'
    BY <1>0, <2>1, <2>2 DEF CallFits, Begun, Ops
  <2> QED
    BY <1>m, <2>1, <2>3 DEF Steps
<1>7. ASSUME UNCHANGED <<row, ver, call>> PROVE CallsFit'
  BY <1>7 DEF CallsFit, CallFits, Begun
<1>8. ASSUME \/ \E m \in Msgs : Emit(m) \/ Answered(m)
             \/ HandleJoin \/ HandleLeave
             \/ \E s \in {"first", "second"} : Open(s) \/ MergePage(s)
             \/ Close \/ Drop \/ Reconnects \/ LoadMore \/ PrependPage
             \/ \E s \in Slots : ReadPage(s) \/ LoadFails(s)
             \/ Deliver \/ UNCHANGED vars
      PROVE  UNCHANGED <<row, ver, call>>
  BY <1>8 DEF Emit, Answered, Answer, AnswerAgain, HandleJoin, HandleLeave, Open, MergePage,
     Close, Drop, Reconnects, Connect, LoadMore, PrependPage, ReadPage, LoadFails, Deliver,
     server, vars
<1> QED
  BY <1>1, <1>2, <1>3, <1>4, <1>5, <1>7, <1>8 DEF Next, Stored, Answered, Reconnects

\* Rows, edits and deletions stay.
LEMMA RowsStay ==
  ASSUME ListInv, [Next]_vars, NEW m \in Msgs
  PROVE  /\ row[m] # "none" => row'[m] # "none"
         /\ row[m] = "deleted" => row'[m] = "deleted"
         /\ ver[m] = 1 => ver'[m] = 1
<1>t. /\ row \in [Msgs -> {"none", "live", "deleted"}] /\ ver \in [Msgs -> 0..1]
  BY Typed
<1>1. ASSUME NEW n \in Msgs, Stored(n) \/ WriteEdit(n) \/ WriteDelete(n)
      PROVE  /\ row[m] # "none" => row'[m] # "none"
             /\ row[m] = "deleted" => row'[m] = "deleted"
             /\ ver[m] = 1 => ver'[m] = 1
  <2>1. CASE Stored(n)
    BY <1>t, <2>1, StoredRow
  <2>2. CASE WriteEdit(n)
    BY <1>t, <2>2 DEF WriteEdit
  <2>3. CASE WriteDelete(n)
    BY <1>t, <2>3 DEF WriteDelete
  <2> QED
    BY <1>1, <2>1, <2>2, <2>3
<1>2. ASSUME \/ \E n \in Msgs :
                  \/ \E op \in {"edit", "delete"} : Check(op, n)
                  \/ AnnounceNew(n) \/ Emit(n) \/ Answered(n)
                  \/ AnnounceChange("edit", "updated", n)
                  \/ AnnounceChange("delete", "deleted", n)
             \/ HandleJoin \/ HandleLeave
             \/ \E s \in {"first", "second"} : Open(s) \/ MergePage(s)
             \/ Close \/ Drop \/ Reconnects \/ LoadMore \/ PrependPage
             \/ \E s \in Slots : ReadPage(s) \/ LoadFails(s)
             \/ Deliver \/ UNCHANGED vars
      PROVE  UNCHANGED <<row, ver>>
  BY <1>2 DEF Check, AnnounceNew, AnnounceChange, Emit, Answered, Answer, AnswerAgain, HandleJoin,
     HandleLeave, Open, MergePage, Close, Drop, Reconnects, Connect, LoadMore, PrependPage,
     ReadPage, LoadFails, Deliver,
     server, vars
<1> QED
  BY <1>1, <1>2 DEF Next, Stored, Answered, Reconnects

\* The events of each step.
LEMMA RoomEvent ==
  ASSUME NEW e PROVE In(ToRoom(e)) = IF inRoom THEN {e} ELSE {}
BY OneElement DEF ToRoom

LEMMA NewEvents ==
  ASSUME ListInv, NEW m \in Msgs, AnnounceNew(m)
  PROVE  /\ In(chan) \subseteq In(chan')
         /\ \A e \in In(chan') \ In(chan) : e.msg = m /\ e.ver = 0 /\ e.kind = "new"
         /\ m \in answering' \/ m \in missed' \/ Behind("new", m)'
<1> DEFINE e == [kind |-> "new", msg |-> m, ver |-> 0]
<1>1. CASE m \in answering
  <2>1. chan' = chan /\ answering' = answering
    BY <1>1 DEF AnnounceNew, own
  <2> QED
    BY <1>1, <2>1
<1>2. CASE m \notin answering
  <2>1. chan' = chan \o ToRoom(e) /\ (~inRoom => m \in missed')
    BY <1>2 DEF AnnounceNew
  <2>2. e \in Events
    BY DEF Events, Kinds
  <2>3. e.msg = m /\ e.ver = 0 /\ e.kind = "new"
    OBVIOUS
  <2> HIDE DEF e
  <2>4. ToRoom(e) \in Seq(Events) /\ chan \in Seq(Events)
    BY <2>2, Typed DEF ToRoom
  <2>5. In(chan') = In(chan) \cup In(ToRoom(e))
    BY <2>1, <2>4, JoinedElements
  <2> QED
    BY <2>1, <2>3, <2>5, RoomEvent DEF Behind
<1> QED
  BY <1>1, <1>2

LEMMA ChangeEvents ==
  ASSUME ListInv, NEW m \in Msgs, NEW op, NEW kind \in {"updated", "deleted"},
         AnnounceChange(op, kind, m)
  PROVE  /\ In(chan) \subseteq In(chan')
         /\ \A e \in In(chan') \ In(chan) : e.msg = m /\ e.ver = ver[m] /\ e.kind = kind
         /\ inRoom => Behind(kind, m)'
<1> DEFINE e == [kind |-> kind, msg |-> m, ver |-> ver[m]]
<1>1. chan' = chan \o ToRoom(e)
  BY DEF AnnounceChange
<1>2. e \in Events
  BY Typed DEF Events, Kinds
<1>3. e.msg = m /\ e.ver = ver[m] /\ e.kind = kind
  OBVIOUS
<1> HIDE DEF e
<1>4. ToRoom(e) \in Seq(Events) /\ chan \in Seq(Events)
  BY <1>2, Typed DEF ToRoom
<1>5. In(chan') = In(chan) \cup In(ToRoom(e))
  BY <1>1, <1>4, JoinedElements
<1> QED
  BY <1>3, <1>5, RoomEvent DEF Behind

LEMMA AnswerEvents ==
  ASSUME ListInv, NEW m \in Msgs, Answered(m)
  PROVE  /\ In(chan) \subseteq In(chan') /\ Behind("ack", m)'
         /\ \A e \in In(chan') \ In(chan) :
              e.msg = m /\ e.ver \in {0, ver[m]} /\ e.kind = "ack"
<1>1. PICK v \in {0, ver[m]} : chan' = Append(chan, [kind |-> "ack", msg |-> m, ver |-> v])
  BY DEF Answered, Answer, AnswerAgain
<1> DEFINE e == [kind |-> "ack", msg |-> m, ver |-> v]
<1>a. chan' = Append(chan, e)
  BY <1>1
<1>2. e \in Events
  <2>1. v \in 0..1
    BY Typed
  <2> QED
    BY <2>1 DEF Events, Kinds
<1>3. e.msg = m /\ e.ver = v /\ e.kind = "ack"
  OBVIOUS
<1> HIDE DEF e
<1>4. <<e>> \in Seq(Events) /\ chan \in Seq(Events)
  BY <1>2, Typed
<1>5. chan' = chan \o <<e>>
  BY <1>a, <1>2, <1>4, AppendIsConcat
<1>6. In(chan') = In(chan) \cup {e}
  <2>1. In(chan \o <<e>>) = In(chan) \cup In(<<e>>)
    BY <1>4, JoinedElements
  <2>2. In(<<e>>) = {e}
    BY OneElement
  <2> QED
    BY <1>5, <2>1, <2>2
<1> QED
  BY <1>3, <1>6 DEF Behind

\* A step that leaves the socket alone.
Quietly ==
  \/ \E m \in Msgs :
       \/ Stored(m) \/ WriteEdit(m) \/ WriteDelete(m) \/ Emit(m)
       \/ \E op \in {"edit", "delete"} : Check(op, m)
  \/ HandleJoin \/ HandleLeave
  \/ \E s \in {"first", "second"} : Open(s) \/ MergePage(s)
  \/ Close \/ Reconnects \/ LoadMore \/ PrependPage
  \/ \E s \in Slots : ReadPage(s) \/ LoadFails(s)
  \/ UNCHANGED vars

LEMMA QuietSteps ==
  /\ [Next]_vars => \/ Quietly \/ Deliver \/ Drop
                    \/ \E m \in Msgs : \/ AnnounceNew(m) \/ Answered(m)
                                       \/ AnnounceChange("edit", "updated", m)
                                       \/ AnnounceChange("delete", "deleted", m)
  /\ Quietly => chan' = chan
<1>1. Quietly => chan' = chan
  BY StoredRow DEF Quietly, WriteEdit, WriteDelete, Emit, Check, HandleJoin, HandleLeave, Open,
     MergePage, Close, Reconnects, Connect, LoadMore, PrependPage, ReadPage, LoadFails, vars
<1> QED
  BY <1>1 DEF Next, Quietly, Stored, Answered, Reconnects

LEMMA DeliverEvents ==
  ASSUME ListInv, Deliver
  PROVE  /\ chan # <<>> /\ Head(chan) \in Events /\ Head(chan) \in In(chan)
         /\ In(chan) = {Head(chan)} \cup In(chan')
         /\ \A i \in 2..Len(chan) : chan[i] \in In(chan')
<1>1. chan # <<>> /\ chan' = Tail(chan) /\ chan \in Seq(Events)
  BY Typed DEF Deliver
<1> QED
  BY <1>1, FirstAndRest, Typed

LEMMA EventsKnownStep ==
  ASSUME ListInv, CallsFit, EventsKnown, AnswersKnown, [Next]_vars PROVE EventsKnown'
<1>t. /\ row \in [Msgs -> {"none", "live", "deleted"}] /\ ver \in [Msgs -> 0..1]
      /\ \A e \in In(chan) : e.msg \in Msgs
  BY Typed DEF Events
<1>1. \A e \in In(chan) : Known(e)'
  <2> SUFFICES ASSUME NEW e \in In(chan) PROVE Known(e)'
    OBVIOUS
  <2>1. Known(e) /\ e.msg \in Msgs
    BY <1>t DEF EventsKnown
  <2> QED
    BY <2>1, RowsStay DEF Known
<1>2. ASSUME NEW m \in Msgs, AnnounceNew(m) PROVE EventsKnown'
  <2>1. UNCHANGED <<row, ver>> /\ row[m] # "none"
    BY <1>2 DEF AnnounceNew, CallsFit, CallFits
  <2>2. \A e \in In(chan') \ In(chan) : Known(e)'
    BY <1>2, <2>1, NewEvents DEF Known
  <2> QED
    BY <1>1, <2>2 DEF EventsKnown
<1>3. ASSUME NEW m \in Msgs, AnnounceChange("edit", "updated", m) PROVE EventsKnown'
  <2>1. UNCHANGED <<row, ver>> /\ row[m] # "none" /\ ver[m] = 1
    BY <1>3 DEF AnnounceChange, CallsFit, CallFits, Begun
  <2>2. \A e \in In(chan') \ In(chan) : e.msg = m /\ e.ver = ver[m] /\ e.kind = "updated"
    BY <1>3, ChangeEvents
  <2>3. \A e \in In(chan') \ In(chan) : Known(e)'
    BY <2>1, <2>2 DEF Known
  <2> QED
    BY <1>1, <2>3 DEF EventsKnown
<1>4. ASSUME NEW m \in Msgs, AnnounceChange("delete", "deleted", m) PROVE EventsKnown'
  <2>1. UNCHANGED <<row, ver>> /\ row[m] = "deleted"
    BY <1>4 DEF AnnounceChange, CallsFit, CallFits, Begun
  <2>2. \A e \in In(chan') \ In(chan) : e.msg = m /\ e.ver = ver[m] /\ e.kind = "deleted"
    BY <1>4, ChangeEvents
  <2>3. \A e \in In(chan') \ In(chan) : Known(e)'
    BY <2>1, <2>2 DEF Known
  <2> QED
    BY <1>1, <2>3 DEF EventsKnown
<1>5. ASSUME NEW m \in Msgs, Answered(m) PROVE EventsKnown'
  <2>1. UNCHANGED <<row, ver>> /\ row[m] # "none"
    BY <1>5 DEF Answered, Answer, AnswerAgain, server, AnswersKnown
  <2>2. \A e \in In(chan') \ In(chan) : Known(e)'
    BY <1>5, <2>1, AnswerEvents DEF Known
  <2> QED
    BY <1>1, <2>2 DEF EventsKnown
<1>6. ASSUME Deliver \/ Drop \/ Quietly PROVE EventsKnown'
  <2>1. In(chan') \subseteq In(chan)
    BY <1>6, DeliverEvents, QuietSteps, OneElement DEF Drop
  <2> QED
    BY <1>1, <2>1 DEF EventsKnown
<1> QED
  BY <1>2, <1>3, <1>4, <1>5, <1>6, QuietSteps

\* What moves a row, a version and a call under way.
LEMMA RowMoves ==
  ASSUME ListInv, [Next]_vars, NEW m \in Msgs
  PROVE  /\ ver'[m] = ver[m] \/ WriteEdit(m)
         /\ row'[m] = row[m] \/ Stored(m) \/ WriteDelete(m)
<1>t. /\ row \in [Msgs -> {"none", "live", "deleted"}] /\ ver \in [Msgs -> 0..1]
  BY Typed
<1>1. ASSUME NEW n \in Msgs, Stored(n) \/ WriteEdit(n) \/ WriteDelete(n)
      PROVE  /\ ver'[m] = ver[m] \/ WriteEdit(m)
             /\ row'[m] = row[m] \/ Stored(m) \/ WriteDelete(m)
  <2>1. CASE m = n
    BY <1>1, <2>1, StoredRow DEF WriteEdit, WriteDelete
  <2>2. CASE m # n
    BY <1>1, <1>t, <2>2, StoredRow DEF WriteEdit, WriteDelete
  <2> QED
    BY <2>1, <2>2
<1>2. ASSUME \/ \E n \in Msgs :
                  \/ \E op \in {"edit", "delete"} : Check(op, n)
                  \/ AnnounceNew(n) \/ Emit(n) \/ Answered(n)
                  \/ AnnounceChange("edit", "updated", n)
                  \/ AnnounceChange("delete", "deleted", n)
             \/ HandleJoin \/ HandleLeave
             \/ \E s \in {"first", "second"} : Open(s) \/ MergePage(s)
             \/ Close \/ Drop \/ Reconnects \/ LoadMore \/ PrependPage
             \/ \E s \in Slots : ReadPage(s) \/ LoadFails(s)
             \/ Deliver \/ UNCHANGED vars
      PROVE  UNCHANGED <<row, ver>>
  BY <1>2 DEF Check, AnnounceNew, AnnounceChange, Emit, Answered, Answer, AnswerAgain, HandleJoin,
     HandleLeave, Open, MergePage, Close, Drop, Reconnects, Connect, LoadMore, PrependPage,
     ReadPage, LoadFails, Deliver,
     server, vars
<1> QED
  BY <1>1, <1>2 DEF Next, Stored, Answered, Reconnects

Announced(op, m) ==
  \/ op = "send" /\ AnnounceNew(m)
  \/ op = "edit" /\ AnnounceChange("edit", "updated", m)
  \/ op = "delete" /\ AnnounceChange("delete", "deleted", m)

LEMMA UnderStays ==
  ASSUME ListInv, [Next]_vars, NEW m \in Msgs, NEW op \in Ops, Under(op, m)
  PROVE  Under(op, m)' \/ Announced(op, m)
<1>t. call \in [Ops \X Msgs -> Steps] /\ call[<<op, m>>] = "written"
  BY Typed DEF Under
<1>c. ASSUME NEW n \in Msgs, NEW o \in Ops, NEW to,
             call' = [call EXCEPT ![<<o, n>>] = to], to = "written" \/ <<o, n>> # <<op, m>>
      PROVE  Under(op, m)'
  <2>1. call'[<<op, m>>] = "written"
    BY <1>t, <1>c
  <2> QED
    BY <2>1 DEF Under
<1>1. ASSUME NEW n \in Msgs, Stored(n) \/ WriteEdit(n) \/ WriteDelete(n) PROVE Under(op, m)'
  <2>1. \E o \in Ops : call' = [call EXCEPT ![<<o, n>>] = "written"]
    BY <1>1, StoredRow DEF WriteEdit, WriteDelete, Ops
  <2> QED
    BY <1>c, <2>1
<1>2. ASSUME NEW n \in Msgs, NEW o \in {"edit", "delete"}, Check(o, n) PROVE Under(op, m)'
  <2>1. call[<<o, n>>] = "idle" /\ \E to : call' = [call EXCEPT ![<<o, n>>] = to]
    BY <1>2 DEF Check
  <2>2. <<o, n>> # <<op, m>> /\ o \in Ops
    BY <1>t, <2>1 DEF Ops
  <2> QED
    BY <1>c, <2>1, <2>2
<1>3. ASSUME NEW n \in Msgs, NEW o \in Ops, Announced(o, n)
      PROVE  Under(op, m)' \/ Announced(op, m)
  <2>1. call' = [call EXCEPT ![<<o, n>>] = "announced"]
    BY <1>3 DEF Announced, AnnounceNew, AnnounceChange
  <2>2. CASE <<o, n>> = <<op, m>>
    <3>1. o = op /\ n = m
      BY <2>2
    <3> QED
      BY <1>3, <3>1
  <2> QED
    BY <1>c, <2>1, <2>2
<1>4. ASSUME UNCHANGED call PROVE Under(op, m)'
  BY <1>4 DEF Under
<1>5. ASSUME \/ \E n \in Msgs : Emit(n) \/ Answered(n)
             \/ HandleJoin \/ HandleLeave
             \/ \E s \in {"first", "second"} : Open(s) \/ MergePage(s)
             \/ Close \/ Drop \/ Reconnects \/ LoadMore \/ PrependPage
             \/ \E s \in Slots : ReadPage(s) \/ LoadFails(s)
             \/ Deliver \/ UNCHANGED vars
      PROVE  UNCHANGED call
  BY <1>5 DEF Emit, Answered, Answer, AnswerAgain, HandleJoin, HandleLeave, Open, MergePage,
     Close, Drop, Reconnects, Connect, LoadMore, PrependPage, ReadPage, LoadFails, Deliver,
     server, vars
<1>6. ASSUME NEW n \in Msgs, \/ AnnounceNew(n) \/ AnnounceChange("edit", "updated", n)
                             \/ AnnounceChange("delete", "deleted", n)
      PROVE  \E o \in Ops : Announced(o, n)
  BY <1>6 DEF Announced, Ops
<1> QED
  BY <1>1, <1>2, <1>3, <1>4, <1>5, <1>6 DEF Next, Stored, Answered, Reconnects

\* The event at the head of the socket.
Heard(kind, m) == Deliver /\ Head(chan).kind = kind /\ Head(chan).msg = m
\* The list will not hear of a change of m, and every page that was read before
\* it knows.
Lost(m) ==
  m \in missed' /\ \A s \in Slots : load[s].at = "read" => m \in load'[s].since

LEMMA BehindStays ==
  ASSUME ListInv, [Next]_vars, NEW m \in Msgs, NEW kind \in Kinds, Behind(kind, m)
  PROVE  Behind(kind, m)' \/ Drop \/ Heard(kind, m)
<1>1. ASSUME In(chan) \subseteq In(chan') PROVE Behind(kind, m)'
  BY <1>1 DEF Behind
<1>2. ASSUME NEW n \in Msgs, \/ AnnounceNew(n) \/ Answered(n)
                             \/ AnnounceChange("edit", "updated", n)
                             \/ AnnounceChange("delete", "deleted", n)
      PROVE  In(chan) \subseteq In(chan')
  BY <1>2, NewEvents, AnswerEvents, ChangeEvents
<1>3. ASSUME Deliver PROVE Behind(kind, m)' \/ Heard(kind, m)
  BY <1>3, DeliverEvents DEF Behind, Heard
<1>4. ASSUME Quietly PROVE In(chan) \subseteq In(chan')
  BY <1>4, QuietSteps
<1> QED
  BY <1>1, <1>2, <1>3, <1>4, QuietSteps

LEMMA NotedLost ==
  ASSUME ListInv, NEW m \in Msgs, load' = Noted(m)
  PROVE  \A s \in Slots : load[s].at = "read" => m \in load'[s].since
<1> SUFFICES ASSUME NEW s \in Slots, load[s].at = "read" PROVE m \in load'[s].since
  OBVIOUS
<1>1. load'[s] = [load[s] EXCEPT !.since = @ \cup {m}] /\ load[s] \in Requests
  BY Typed DEF Noted
<1> QED
  BY <1>1 DEF Requests

LEMMA DropLoses ==
  ASSUME ListInv, Drop, NEW m \in Msgs, NEW kind \in Kinds, Behind(kind, m)
  PROVE  m \in missed' /\ (kind \in {"updated", "deleted"} => Lost(m))
<1> DEFINE lost == {chan[i].msg : i \in 1..Len(chan)}
           changed == {chan[i].msg : i \in {j \in 1..Len(chan) : Change(chan[j])}}
<1>1. m \in lost /\ (kind \in {"updated", "deleted"} => m \in changed)
  BY DEF Behind, In, Change
<1>2. /\ missed' = missed \cup lost \cup answering
      /\ load' = [s \in Slots |-> IF load[s].at = "read"
                    THEN [load[s] EXCEPT !.since = @ \cup changed] ELSE load[s]]
  BY DEF Drop
<1> HIDE DEF lost, changed
<1>3. ASSUME NEW s \in Slots, load[s].at = "read", m \in changed PROVE m \in load'[s].since
  <2>1. load'[s] = [load[s] EXCEPT !.since = @ \cup changed] /\ load[s] \in Requests
    BY <1>2, <1>3, Typed
  <2> QED
    BY <1>3, <2>1 DEF Requests
<1> QED
  BY <1>1, <1>2, <1>3 DEF Lost

\* A copy that was current stays so, unless the change is delivered or lost.
LEMMA CurrentStays ==
  ASSUME ListInv, [Next]_vars, NEW m \in Msgs, NEW v, Current(m, v)
  PROVE  Current(m, v)' \/ Lost(m) \/ Heard("updated", m) \/ Heard("deleted", m)
<1>1. ASSUME NEW op \in Ops, NEW kind \in {"updated", "deleted"},
             <<op, kind>> \in {<<"edit", "updated">>, <<"delete", "deleted">>},
             Under(op, m) \/ Behind(kind, m)
      PROVE  Under(op, m)' \/ Behind(kind, m)' \/ Lost(m) \/ Heard(kind, m)
  <2>1. CASE Under(op, m)
    <3>1. Under(op, m)' \/ Announced(op, m)
      BY <2>1, UnderStays
    <3>2. Announced(op, m) => AnnounceChange(op, kind, m)
      BY <1>1 DEF Announced
    <3>3. ASSUME AnnounceChange(op, kind, m), ~inRoom PROVE Lost(m)
      <4>1. m \in missed' /\ load' = Noted(m)
        BY <3>3 DEF AnnounceChange
      <4> QED
        BY <4>1, NotedLost DEF Lost
    <3>4. ASSUME AnnounceChange(op, kind, m), inRoom PROVE Behind(kind, m)'
      BY <3>4, ChangeEvents
    <3> QED
      BY <3>1, <3>2, <3>3, <3>4
  <2>2. CASE Behind(kind, m)
    <3>1. kind \in Kinds
      BY DEF Kinds
    <3> QED
      BY <2>2, <3>1, BehindStays, DropLoses
  <2> QED
    BY <1>1, <2>1, <2>2
<1>2. v # ver'[m] => \/ Under("edit", m)' \/ Behind("updated", m)' \/ Lost(m)
                     \/ Heard("updated", m)
  <2>1. CASE WriteEdit(m)
    <3>1. call'[<<"edit", m>>] = "written"
      BY <2>1, Typed DEF WriteEdit, Ops
    <3> QED
      BY <3>1 DEF Under
  <2>2. CASE ver'[m] = ver[m] /\ v # ver[m]
    <3>1. Under("edit", m) \/ Behind("updated", m)
      BY <2>2 DEF Current
    <3> QED
      BY <1>1, <3>1 DEF Ops
  <2> QED
    BY <2>1, <2>2, RowMoves
<1>3. row'[m] = "deleted" => \/ Under("delete", m)' \/ Behind("deleted", m)' \/ Lost(m)
                             \/ Heard("deleted", m)
  <2>1. CASE WriteDelete(m)
    <3>1. call'[<<"delete", m>>] = "written"
      BY <2>1, Typed DEF WriteDelete, Ops
    <3> QED
      BY <3>1 DEF Under
  <2>2. CASE Stored(m)
    BY <2>2, Typed, StoredRow
  <2>3. CASE row'[m] = row[m] /\ row[m] = "deleted"
    <3>1. Under("delete", m) \/ Behind("deleted", m)
      BY <2>3 DEF Current
    <3> QED
      BY <1>1, <3>1 DEF Ops
  <2> QED
    BY <2>1, <2>2, <2>3, RowMoves
<1> QED
  BY <1>2, <1>3 DEF Current

\* So does a message on its way.
LEMMA AnsweringStays ==
  ASSUME ListInv, [Next]_vars, NEW m \in answering
  PROVE  m \in answering' \/ Behind("ack", m)' \/ m \in missed'
<1>1. ASSUME NEW n \in Msgs, Answered(n) PROVE m \in answering' \/ Behind("ack", m)'
  <2>1. CASE n = m
    BY <1>1, <2>1, AnswerEvents
  <2>2. CASE n # m
    BY <1>1, <2>2 DEF Answered, Answer, AnswerAgain
  <2> QED
    BY <2>1, <2>2
<1>2. ASSUME Drop PROVE m \in missed'
  BY <1>2 DEF Drop
<1>3. ASSUME \/ \E n \in Msgs :
                  \/ Stored(n) \/ WriteEdit(n) \/ WriteDelete(n) \/ Emit(n)
                  \/ \E op \in {"edit", "delete"} : Check(op, n)
                  \/ AnnounceNew(n) \/ AnnounceChange("edit", "updated", n)
                  \/ AnnounceChange("delete", "deleted", n)
             \/ HandleJoin \/ HandleLeave
             \/ \E s \in {"first", "second"} : Open(s) \/ MergePage(s)
             \/ Close \/ Reconnects \/ LoadMore \/ PrependPage
             \/ \E s \in Slots : ReadPage(s) \/ LoadFails(s)
             \/ Deliver \/ UNCHANGED vars
      PROVE  m \in answering'
  BY <1>3 DEF Stored, Store, StoreOwn, WriteEdit, WriteDelete, Emit, Check, AnnounceNew,
     AnnounceChange, HandleJoin, HandleLeave, Open, MergePage, Close, Reconnects, Connect, LoadMore,
     PrependPage, ReadPage, LoadFails, Deliver, own, vars
<1> QED
  BY <1>1, <1>2, <1>3 DEF Next, Stored, Answered, Reconnects

LEMMA AnswersKnownStep == ASSUME ListInv, AnswersKnown, [Next]_vars PROVE AnswersKnown'
<1> SUFFICES ASSUME NEW m \in answering' PROVE row'[m] # "none"
  BY DEF AnswersKnown
<1>1. CASE m \in answering
  BY <1>1, RowsStay, Typed DEF AnswersKnown
<1>2. CASE m \notin answering
  <2>1. ASSUME NEW n \in Msgs, Stored(n) PROVE row'[m] # "none"
    <3>1. answering' \subseteq answering \cup {n}
      BY <2>1 DEF Stored, Store, StoreOwn, own
    <3>2. row \in [Msgs -> {"none", "live", "deleted"}] /\ row' = [row EXCEPT ![n] = "live"]
      BY <2>1, StoredRow, Typed
    <3> QED
      BY <1>2, <3>1, <3>2
  <2>2. ASSUME \/ \E n \in Msgs :
                    \/ WriteEdit(n) \/ WriteDelete(n) \/ Emit(n) \/ Answered(n)
                    \/ \E op \in {"edit", "delete"} : Check(op, n)
                    \/ AnnounceNew(n) \/ AnnounceChange("edit", "updated", n)
                    \/ AnnounceChange("delete", "deleted", n)
               \/ HandleJoin \/ HandleLeave
               \/ \E s \in {"first", "second"} : Open(s) \/ MergePage(s)
               \/ Close \/ Drop \/ Reconnects \/ LoadMore \/ PrependPage
               \/ \E s \in Slots : ReadPage(s) \/ LoadFails(s)
               \/ Deliver \/ UNCHANGED vars
        PROVE  answering' \subseteq answering
    BY <2>2 DEF WriteEdit, WriteDelete, Emit, Answered, Answer, AnswerAgain, Check, AnnounceNew,
       AnnounceChange, HandleJoin, HandleLeave, Open, MergePage, Close, Drop, Reconnects, Connect,
       LoadMore, PrependPage, ReadPage, LoadFails, Deliver, own, vars
  <2> QED
    BY <1>2, <2>1, <2>2 DEF Next, Stored, Answered, Reconnects
<1> QED
  BY <1>1, <1>2

LEMMA ComingStays ==
  ASSUME ListInv, [Next]_vars, NEW m \in Msgs, Coming(m)
  PROVE  Coming(m)' \/ m \in missed' \/ Heard("new", m) \/ Heard("ack", m)
<1>1. CASE Under("send", m)
  <2>1. Under("send", m)' \/ Announced("send", m)
    BY <1>1, UnderStays DEF Ops
  <2>2. Announced("send", m) => AnnounceNew(m)
    BY DEF Announced
  <2> QED
    BY <2>1, <2>2, NewEvents DEF Coming
<1>2. ASSUME NEW kind \in {"new", "ack"}, Behind(kind, m)
      PROVE  Coming(m)' \/ m \in missed' \/ Heard(kind, m)
  <2>1. kind \in Kinds
    BY DEF Kinds
  <2> QED
    BY <1>2, <2>1, BehindStays, DropLoses DEF Coming
<1>3. CASE m \in answering
  BY <1>3, AnsweringStays DEF Coming
<1> QED
  BY <1>1, <1>2, <1>3 DEF Coming

\* How a step moves the list, the history and the requests in flight.
ListMover ==
  \/ \E m \in Msgs : Emit(m)
  \/ \E s \in {"first", "second"} : MergePage(s)
  \/ PrependPage \/ Deliver

LEMMA ListMoves ==
  ASSUME [Next]_vars
  PROVE  /\ list' = list \/ ListMover
         /\ \/ missed \subseteq missed' \/ PrependPage \/ Deliver
            \/ \E s \in {"first", "second"} : MergePage(s)
<1>1. ASSUME \/ \E m \in Msgs :
                  \/ Stored(m) \/ WriteEdit(m) \/ WriteDelete(m)
                  \/ \E op \in {"edit", "delete"} : Check(op, m)
                  \/ AnnounceNew(m) \/ Answered(m)
                  \/ AnnounceChange("edit", "updated", m)
                  \/ AnnounceChange("delete", "deleted", m)
             \/ HandleJoin \/ HandleLeave
             \/ \E s \in {"first", "second"} : Open(s)
             \/ Close \/ Drop \/ Reconnects \/ LoadMore
             \/ \E s \in Slots : ReadPage(s) \/ LoadFails(s)
             \/ UNCHANGED vars
      PROVE  list' = list
  BY <1>1, StoredRow DEF WriteEdit, WriteDelete, Check, AnnounceNew, AnnounceChange, Answered,
     Answer, AnswerAgain, HandleJoin, HandleLeave, Open, Close, Drop, Reconnects, Connect, LoadMore,
     ReadPage, LoadFails, vars
<1>2. ASSUME \/ \E m \in Msgs :
                  \/ Stored(m) \/ WriteEdit(m) \/ WriteDelete(m) \/ Emit(m)
                  \/ \E op \in {"edit", "delete"} : Check(op, m)
                  \/ Answered(m)
             \/ HandleJoin \/ HandleLeave
             \/ \E s \in {"first", "second"} : Open(s)
             \/ Close \/ Reconnects \/ LoadMore
             \/ \E s \in Slots : ReadPage(s) \/ LoadFails(s)
             \/ UNCHANGED vars
      PROVE  missed \subseteq missed'
  BY <1>2, StoredRow DEF WriteEdit, WriteDelete, Emit, Check, Answered, Answer, AnswerAgain,
     HandleJoin, HandleLeave, Open, Close, Reconnects, Connect, LoadMore, ReadPage, LoadFails, vars
<1>3. ASSUME \/ \E m \in Msgs : \/ AnnounceNew(m) \/ AnnounceChange("edit", "updated", m)
                                \/ AnnounceChange("delete", "deleted", m)
             \/ Drop
      PROVE  missed \subseteq missed'
  BY <1>3 DEF AnnounceNew, AnnounceChange, Drop
<1> QED
  BY <1>1, <1>2, <1>3 DEF Next, ListMover, Stored, Answered, Reconnects

\* What a step makes of the request s.
RequestMoves(s) ==
  \/ ReadPage(s)
  \/ load'[s].at # "read" /\ load'[s].items \in {<<>>, load[s].items}
  \/ /\ load'[s].at = load[s].at /\ load'[s].items = load[s].items
     /\ load[s].since \subseteq load'[s].since

LEMMA RequestsMove == ASSUME ListInv, [Next]_vars, NEW s \in Slots PROVE RequestMoves(s)
<1>t. load \in [Slots -> Requests]
  BY Typed
<1>o. ASSUME NEW t \in Slots, NEW r, load' = [load EXCEPT ![t] = r],
             r.at # "read", r.items = <<>>
      PROVE  RequestMoves(s)
  BY <1>t, <1>o DEF RequestMoves
<1>i. Idle.at = "idle" /\ Idle.items = <<>>
  BY DEF Idle
<1>1. ASSUME NEW t \in {"first", "second"}, Load(t) PROVE RequestMoves(s)
  <2>1. load' = [load EXCEPT ![t] = [Idle EXCEPT !.at = "asked"]] /\ t \in Slots
    BY <1>1 DEF Load, Slots
  <2>2. /\ [Idle EXCEPT !.at = "asked"].at = "asked"
        /\ [Idle EXCEPT !.at = "asked"].items = <<>>
    BY DEF Idle
  <2> QED
    BY <1>o, <2>1, <2>2
<1>2. ASSUME LoadMore PROVE RequestMoves(s)
  <2>1. load' = [load EXCEPT !["more"] = [Idle EXCEPT !.at = "asked", !.from = cursor]]
        /\ "more" \in Slots
    BY <1>2 DEF LoadMore, Slots
  <2>2. /\ [Idle EXCEPT !.at = "asked", !.from = cursor].at = "asked"
        /\ [Idle EXCEPT !.at = "asked", !.from = cursor].items = <<>>
    BY DEF Idle
  <2> QED
    BY <1>o, <2>1, <2>2
<1>3. ASSUME \/ \E t \in {"first", "second"} : MergePage(t)
             \/ PrependPage \/ \E t \in Slots : LoadFails(t)
      PROVE  RequestMoves(s)
  <2>1. \E t \in Slots : load' = [load EXCEPT ![t] = Idle]
    BY <1>3 DEF MergePage, PrependPage, LoadFails, Slots
  <2> QED
    BY <1>o, <1>i, <2>1
<1>4. ASSUME NEW more,
             load' = [t \in Slots |-> IF load[t].at = "read"
                        THEN [load[t] EXCEPT !.since = @ \cup more] ELSE load[t]]
      PROVE  RequestMoves(s)
  <2>1. load'[s] = load[s] \/ load'[s] = [load[s] EXCEPT !.since = @ \cup more]
    BY <1>4
  <2>2. load[s] \in Requests
    BY <1>t
  <2> QED
    BY <2>1, <2>2 DEF RequestMoves, Requests
<1>5. ASSUME load' = load PROVE RequestMoves(s)
  BY <1>5 DEF RequestMoves
<1>6. ASSUME NEW m, load' = Noted(m) PROVE RequestMoves(s)
  BY <1>4, <1>6 DEF Noted
<1>7. ASSUME Drop PROVE RequestMoves(s)
  <2> DEFINE lost == {chan[i].msg : i \in {j \in 1..Len(chan) : Change(chan[j])}}
  <2>1. load' = [t \in Slots |-> IF load[t].at = "read"
                    THEN [load[t] EXCEPT !.since = @ \cup lost] ELSE load[t]]
    BY <1>7 DEF Drop
  <2> HIDE DEF lost
  <2> QED
    BY <1>4, <2>1
<1>8. ASSUME \/ Deliver
             \/ \E m \in Msgs : \/ AnnounceChange("edit", "updated", m)
                                \/ AnnounceChange("delete", "deleted", m)
      PROVE  load' = load \/ \E m : load' = Noted(m)
  BY <1>8 DEF Deliver, AnnounceChange
<1>9. ASSUME Reconnects \/ \E t \in {"first", "second"} : Open(t) PROVE RequestMoves(s)
  <2>1. load' = load \/ \E t \in {"first", "second"} : Load(t)
    BY <1>9 DEF Reconnects, Connect, FreeSlots, Open
  <2> QED
    BY <1>1, <1>5, <2>1
<1>10. ASSUME NEW t \in Slots, ReadPage(t) PROVE RequestMoves(s)
  <2>1. CASE t = s
    BY <1>10, <2>1 DEF RequestMoves
  <2>2. CASE t # s
    <3>1. load'[s] = load[s]
      BY <1>t, <1>10, <2>2, Zenon DEF ReadPage
    <3> QED
      BY <3>1 DEF RequestMoves
  <2> QED
    BY <2>1, <2>2
<1>11. ASSUME \/ \E m \in Msgs :
                   \/ Stored(m) \/ WriteEdit(m) \/ WriteDelete(m)
                   \/ \E op \in {"edit", "delete"} : Check(op, m)
                   \/ AnnounceNew(m) \/ Emit(m) \/ Answered(m)
              \/ HandleJoin \/ HandleLeave \/ Close \/ UNCHANGED vars
       PROVE  load' = load
  BY <1>11, StoredRow DEF WriteEdit, WriteDelete, Check, AnnounceNew, Emit, Answered, Answer,
     AnswerAgain, HandleJoin, HandleLeave, Close, vars
<1> QED
  BY <1>2, <1>3, <1>5, <1>6, <1>7, <1>8, <1>9, <1>10, <1>11 DEF Next, Stored, Answered, Reconnects

\* What a request reads: live rows as they are.
LEMMA ReadItems ==
  ASSUME ListInv, NEW s \in Slots, ReadPage(s)
  PROVE  /\ UNCHANGED <<row, ver, call, chan>>
         /\ \A c \in In(load'[s].items) :
              c.msg \in Msgs /\ row[c.msg] = "live" /\ c.ver = ver[c.msg]
<1> DEFINE matching == Matching(load[s].from)
           items == Newest(matching)
<1>1. matching \subseteq Live
  BY DEF Matching
<1> HIDE DEF matching
<1>2. items \subseteq Live /\ items \in SUBSET Msgs
  BY <1>1 DEF Newest, Live
<1>3. load'[s].items = Copied(items)
  <2>1. \E next : load' = [load EXCEPT
          ![s].at = "read", ![s].items = Copied(items), ![s].next = next]
    BY Zenon DEF ReadPage, matching
  <2>2. load[s] \in Requests /\ load \in [Slots -> Requests]
    BY Typed
  <2> HIDE DEF items
  <2> QED
    BY <2>1, <2>2 DEF Requests
<1> HIDE DEF items
<1>4. \A c \in In(Copied(items)) : c.msg \in items /\ c.ver = ver[c.msg]
  BY <1>2, CopiedIn, Typed
<1>5. UNCHANGED <<row, ver, call, chan>>
  BY DEF ReadPage, server
<1> QED
  BY <1>2, <1>3, <1>4, <1>5 DEF Live

LEMMA ItemsKnownStep == ASSUME ListInv, ItemsKnown, [Next]_vars PROVE ItemsKnown'
<1> SUFFICES ASSUME NEW s \in Slots, NEW c \in In(load'[s].items)
             PROVE  row'[c.msg] # "none"
  BY DEF ItemsKnown
<1>1. CASE ReadPage(s)
  <2>1. row' = row /\ row[c.msg] = "live"
    BY <1>1, ReadItems
  <2> QED
    BY <2>1
<1>2. CASE load'[s].items = <<>>
  BY <1>2, OneElement
<1>3. CASE load'[s].items = load[s].items
  <2>1. c \in Copies /\ row[c.msg] # "none"
    BY <1>3, Typed DEF ItemsKnown
  <2> QED
    BY <2>1, RowsStay DEF Copies
<1> QED
  BY <1>1, <1>2, <1>3, RequestsMove DEF RequestMoves

\* Where the entries of the next list come from.
Untouched(x) == x.msg \notin missed' =>
  /\ x.msg \notin missed
  /\ ~(x.real /\ (Heard("updated", x.msg) \/ Heard("deleted", x.msg)))
  /\ ~(~x.real /\ (Heard("new", x.msg) \/ Heard("ack", x.msg)))
EntryComes(x) ==
  \/ x \in In(list) /\ Untouched(x)
  \/ \E m \in Msgs : Emit(m) /\ row[m] = "none" /\ x.msg = m /\ ~x.real
  \/ \E s \in Slots : \E c \in In(load[s].items) :
       /\ load[s].at = "read" /\ chan' = chan
       /\ x.real /\ x.msg = c.msg /\ x.ver = c.ver
       /\ c.msg \notin missed' => c.msg \notin load[s].since
  \/ /\ Deliver /\ Head(chan).kind \in {"new", "ack"}
     /\ x.real /\ x.msg = Head(chan).msg /\ x.ver = Head(chan).ver
     /\ x.msg \notin missed' => ~Overtaken(Head(chan))
  \/ /\ Deliver /\ Head(chan).kind = "updated"
     /\ x.real /\ x.msg = Head(chan).msg /\ x.ver = Head(chan).ver
     /\ \E y \in In(list) : y.msg = x.msg /\ y.real

LEMMA NothingHeard ==
  ASSUME ListInv, chan' = chan
  PROVE  ~Deliver /\ \A kind, m : ~Heard(kind, m)
<1>1. ASSUME Deliver PROVE FALSE
  <2>1. chan # <<>> /\ Tail(chan) = chan /\ chan \in Seq(Events)
    BY <1>1, Typed DEF Deliver
  <2>2. Len(Tail(chan)) = Len(chan) - 1 /\ Len(chan) \in Nat
    BY <2>1, HeadTailProperties, LenProperties
  <2> QED
    BY <2>1, <2>2
<1> QED
  BY <1>1 DEF Heard

LEMMA EmitEntries ==
  ASSUME ListInv, NEW m \in Msgs, Emit(m), NEW x \in In(list')
  PROVE  EntryComes(x)
<1> DEFINE e == [msg |-> m, real |-> FALSE, ver |-> 0]
<1>1. list' = list \/ (m \notin Keys(list) /\ row[m] = "none" /\ list' = Reconciled(list, e))
  BY DEF Emit, Reconciled
<1>2. e \in Entries /\ e.msg = m /\ e.real = FALSE
  BY DEF Entries
<1> HIDE DEF e
<1>3. list \in Seq(Entries)
  BY Typed
<1>4. (x = e /\ row[m] = "none") \/ x \in In(list)
  BY <1>1, <1>2, <1>3, ReconciledIn
<1>5. missed' = missed /\ chan' = chan
  BY DEF Emit
<1>6. Untouched(x)
  BY <1>5, NothingHeard DEF Untouched
<1> QED
  BY <1>2, <1>4, <1>6 DEF EntryComes

\* An entry a request brings in.
LEMMA RequestEntries ==
  ASSUME ListInv, NEW s \in Slots, load[s].at = "read", chan' = chan,
         NEW x \in In(Confirmed(load[s].items)),
         x.msg \notin missed' => x.msg \notin load[s].since
  PROVE  EntryComes(x)
<1>1. load[s].items \in Seq(Copies)
  BY Typed
<1>2. x.real /\ \E c \in In(load[s].items) : x.msg = c.msg /\ x.ver = c.ver
  BY <1>1, ConfirmedIn
<1> QED
  BY <1>2 DEF EntryComes

\* The messages of a list are those of its elements.
LEMMA KeysIn ==
  /\ \A l : \A x \in In(l) : x.msg \in Keys(l)
  /\ \A l : \A m \in Keys(l) : \E x \in In(l) : x.msg = m
BY DEF In, Keys

LEMMA MergeEntries ==
  ASSUME ListInv, NEW s \in {"first", "second"}, MergePage(s), NEW x \in In(list')
  PROVE  EntryComes(x)
<1> DEFINE held == Keys(load[s].items)
<1>1. /\ load[s].at = "read" /\ list' = Merged(list, load[s].items)
      /\ missed' = (missed \ held) \cup (held \cap load[s].since)
      /\ chan' = chan /\ s \in Slots
  BY DEF MergePage, Slots
<1>2. list \in Seq(Entries) /\ load[s].items \in Seq(Copies)
  BY <1>1, Typed
<1>3. \/ x \in In(Confirmed(load[s].items))
      \/ x \in In(list) /\ x.msg \notin held
  BY <1>1, <1>2, MergedIn
<1>4. \A y \in In(Confirmed(load[s].items)) : y.msg \in held
  BY <1>2, ConfirmedList, KeysIn
<1> HIDE DEF held
<1>5. ASSUME x \in In(list), x.msg \notin held PROVE Untouched(x)
  BY <1>1, <1>5, NothingHeard DEF Untouched
<1>6. ASSUME x \in In(Confirmed(load[s].items)) PROVE EntryComes(x)
  <2>1. x.msg \notin missed' => x.msg \notin load[s].since
    BY <1>1, <1>4, <1>6
  <2> QED
    BY <1>1, <1>6, <2>1, RequestEntries
<1> QED
  BY <1>3, <1>5, <1>6 DEF EntryComes

LEMMA PrependEntries ==
  ASSUME ListInv, PrependPage, NEW x \in In(list')
  PROVE  EntryComes(x)
<1> DEFINE items == load["more"].items
           fresh == Keys(items) \ Keys(list)
<1>1. /\ load["more"].at = "read" /\ list' = Prepended(list, items)
      /\ missed' = (missed \ fresh) \cup (fresh \cap load["more"].since)
      /\ chan' = chan /\ "more" \in Slots
  BY DEF PrependPage, Slots
<1>2. list \in Seq(Entries) /\ items \in Seq(Copies)
  BY <1>1, Typed
<1>3. \/ x \in In(list)
      \/ x \in In(Confirmed(items)) /\ x.msg \notin Keys(list)
  BY <1>1, <1>2, PrependedIn
<1>4. \A y \in In(Confirmed(items)) : y.msg \in Keys(items)
  BY <1>2, ConfirmedList, KeysIn
<1>5. ASSUME x \in In(list) PROVE Untouched(x)
  <2>1. x.msg \notin fresh
    BY <1>5, KeysIn
  <2> HIDE DEF fresh
  <2> QED
    BY <1>1, <2>1, NothingHeard DEF Untouched
<1>6. ASSUME x \in In(Confirmed(items)), x.msg \notin Keys(list) PROVE EntryComes(x)
  <2>1. x.msg \in fresh
    BY <1>4, <1>6
  <2> HIDE DEF fresh
  <2>2. x.msg \notin missed' => x.msg \notin load["more"].since
    BY <1>1, <2>1
  <2> QED
    BY <1>1, <1>6, <2>2, RequestEntries
<1> QED
  BY <1>3, <1>5, <1>6 DEF EntryComes

LEMMA DeliverEntries ==
  ASSUME ListInv, Deliver, NEW x \in In(list')
  PROVE  EntryComes(x)
<1> DEFINE e == Head(chan)
           heard == mounted \/ e.kind = "ack"
           shown == [msg |-> e.msg, real |-> TRUE, ver |-> e.ver]
<1>1. /\ list' = IF heard THEN Applied(e) ELSE list
      /\ missed' = IF ~heard \/ Overtaken(e) THEN missed \cup {e.msg}
                   ELSE IF Change(e) THEN missed ELSE missed \ {e.msg}
  BY DEF Deliver
<1>2. e \in Events /\ list \in Seq(Entries)
  BY DeliverEvents, Typed
<1>h. \A kind, m : Heard(kind, m) => e.kind = kind /\ e.msg = m
  BY DEF Heard
<1> HIDE DEF e
<1>3. e.msg \in Msgs /\ e.ver \in 0..1 /\ e.kind \in Kinds /\ shown \in Entries
  BY <1>2 DEF Events, Entries
<1>4. shown.msg = e.msg /\ shown.ver = e.ver /\ shown.real = TRUE
  OBVIOUS
<1>5. /\ missed \ {e.msg} \subseteq missed' /\ (heard \/ e.msg \in missed')
      /\ e.kind \in {"updated", "deleted"} => missed \subseteq missed'
  BY <1>1 DEF Change
<1>6. ASSUME x.msg # e.msg PROVE Untouched(x)
  BY <1>5, <1>6, <1>h DEF Untouched
<1>7. CASE ~heard
  <2>1. x \in In(list)
    BY <1>1, <1>7
  <2>2. CASE x.msg = e.msg
    BY <1>5, <1>7, <2>1, <2>2 DEF EntryComes, Untouched
  <2> QED
    BY <1>6, <2>1, <2>2 DEF EntryComes
<1>8. CASE heard /\ e.kind \in {"new", "ack"}
  <2>1. list' = Reconciled(list, shown)
    BY <1>1, <1>8 DEF Applied
  <2>2. ~Overtaken(e) \/ e.msg \in missed'
    BY <1>1
  <2> HIDE DEF shown, heard
  <2>3. x = shown \/ (x \in In(list) /\ x.msg # e.msg)
    BY <1>2, <1>3, <1>4, <2>1, ReconciledIn
  <2>4. CASE x = shown
    BY <1>4, <1>8, <2>2, <2>4 DEF EntryComes, e
  <2> QED
    BY <1>6, <2>3, <2>4 DEF EntryComes
<1>9. CASE heard /\ e.kind = "updated"
  <2>1. list' = Updated(list, e.msg, e.ver)
    BY <1>1, <1>9 DEF Applied
  <2> HIDE DEF shown, heard
  <2>2. PICK y \in In(list) :
          /\ x.msg = y.msg /\ x.real = y.real
          /\ IF y.msg = e.msg /\ y.real THEN x.ver = e.ver ELSE x = y
    BY <1>2, <1>3, <2>1, ChangedIn
  <2>3. CASE y.msg = e.msg /\ y.real
    BY <1>9, <2>2, <2>3 DEF EntryComes, e
  <2>4. CASE x = y /\ y.msg # e.msg
    BY <1>6, <2>4 DEF EntryComes
  <2>5. CASE x = y /\ ~y.real
    <3>1. Untouched(x)
      BY <1>5, <1>9, <1>h, <2>5 DEF Untouched
    <3> QED
      BY <2>5, <3>1 DEF EntryComes
  <2> QED
    BY <2>2, <2>3, <2>4, <2>5
<1>10. CASE heard /\ e.kind = "deleted"
  <2>1. list' = Removed(list, e.msg)
    BY <1>1, <1>10 DEF Applied
  <2> HIDE DEF shown, heard
  <2>2. x \in In(list) /\ ~(x.msg = e.msg /\ x.real)
    BY <1>2, <1>3, <2>1, ChangedIn
  <2>3. Untouched(x)
    BY <1>5, <1>6, <1>10, <1>h, <2>2 DEF Untouched
  <2> QED
    BY <2>2, <2>3 DEF EntryComes
<1> QED
  BY <1>3, <1>7, <1>8, <1>9, <1>10 DEF Kinds

LEMMA EntriesCome ==
  ASSUME ListInv, [Next]_vars, NEW x \in In(list') PROVE EntryComes(x)
<1>1. CASE ListMover
  BY <1>1, EmitEntries, MergeEntries, PrependEntries, DeliverEntries DEF ListMover
<1>2. CASE ~ListMover
  <2>1. list' = list /\ missed \subseteq missed' /\ ~Deliver
    BY <1>2, ListMoves DEF ListMover
  <2>2. Untouched(x)
    BY <2>1 DEF Untouched, Heard
  <2> QED
    BY <2>1, <2>2 DEF EntryComes
<1> QED
  BY <1>1, <1>2

LEMMA EntriesKnownStep == ASSUME ListInv, SettleInv, [Next]_vars PROVE EntriesKnown'
<1> SUFFICES ASSUME NEW x \in In(list'), x.real PROVE row'[x.msg] # "none"
  BY DEF EntriesKnown
<1>k. EntriesKnown /\ ItemsKnown /\ EventsKnown
  BY DEF SettleInv
<1>1. ASSUME NEW m \in Msgs, row[m] # "none" PROVE row'[m] # "none"
  BY <1>1, RowsStay
<1>2. CASE x \in In(list)
  BY <1>k, <1>1, <1>2, Typed DEF EntriesKnown, Entries
<1>4. ASSUME NEW s \in Slots, NEW c \in In(load[s].items), x.msg = c.msg
      PROVE  row'[x.msg] # "none"
  BY <1>k, <1>1, <1>4, Typed DEF ItemsKnown, Copies
<1>5. ASSUME Deliver, x.msg = Head(chan).msg PROVE row'[x.msg] # "none"
  <2>1. Head(chan) \in In(chan) /\ Head(chan) \in Events
    BY <1>5, DeliverEvents
  <2> QED
    BY <1>k, <1>1, <1>5, <2>1 DEF EventsKnown, Known, Events
<1> QED
  BY <1>2, <1>4, <1>5, EntriesCome DEF EntryComes

\* What is applied is current, or the change that makes it stale is behind it.
LEMMA AppliedIsCurrent ==
  ASSUME ListInv, CallsFit, EventsKnown, Deliver, NEW e, e = Head(chan),
         e.kind \in {"new", "ack"}, ~Overtaken(e)
  PROVE  Current(e.msg, e.ver)'
<1> DEFINE m == e.msg
<1>1. e \in Events /\ e \in In(chan) /\ \A i \in 2..Len(chan) : chan[i] \in In(chan')
  BY DeliverEvents
<1>2. UNCHANGED <<row, ver, call>>
  BY DEF Deliver, server
<1>3. \A op, kind :
        <<op, kind>> \in {<<"edit", "updated">>, <<"delete", "deleted">>}
          /\ call[<<op, e.msg>>] = "announced"
        => \E i \in 2..Len(chan) : chan[i].msg = e.msg /\ chan[i].kind = kind
  <2> SUFFICES ASSUME NEW op, NEW kind,
                      <<op, kind>> \in {<<"edit", "updated">>, <<"delete", "deleted">>},
                      call[<<op, e.msg>>] = "announced"
               PROVE  \E i \in 2..Len(chan) : chan[i].msg = e.msg /\ chan[i].kind = kind
    OBVIOUS
  <2> DEFINE change == <<op, kind>>
  <2>1. change[1] = op /\ change[2] = kind
    OBVIOUS
  <2> HIDE DEF change
  <2> QED
    BY <2>1 DEF Overtaken, change
<1>4. m \in Msgs /\ e.ver \in 0..1 /\ Known(e) /\ CallFits(m)
  BY <1>1 DEF EventsKnown, CallsFit, Events
<1>t. ver[m] \in 0..1
  BY <1>4, Typed
<1>5. e.ver # ver[m] => Under("edit", m)' \/ Behind("updated", m)'
  <2>1. e.ver # ver[m] => ver[m] = 1
    BY <1>4, <1>t DEF Known
  <2>2. ver[m] = 1 => call[<<"edit", m>>] \in {"written", "announced"}
    BY <1>4 DEF CallFits, Begun
  <2>3. call[<<"edit", m>>] = "announced" => Behind("updated", m)'
    BY <1>1, <1>3 DEF Behind
  <2> QED
    BY <1>2, <2>1, <2>2, <2>3 DEF Under
<1>6. row[m] = "deleted" => Under("delete", m)' \/ Behind("deleted", m)'
  <2>1. row[m] = "deleted" => call[<<"delete", m>>] \in {"written", "announced"}
    BY <1>4 DEF CallFits, Begun
  <2>2. call[<<"delete", m>>] = "announced" => Behind("deleted", m)'
    BY <1>1, <1>3 DEF Behind
  <2> QED
    BY <1>2, <2>1, <2>2 DEF Under
<1>7. (e.ver # ver'[m] => Under("edit", m)' \/ Behind("updated", m)')
      /\ (row'[m] = "deleted" => Under("delete", m)' \/ Behind("deleted", m)')
  BY <1>2, <1>5, <1>6
<1> QED
  BY <1>7 DEF Current

\* So is what an edit leaves: a deletion is still behind it.
LEMMA UpdatedIsCurrent ==
  ASSUME ListInv, EventsKnown, Deliver, NEW e, e = Head(chan), e.kind = "updated",
         NEW v, Current(e.msg, v)
  PROVE  Current(e.msg, e.ver)'
<1> DEFINE m == e.msg
<1>1. e \in Events /\ e \in In(chan) /\ In(chan) = {e} \cup In(chan')
  BY DeliverEvents
<1>2. UNCHANGED <<row, ver, call>>
  BY DEF Deliver, server
<1>3. row[m] = "deleted" => Under("delete", m) \/ Behind("deleted", m)
  BY DEF Current
<1>4. e.ver = 1 /\ ver[m] = 1
  BY <1>1 DEF EventsKnown, Known
<1>5. Behind("deleted", m) => Behind("deleted", m)'
  BY <1>1 DEF Behind
<1>6. e.ver = ver'[m]
      /\ (row'[m] = "deleted" => Under("delete", m)' \/ Behind("deleted", m)')
  BY <1>2, <1>3, <1>4, <1>5 DEF Under
<1> QED
  BY <1>6 DEF Current

LEMMA EntriesSettleStep == ASSUME ListInv, SettleInv, [Next]_vars PROVE EntriesSettle'
<1> DEFINE Settled(x) ==
      IF x.real THEN Current(x.msg, x.ver)' ELSE row'[x.msg] = "none" \/ Coming(x.msg)'
<1> SUFFICES ASSUME NEW x \in In(list'), x.msg \notin missed' PROVE Settled(x)
  BY DEF EntriesSettle
<1>k. CallsFit /\ EventsKnown /\ EntriesSettle /\ ItemsSettle
  BY DEF SettleInv
<1>l. \A m : Lost(m) => m \in missed'
  BY DEF Lost
<1>s. ASSUME NEW m \in Msgs, row[m] = "none" PROVE row'[m] = "none" \/ Coming(m)'
  <2>1. ASSUME Stored(m) PROVE Coming(m)'
    <3>1. call'[<<"send", m>>] = "written"
      BY <2>1, StoredRow, Typed DEF Ops
    <3> QED
      BY <3>1 DEF Coming, Under
  <2>2. ASSUME WriteDelete(m) PROVE FALSE
    <3>1. call[<<"delete", m>>] = "checked"
      BY <2>2 DEF WriteDelete
    <3> QED
      BY <1>k, <1>s, <3>1 DEF CallsFit, CallFits
  <2> QED
    BY <1>s, <2>1, <2>2, RowMoves
<1>1. ASSUME x \in In(list), Untouched(x) PROVE Settled(x)
  <2>1. /\ x.msg \in Msgs /\ x.msg \notin missed
        /\ ~(x.real /\ (Heard("updated", x.msg) \/ Heard("deleted", x.msg)))
        /\ ~(~x.real /\ (Heard("new", x.msg) \/ Heard("ack", x.msg)))
    BY <1>1, Typed DEF Untouched, Entries
  <2>2. IF x.real THEN Current(x.msg, x.ver) ELSE row[x.msg] = "none" \/ Coming(x.msg)
    BY <1>k, <1>1, <2>1 DEF EntriesSettle
  <2>3. CASE x.real
    <3>1. Current(x.msg, x.ver)'
      BY <1>l, <2>1, <2>2, <2>3, CurrentStays
    <3> QED
      BY <2>3, <3>1
  <2>4. CASE ~x.real
    <3>1. row'[x.msg] = "none" \/ Coming(x.msg)'
      BY <1>s, <2>1, <2>2, <2>4, ComingStays
    <3> QED
      BY <2>4, <3>1
  <2> QED
    BY <2>3, <2>4
<1>2. ASSUME NEW m \in Msgs, row[m] = "none", x.msg = m, ~x.real PROVE Settled(x)
  BY <1>2, <1>s
<1>3. ASSUME NEW s \in Slots, NEW c \in In(load[s].items), load[s].at = "read", chan' = chan,
             x.msg = c.msg, x.ver = c.ver, c.msg \notin missed' => c.msg \notin load[s].since
      PROVE  Current(x.msg, x.ver)'
  <2>1. x.msg \in Msgs /\ Current(x.msg, x.ver)
    BY <1>k, <1>3, Typed DEF ItemsSettle, Copies
  <2>2. ~Heard("updated", x.msg) /\ ~Heard("deleted", x.msg)
    BY <1>3, NothingHeard
  <2> QED
    BY <1>l, <2>1, <2>2, CurrentStays
<1>4. ASSUME Deliver, NEW e, e = Head(chan), e.kind \in {"new", "ack"}, ~Overtaken(e),
             x.msg = e.msg, x.ver = e.ver
      PROVE  Current(x.msg, x.ver)'
  <2>1. Current(e.msg, e.ver)'
    BY <1>k, <1>4, AppliedIsCurrent
  <2> QED
    BY <1>4, <2>1
<1>5. ASSUME Deliver, NEW e, e = Head(chan), e.kind = "updated", x.msg = e.msg,
             x.ver = e.ver, NEW y \in In(list), y.msg = x.msg, y.real
      PROVE  Current(x.msg, x.ver)'
  <2>1. y.msg \notin missed
    BY <1>5 DEF Deliver, Change
  <2>2. Current(e.msg, y.ver)
    BY <1>k, <1>5, <2>1 DEF EntriesSettle
  <2>3. Current(e.msg, e.ver)'
    BY <1>k, <1>5, <2>2, UpdatedIsCurrent
  <2> QED
    BY <1>5, <2>3
<1> HIDE DEF Settled
<1>6. ASSUME x.real, Current(x.msg, x.ver)' PROVE Settled(x)
  BY <1>6 DEF Settled
<1> QED
  BY <1>1, <1>2, <1>3, <1>4, <1>5, <1>6, EntriesCome DEF EntryComes

LEMMA ItemsSettleStep == ASSUME ListInv, SettleInv, [Next]_vars PROVE ItemsSettle'
<1> SUFFICES ASSUME NEW s \in Slots, load'[s].at = "read", NEW c \in In(load'[s].items),
                    c.msg \notin load'[s].since
             PROVE  Current(c.msg, c.ver)'
  BY DEF ItemsSettle
<1>1. CASE ReadPage(s)
  <2>1. row'[c.msg] = "live" /\ c.ver = ver'[c.msg]
    BY <1>1, ReadItems
  <2> QED
    BY <2>1 DEF Current
<1>2. CASE /\ load'[s].at = load[s].at /\ load'[s].items = load[s].items
           /\ load[s].since \subseteq load'[s].since
  <2>1. c.msg \in Msgs /\ Current(c.msg, c.ver)
    <3>1. c \in In(load[s].items) /\ load[s].at = "read" /\ c.msg \notin load[s].since
      BY <1>2
    <3>2. c \in Copies
      BY <3>1, Typed
    <3> QED
      BY <3>1, <3>2 DEF SettleInv, ItemsSettle, Copies
  <2>2. ~Lost(c.msg)
    BY <1>2 DEF Lost
  <2>3. ASSUME NEW kind \in {"updated", "deleted"}, Heard(kind, c.msg) PROVE FALSE
    <3>1. load' = Noted(c.msg)
      BY <2>3 DEF Heard, Deliver, Change
    <3> QED
      BY <1>2, <2>1, <3>1, NotedLost
  <2> QED
    BY <2>1, <2>2, <2>3, CurrentStays
<1> QED
  BY <1>1, <1>2, RequestsMove DEF RequestMoves

LEMMA PrependedKeys ==
  ASSUME NEW l \in Seq(Entries), NEW items \in Seq(Copies)
  PROVE  Keys(items) \subseteq Keys(Prepended(l, items))
<1> DEFINE c == Confirmed(items)
           places == Without(items, Keys(l))
           r == Kept(c, places)
<1>1. c \in Seq(Entries) /\ Len(c) = Len(items)
      /\ \A i \in 1..Len(items) : c[i].msg = items[i].msg
  BY ConfirmedList
<1>2. /\ places \in SUBSET (1..Len(items))
      /\ \A i \in 1..Len(items) : i \in places \/ items[i].msg \in Keys(l)
  BY DEF Without
<1>3. Prepended(l, items) = r \o l
  BY DEF Prepended
<1> HIDE DEF c, places
<1>4. places \in SUBSET (1..Len(c))
  BY <1>1, <1>2
<1>5. r \in Seq(Entries) /\ \A i \in places : \E k \in 1..Len(r) : r[k] = c[i]
  BY <1>1, <1>4, KeptElements
<1> HIDE DEF r
<1>6. Keys(r) \cup Keys(l) \subseteq Keys(r \o l)
  BY <1>5, JoinedKeys
<1>7. \A i \in 1..Len(items) : items[i].msg \in Keys(r) \cup Keys(l)
  <2> SUFFICES ASSUME NEW i \in 1..Len(items), i \in places
               PROVE  items[i].msg \in Keys(r)
    BY <1>2
  <2>1. PICK k \in 1..Len(r) : r[k] = c[i]
    BY <1>5
  <2> QED
    BY <1>1, <2>1 DEF Keys
<1> QED
  BY <1>3, <1>6, <1>7 DEF Keys

LEMMA RowsSettleStep == ASSUME ListInv, SettleInv, [Next]_vars PROVE RowsSettle'
<1> SUFFICES ASSUME NEW m \in Msgs, m \notin missed', row'[m] = "live", m \notin Keys(list')
             PROVE  Coming(m)'
  BY DEF RowsSettle
<1>1. CASE Stored(m)
  <2>1. call'[<<"send", m>>] = "written"
    BY <1>1, StoredRow, Typed DEF Ops
  <2> QED
    BY <2>1 DEF Coming, Under
<1>2. CASE ~Stored(m)
  <2>1. row[m] = "live"
    <3>1. WriteDelete(m) => row'[m] = "deleted"
      BY Typed DEF WriteDelete
    <3> QED
      BY <1>2, <3>1, RowMoves
  <2>2. m \notin Keys(list)
    BY <2>1, ListStep DEF Gone
  <2>a. ASSUME NEW kind \in {"new", "ack"}, Heard(kind, m) PROVE FALSE
    <3> DEFINE e == Head(chan)
               shown == [msg |-> e.msg, real |-> TRUE, ver |-> e.ver]
    <3>1. Deliver /\ e.kind = kind /\ e.msg = m
      BY <2>a DEF Heard
    <3>2. mounted \/ e.kind = "ack"
      BY <3>1 DEF Deliver
    <3>3. list' = Applied(e)
      BY <3>1, <3>2 DEF Deliver
    <3>4. list' = Reconciled(list, shown)
      BY <3>1, <3>3 DEF Applied
    <3>5. e \in Events
      BY <3>1, DeliverEvents
    <3>6. shown \in Entries /\ shown.msg = e.msg
      BY <3>5 DEF Events, Entries
    <3> HIDE DEF shown
    <3> QED
      BY <3>1, <3>4, <3>6, ReconciledIn, Typed
  <2>3. m \notin missed
    <3>1. ASSUME NEW s \in {"first", "second"}, MergePage(s), m \in missed PROVE FALSE
      <4>1. /\ list' = Merged(list, load[s].items) /\ s \in Slots
            /\ missed' = (missed \ Keys(load[s].items))
                           \cup (Keys(load[s].items) \cap load[s].since)
        BY <3>1 DEF MergePage, Slots
      <4>2. Keys(load[s].items) \subseteq Keys(list')
        BY <4>1, MergedIn, Typed
      <4> QED
        BY <3>1, <4>1, <4>2
    <3>2. ASSUME PrependPage, m \in missed PROVE FALSE
      <4> DEFINE fresh == Keys(load["more"].items) \ Keys(list)
      <4>1. /\ list' = Prepended(list, load["more"].items) /\ "more" \in Slots
            /\ missed' = (missed \ fresh) \cup (fresh \cap load["more"].since)
        BY <3>2 DEF PrependPage, Slots
      <4>2. fresh \subseteq Keys(list')
        BY <4>1, PrependedKeys, Typed
      <4> HIDE DEF fresh
      <4> QED
        BY <3>2, <4>1, <4>2
    <3>3. ASSUME Deliver, m \in missed PROVE FALSE
      <4>1. ~Change(Head(chan)) /\ Head(chan).msg = m
        BY <3>3 DEF Deliver
      <4>2. Heard("new", m) \/ Heard("ack", m)
        BY <3>3, <4>1, DeliverEvents DEF Heard, Change, Events, Kinds
      <4> QED
        BY <2>a, <4>2
    <3> QED
      BY <3>1, <3>2, <3>3, ListMoves
  <2>4. Coming(m)
    BY <2>1, <2>2, <2>3 DEF SettleInv, RowsSettle
  <2> QED
    BY <2>4, <2>a, ComingStays
<1> QED
  BY <1>1, <1>2

LEMMA SettleStep == ListInv /\ SettleInv /\ [Next]_vars => SettleInv'
<1> SUFFICES ASSUME ListInv, SettleInv, [Next]_vars PROVE SettleInv'
  OBVIOUS
<1>1. CallsFit /\ EventsKnown /\ AnswersKnown /\ ItemsKnown
  BY DEF SettleInv
<1> QED
  BY <1>1, CallsStep, EventsKnownStep, AnswersKnownStep, EntriesKnownStep, ItemsKnownStep,
     EntriesSettleStep, RowsSettleStep, ItemsSettleStep DEF SettleInv

\* Whatever the pages, events and answers do to each other, a confirmed entry of
\* the list of which nothing was missed is the row of the database, or its change
\* is being announced or still on the socket; one that is not confirmed has not
\* been stored, or its announcement or the sender's own answer is on its way
\* (chat.gateway.ts:320-324); and a page that was read holds what was true, but
\* for the changes announced since (useMessages.ts:69).
THEOREM ListSettles == PageSpec => []SettleInv
<1>1. PageInit => SettleInv
  BY InitSettles DEF PageInit
<1>2. [PageNext]_<<focus, listVars, pinVars>> => [Next]_vars
  BY PageSteps
<1>3. ListInv /\ SettleInv /\ [Next]_vars => SettleInv'
  BY SettleStep
<1> QED
  BY <1>1, <1>2, <1>3, ListInvariant, PTL DEF PageSpec

\* Once nothing is under way, a list differs from the database only in messages
\* of which an event or the answer was missed: what it shows of a stored message
\* is live and current, what is live is shown, and what was not stored is not
\* shown as sent (useMessages.ts:69, chat.store.ts, chat.gateway.ts:320-324).
THEOREM SettledLists == PageSpec => []SettledListIsCurrent
<1>1. SettleInv /\ ListInv => SettledListIsCurrent
  <2> SUFFICES ASSUME SettleInv, ListInv, Quiet, NEW m \in Msgs \ missed
               PROVE  IF row[m] = "none" THEN ~Real(m)
                      ELSE /\ m \in Keys(list) => row[m] = "live"
                           /\ row[m] = "live" => Shown(m)
    BY DEF SettledListIsCurrent
  <2>1. In(chan) = {} /\ answering = {} /\ \A op \in Ops, n \in Msgs : ~Under(op, n)
    BY OneElement DEF Quiet, Under
  <2>2. /\ ~Coming(m)
        /\ \A v : Current(m, v) => v = ver[m] /\ row[m] # "deleted"
    BY <2>1 DEF Coming, Current, Behind, Ops
  <2>3. ASSUME NEW x \in In(list), x.msg = m, row[m] # "none"
        PROVE  x.real /\ x.ver = ver[m] /\ row[m] = "live"
    <3>1. IF x.real THEN Current(m, x.ver) ELSE Coming(m)
      BY <2>3 DEF SettleInv, EntriesSettle
    <3>2. x.real /\ Current(m, x.ver)
      BY <2>2, <3>1
    <3> QED
      BY <2>2, <2>3, <3>2, Typed
  <2>4. row[m] # "none" /\ m \in Keys(list) => row[m] = "live" /\ Shown(m)
    BY <2>3 DEF Keys, In, Shown
  <2>5. row[m] = "live" => m \in Keys(list)
    BY <2>2 DEF SettleInv, RowsSettle
  <2>6. row[m] = "none" => ~Real(m)
    BY DEF SettleInv, EntriesKnown, In, Real
  <2> QED
    BY <2>4, <2>5, <2>6
<1> QED
  BY <1>1, ListInvariant, ListSettles, PTL
=============================================================================
