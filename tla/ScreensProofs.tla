---------------------------- MODULE ScreensProofs ----------------------------
(***************************************************************************)
(* Proofs about the screens of MCServices: what a page shows at rest is    *)
(* what is stored, for any number of users, tabs, rows and requests.       *)
(*                                                                         *)
(* As in ServicesProofs, each part has an inductive invariant that its own *)
(* steps keep.                                                             *)
(***************************************************************************)
EXTENDS ServicesProofs, TokenRefreshProofs


-----------------------------------------------------------------------------
(* The reactions to a post.                                                *)

Fan == Emojis \cup {Counts!NoEmoji}
Known == [Emojis -> 0 .. Cardinality(Fans)]
UsedTaps == {t \in ReactTaps : fanHandler[t].at # "unused"}
\* What a page shows may be ahead of the stored counts by one for each tap.
Ahead == [Emojis -> 0 .. (Cardinality(Fans) + Cardinality(UsedTaps))]
TapRuns(t, u) ==
  fanHandler[t].at \in {"finding", "writing", "counting", "telling"} /\ fanHandler[t].by = u
FansQuiet == \A t \in ReactTaps : fanHandler[t].at \in {"unused", "done"}

FanFlags ==
  joined \subseteq Fans /\ hasty \subseteq Fans /\ fanMissed \subseteq Fans /\ fanStale \in BOOLEAN
FanRows == reaction \in [Fans -> Fan]
FanHandlers == fanHandler \in [ReactTaps -> [at : Counts!Places, by : Fans, emoji : Fan, counts : Known]]
FanInboxes == fanInbox \in [Fans -> Seq(Known)]
FanPages == fanPage \in [Fans -> [mine : Fan, counts : Ahead]]
FanOpenings ==
  opening \in [Fans -> [at : {"asking", "read", "shown"}, post : [mine : Fan, counts : Known]]]
\* When no handler runs, the last counts on their way to a page are the stored
\* ones; with none on their way, the page or the answer to its request has them.
FanCounts(u) == FansQuiet /\ ~fanStale /\ u \notin fanMissed =>
  IF fanInbox[u] = <<>>
  THEN /\ opening[u].at = "read" => opening[u].post.counts = Counts!Counts(reaction)
       /\ opening[u].at = "shown" => fanPage[u].counts = Counts!Counts(reaction)
  ELSE fanInbox[u][Len(fanInbox[u])] = Counts!Counts(reaction)
\* A user who waits for one tap at a time sees what that tap will have stored.
FanMine(u) ==
  /\ opening[u].at # "shown" => \A t \in ReactTaps : ~TapRuns(t, u)
  /\ opening[u].at = "read" => opening[u].post.mine = reaction[u]
  /\ u \notin hasty => \A s, t \in ReactTaps : TapRuns(s, u) /\ TapRuns(t, u) => s = t
  /\ u \notin hasty /\ opening[u].at = "shown" =>
       /\ \A t \in ReactTaps : TapRuns(t, u) /\ fanHandler[t].at \in {"finding", "writing"} =>
            fanPage[u].mine = fanHandler[t].emoji
       /\ (\A t \in ReactTaps : TapRuns(t, u) => fanHandler[t].at \notin {"finding", "writing"}) =>
            fanPage[u].mine = reaction[u]
FanInv ==
  /\ FanFlags /\ FanRows /\ FanHandlers /\ FanInboxes /\ FanPages /\ FanOpenings
  /\ \A u \in Fans : FanCounts(u) /\ FanMine(u)

LEMMA FanBounds ==
  /\ IsFiniteSet(Fans) /\ Cardinality(Fans) \in Nat /\ Fans # {}
  /\ IsFiniteSet(ReactTaps) /\ Cardinality(ReactTaps) \in Nat
  /\ IsFiniteSet(UsedTaps) /\ Cardinality(UsedTaps) \in Nat
  /\ Cardinality(UsedTaps) <= Cardinality(ReactTaps)
<1>1. IsFiniteSet(Fans) /\ IsFiniteSet(ReactTaps) /\ Fans # {}
  BY ServicesAssumption, Zenon DEF ServicesAssumption
<1>2. UsedTaps \subseteq ReactTaps
  BY DEF UsedTaps
<1> QED
  BY <1>1, <1>2, FS_CardinalityType, FS_Subset

LEMMA FansCounted == \A S : Counts!Cardinality(S) = Cardinality(S)
BY Zenon DEF Cardinality, Counts!Cardinality

LEMMA KnownAreAhead == Known \subseteq Ahead
<1> SUFFICES ASSUME NEW c \in Known PROVE c \in Ahead
  OBVIOUS
<1>1. \A e \in Emojis : c[e] \in 0 .. (Cardinality(Fans) + Cardinality(UsedTaps))
  BY FanBounds DEF Known
<1> QED
  BY <1>1 DEF Known, Ahead

LEMMA CountsAreKnown ==
  ASSUME NEW r \in [Fans -> Fan]
  PROVE  Counts!Counts(r) \in Known
<1>1. ASSUME NEW e \in Emojis
      PROVE  Counts!Cardinality({u \in Fans : r[u] = e}) \in 0 .. Cardinality(Fans)
  <2>1. {u \in Fans : r[u] = e} \subseteq Fans
    OBVIOUS
  <2>2. /\ Cardinality({u \in Fans : r[u] = e}) \in Nat
        /\ Cardinality({u \in Fans : r[u] = e}) <= Cardinality(Fans)
    BY <2>1, FanBounds, FS_Subset, FS_CardinalityType
  <2> QED
    BY <2>2, FanBounds, FansCounted
<1> QED
  BY <1>1 DEF Counts!Counts, Known

LEMMA FanTypes == FanInv => Counts!TypeOK
<1> SUFFICES ASSUME FanInv PROVE Counts!TypeOK
  OBVIOUS
<1>1. Counts!Summaries = [Emojis -> 0 .. (Cardinality(Fans) + Cardinality(ReactTaps))]
  BY FansCounted DEF Counts!Summaries
<1>2. Ahead \subseteq Counts!Summaries
  <2> SUFFICES ASSUME NEW c \in Ahead PROVE c \in Counts!Summaries
    OBVIOUS
  <2>1. \A e \in Emojis : c[e] \in 0 .. (Cardinality(Fans) + Cardinality(ReactTaps))
    BY FanBounds DEF Ahead
  <2> QED
    BY <1>1, <2>1 DEF Ahead
<1>3. Known \subseteq Counts!Summaries
  BY <1>2, KnownAreAhead
<1>4. fanHandler \in [ReactTaps -> Counts!Handlers]
  BY <1>3 DEF FanInv, FanHandlers, Counts!Handlers, Fan
<1>5. fanInbox \in [Fans -> Seq(Counts!Summaries)]
  <2>1. Seq(Known) \subseteq Seq(Counts!Summaries)
    BY <1>3
  <2> QED
    BY <2>1 DEF FanInv, FanInboxes
<1>6. fanPage \in [Fans -> Counts!Posts]
  BY <1>2 DEF FanInv, FanPages, Counts!Posts, Fan
<1>7. opening \in [Fans -> [at : {"asking", "read", "shown"}, post : Counts!Posts]]
  <2>1. [mine : Fan, counts : Known] \subseteq Counts!Posts
    BY <1>3 DEF Counts!Posts, Fan
  <2> QED
    BY <2>1 DEF FanInv, FanOpenings
<1>8. reaction \in [Fans -> Emojis \cup {Counts!NoEmoji}] /\ FanFlags
  BY DEF FanInv, FanRows, Fan
<1> QED
  BY <1>4, <1>5, <1>6, <1>7, <1>8, Zenon DEF FanFlags, Counts!TypeOK

LEMMA InitFans == Counts!Init => FanInv
<1> SUFFICES ASSUME Counts!Init PROVE FanInv
  OBVIOUS
<1> USE FanBounds
<1>n. Counts!NoEmoji \in Fan /\ Counts!NoEmoji = "none"
  BY DEF Fan, Counts!NoEmoji
<1>k. Counts!Nothing \in Known
  BY DEF Known, Counts!Nothing
<1>a. Counts!Nothing \in Ahead
  BY <1>k, KnownAreAhead
<1>1. /\ reaction = [u \in Fans |-> Counts!NoEmoji]
      /\ fanHandler = [t \in ReactTaps |-> [at |-> "unused", by |-> CHOOSE u \in Fans : TRUE,
                                            emoji |-> Counts!NoEmoji, counts |-> Counts!Nothing]]
      /\ fanInbox = [u \in Fans |-> <<>>]
      /\ fanPage = [u \in Fans |-> [mine |-> Counts!NoEmoji, counts |-> Counts!Nothing]]
      /\ opening = [u \in Fans |-> [at |-> "asking", post |->
                      [mine |-> Counts!NoEmoji, counts |-> Counts!Nothing]]]
      /\ joined = {} /\ hasty = {} /\ fanMissed = {} /\ fanStale = FALSE
  BY DEF Counts!Init, Counts!Blank
<1>2. FanFlags /\ FanRows
  BY <1>1, <1>n DEF FanFlags, FanRows
<1>3. PICK w : w = CHOOSE u \in Fans : TRUE
  OBVIOUS
<1>4. w \in Fans
  BY <1>3
<1>5. /\ fanHandler = [t \in ReactTaps |-> [at |-> "unused", by |-> w,
                                            emoji |-> Counts!NoEmoji, counts |-> Counts!Nothing]]
      /\ \A t \in ReactTaps : fanHandler[t].at = "unused"
  BY <1>1, <1>3
<1>6. FanHandlers
  BY <1>4, <1>5, <1>n, <1>k DEF FanHandlers, Counts!Places
<1>7. FanInboxes
  <2>1. <<>> \in Seq(Known)
    OBVIOUS
  <2> QED
    BY <1>1, <2>1 DEF FanInboxes
<1>8. FanPages
  BY <1>1, <1>n, <1>a DEF FanPages
<1>9. FanOpenings
  BY <1>1, <1>n, <1>k DEF FanOpenings
<1>10. ASSUME NEW u \in Fans PROVE FanCounts(u) /\ FanMine(u)
  <2>1. opening[u].at = "asking" /\ fanInbox[u] = <<>>
    BY <1>1
  <2>2. \A t \in ReactTaps : ~TapRuns(t, u)
    BY <1>5 DEF TapRuns
  <2> QED
    BY <2>1, <2>2 DEF FanCounts, FanMine
<1> QED
  BY <1>2, <1>6, <1>7, <1>8, <1>9, <1>10 DEF FanInv

LEMMA NextFans == FanInv /\ [Counts!Next]_fanVars => FanInv'
<1> SUFFICES ASSUME FanInv, [Counts!Next]_fanVars PROVE FanInv'
  OBVIOUS
<1> USE FanBounds
<1>i. /\ FanFlags /\ FanRows /\ FanHandlers /\ FanInboxes /\ FanPages /\ FanOpenings
      /\ \A u \in Fans : FanCounts(u) /\ FanMine(u)
  BY DEF FanInv
<1>t. /\ joined \subseteq Fans /\ hasty \subseteq Fans /\ fanMissed \subseteq Fans
      /\ fanStale \in BOOLEAN /\ reaction \in [Fans -> Fan]
      /\ fanHandler \in [ReactTaps -> [at : Counts!Places, by : Fans, emoji : Fan, counts : Known]]
      /\ fanInbox \in [Fans -> Seq(Known)]
      /\ fanPage \in [Fans -> [mine : Fan, counts : Ahead]]
      /\ opening \in [Fans -> [at : {"asking", "read", "shown"},
                               post : [mine : Fan, counts : Known]]]
  BY <1>i DEF FanFlags, FanRows, FanHandlers, FanInboxes, FanPages, FanOpenings
<1>1. CASE UNCHANGED fanVars
  <2>1. UNCHANGED <<reaction, fanHandler, fanInbox, fanPage, opening, joined, hasty, fanStale,
                    fanMissed>>
    BY <1>1 DEF fanVars
  <2>2. FanFlags' /\ FanRows' /\ FanHandlers' /\ FanInboxes' /\ FanPages' /\ FanOpenings'
    BY <2>1, <1>i DEF FanFlags, FanRows, FanHandlers, FanInboxes, FanPages, FanOpenings, Ahead,
                      UsedTaps
  <2>3. \A u \in Fans : FanCounts(u)' /\ FanMine(u)'
    <3>1. Counts!Counts(reaction)' = Counts!Counts(reaction)
      BY <2>1 DEF Counts!Counts
    <3>2. \A u \in Fans : FanCounts(u)'
      BY <2>1, <3>1, <1>i DEF FanCounts, FansQuiet
    <3>3. \A u \in Fans : FanMine(u)'
      BY <2>1, <1>i DEF FanMine, TapRuns
    <3> QED
      BY <3>2, <3>3
  <2> QED
    BY <2>2, <2>3 DEF FanInv
\* Nothing but the answer of one page changes.
<1>2. ASSUME NEW v \in Fans, Counts!Read(v) PROVE FanInv'
  <2>1. /\ opening[v].at = "asking"
        /\ opening' = [opening EXCEPT ![v] =
             [at |-> "read", post |-> [mine |-> reaction[v], counts |-> Counts!Counts(reaction)]]]
        /\ UNCHANGED <<reaction, fanHandler, fanInbox, fanPage, joined, hasty, fanStale, fanMissed>>
    BY <1>2 DEF Counts!Read
  <2>2. PICK c : c = Counts!Counts(reaction)
    OBVIOUS
  <2>3. c \in Known /\ reaction[v] \in Fan
    BY <1>t, <2>2, CountsAreKnown
  <2>4. /\ opening' \in [Fans -> [at : {"asking", "read", "shown"},
                                  post : [mine : Fan, counts : Known]]]
        /\ opening'[v].at = "read" /\ opening'[v].post.mine = reaction[v]
        /\ opening'[v].post.counts = c
        /\ \A u \in Fans : u # v => opening'[u] = opening[u]
    BY <1>t, <2>1, <2>2, <2>3
  <2>5. FanFlags' /\ FanRows' /\ FanHandlers' /\ FanInboxes' /\ FanPages'
    BY <2>1, <1>i DEF FanFlags, FanRows, FanHandlers, FanInboxes, FanPages, Ahead, UsedTaps
  <2>6. FanOpenings'
    BY <2>4 DEF FanOpenings
  <2>7. ASSUME NEW u \in Fans PROVE FanCounts(u)' /\ FanMine(u)'
    <3>1. FanCounts(u) /\ FanMine(u)
      BY <1>i
    <3>2. Counts!Counts(reaction)' = c
      BY <2>1, <2>2 DEF Counts!Counts
    <3>3. FanCounts(u)'
      BY <2>1, <2>2, <2>4, <3>1, <3>2 DEF FanCounts, FansQuiet
    <3>4. FanMine(u)'
      BY <2>1, <2>4, <3>1 DEF FanMine, TapRuns
    <3> QED
      BY <3>3, <3>4
  <2> QED
    BY <2>5, <2>6, <2>7 DEF FanInv
<1>3. ASSUME NEW v \in Fans, Counts!Show(v) PROVE FanInv'
  <2>1. /\ opening[v].at = "read" /\ fanPage' = [fanPage EXCEPT ![v] = opening[v].post]
        /\ opening' = [opening EXCEPT ![v].at = "shown"]
        /\ UNCHANGED <<reaction, fanHandler, fanInbox, joined, hasty, fanStale, fanMissed>>
    BY <1>3 DEF Counts!Show
  <2>2. /\ opening[v].post \in [mine : Fan, counts : Known]
        /\ opening[v].post \in [mine : Fan, counts : Ahead]
    <3>1. opening[v].post \in [mine : Fan, counts : Known]
      BY <1>t
    <3> QED
      BY <3>1, KnownAreAhead
  <2>3. /\ opening' \in [Fans -> [at : {"asking", "read", "shown"},
                                  post : [mine : Fan, counts : Known]]]
        /\ opening'[v].at = "shown"
        /\ \A u \in Fans : u # v => opening'[u] = opening[u]
    BY <1>t, <2>1
  <2>4. /\ fanPage' \in [Fans -> [mine : Fan, counts : Ahead]] /\ fanPage'[v] = opening[v].post
        /\ \A u \in Fans : u # v => fanPage'[u] = fanPage[u]
    BY <1>t, <2>1, <2>2
  <2>5. FanFlags' /\ FanRows' /\ FanHandlers' /\ FanInboxes'
    BY <2>1, <1>i DEF FanFlags, FanRows, FanHandlers, FanInboxes
  <2>6. FanOpenings'
    BY <2>3 DEF FanOpenings
  <2>7. FanPages'
    BY <2>1, <2>4 DEF FanPages, Ahead, UsedTaps
  <2>8. ASSUME NEW u \in Fans PROVE FanCounts(u)' /\ FanMine(u)'
    <3>1. FanCounts(u) /\ FanMine(u)
      BY <1>i
    <3>2. Counts!Counts(reaction)' = Counts!Counts(reaction)
      BY <2>1 DEF Counts!Counts
    <3>3. FanCounts(u)'
      BY <2>1, <2>3, <2>4, <3>1, <3>2 DEF FanCounts, FansQuiet
    <3>4. FanMine(u)'
      BY <2>1, <2>3, <2>4, <3>1 DEF FanMine, TapRuns
    <3> QED
      BY <3>3, <3>4
  <2> QED
    BY <2>5, <2>6, <2>7, <2>8 DEF FanInv
<1>4. ASSUME NEW v \in Fans, Counts!Join(v) PROVE FanInv'
  <2>1. /\ joined' = joined \cup {v}
        /\ UNCHANGED <<reaction, fanHandler, fanInbox, fanPage, opening, hasty, fanStale, fanMissed>>
    BY <1>4 DEF Counts!Join
  <2>2. FanFlags'
    BY <1>t, <2>1 DEF FanFlags
  <2>3. FanRows' /\ FanHandlers' /\ FanInboxes' /\ FanPages' /\ FanOpenings'
    BY <2>1, <1>i DEF FanRows, FanHandlers, FanInboxes, FanPages, FanOpenings, Ahead, UsedTaps
  <2>4. \A u \in Fans : FanCounts(u)' /\ FanMine(u)'
    <3>1. Counts!Counts(reaction)' = Counts!Counts(reaction)
      BY <2>1 DEF Counts!Counts
    <3> QED
      BY <2>1, <3>1, <1>i DEF FanCounts, FanMine, FansQuiet, TapRuns
  <2> QED
    BY <2>2, <2>3, <2>4 DEF FanInv
<1>5. ASSUME NEW v \in Fans, Counts!Receive(v) PROVE FanInv'
  <2>1. /\ fanInbox[v] # <<>> /\ fanInbox' = [fanInbox EXCEPT ![v] = Tail(fanInbox[v])]
        /\ opening[v].at = "shown" =>
             /\ fanPage' = [fanPage EXCEPT ![v].counts = Head(fanInbox[v])]
             /\ fanMissed' = fanMissed
        /\ opening[v].at # "shown" => fanMissed' = fanMissed \cup {v} /\ fanPage' = fanPage
        /\ UNCHANGED <<reaction, fanHandler, opening, joined, hasty, fanStale>>
    BY <1>5 DEF Counts!Receive
  <2>2. PICK s : s = fanInbox[v]
    OBVIOUS
  <2>3. /\ s \in Seq(Known) /\ s # <<>>
        /\ Len(s) \in Nat /\ Len(s) >= 1 /\ Head(s) = s[1] /\ Head(s) \in Known
        /\ Tail(s) \in Seq(Known) /\ Len(Tail(s)) = Len(s) - 1
        /\ \A i \in 1 .. Len(Tail(s)) : Tail(s)[i] = s[i + 1]
    <3>1. s \in Seq(Known) /\ s # <<>>
      BY <1>t, <2>1, <2>2
    <3> QED
      BY <3>1, OneLess
  <2>4. /\ fanInbox' \in [Fans -> Seq(Known)] /\ fanInbox'[v] = Tail(s)
        /\ \A u \in Fans : u # v => fanInbox'[u] = fanInbox[u]
    BY <1>t, <2>1, <2>2, <2>3
  <2>5. Tail(s) = <<>> => Head(s) = s[Len(s)]
    <3> SUFFICES ASSUME Tail(s) = <<>> PROVE Head(s) = s[Len(s)]
      OBVIOUS
    <3>1. Len(<<>>) = 0
      OBVIOUS
    <3>2. Len(Tail(s)) = 0
      BY <3>1, Zenon
    <3>3. Len(s) = 1
      BY <2>3, <3>2
    <3> QED
      BY <2>3, <3>3
  <2>6. Tail(s) # <<>> => Tail(s)[Len(Tail(s))] = s[Len(s)]
    <3> SUFFICES ASSUME Tail(s) # <<>> PROVE Tail(s)[Len(Tail(s))] = s[Len(s)]
      OBVIOUS
    <3>1. Len(Tail(s)) >= 1 /\ Len(Tail(s)) \in Nat
      BY <2>3, OneLess
    <3>2. Len(Tail(s)) \in 1 .. Len(Tail(s)) /\ Len(Tail(s)) + 1 = Len(s)
      BY <2>3, <3>1
    <3> QED
      BY <2>3, <3>2
  <2>7. Head(s) \in Ahead
    BY <2>3, KnownAreAhead
  <2>8. /\ fanPage' \in [Fans -> [mine : Fan, counts : Ahead]]
        /\ opening[v].at = "shown" => fanPage'[v].counts = Head(s)
        /\ \A u \in Fans : fanPage'[u].mine = fanPage[u].mine
        /\ \A u \in Fans : u # v => fanPage'[u] = fanPage[u]
    <3>1. CASE opening[v].at = "shown"
      <4>1. PICK c \in Ahead : c = Head(s)
        BY <2>7
      <4>2. fanPage' = [fanPage EXCEPT ![v].counts = c]
        BY <2>1, <2>2, <3>1, <4>1
      <4>3. \A u \in Fans : fanPage[u] \in [mine : Fan, counts : Ahead]
        BY <1>t
      <4>4. PICK q : q = [fanPage[v] EXCEPT !.counts = c]
        OBVIOUS
      <4>5. q \in [mine : Fan, counts : Ahead] /\ q.mine = fanPage[v].mine /\ q.counts = c
        BY <2>1, <4>1, <4>3, <4>4
      <4>6. fanPage' = [fanPage EXCEPT ![v] = q]
        BY <4>2, <4>4
      <4>7. \A u \in Fans : fanPage'[u] = IF u = v THEN q ELSE fanPage[u]
        BY <1>t, <4>6
      <4>8. fanPage' \in [Fans -> [mine : Fan, counts : Ahead]]
        BY <1>t, <2>1, <4>5, <4>6
      <4> QED
        BY <2>1, <4>1, <4>5, <4>7, <4>8
    <3>2. CASE opening[v].at # "shown"
      BY <1>t, <2>1, <3>2
    <3> QED
      BY <3>1, <3>2
  <2>9. fanMissed' \in SUBSET Fans /\ fanMissed \subseteq fanMissed'
        /\ (opening[v].at # "shown" => v \in fanMissed')
    BY <1>t, <2>1
  <2>10. FanFlags'
    BY <1>t, <2>1, <2>9 DEF FanFlags
  <2>11. FanRows' /\ FanHandlers' /\ FanOpenings'
    BY <2>1, <1>i DEF FanRows, FanHandlers, FanOpenings
  <2>12. FanInboxes'
    BY <2>4 DEF FanInboxes
  <2>13. FanPages'
    BY <2>1, <2>8 DEF FanPages, Ahead, UsedTaps
  <2>14. ASSUME NEW u \in Fans PROVE FanCounts(u)' /\ FanMine(u)'
    <3>1. FanCounts(u) /\ FanMine(u)
      BY <1>i
    <3>2. Counts!Counts(reaction)' = Counts!Counts(reaction)
      BY <2>1 DEF Counts!Counts
    <3>3. FanCounts(u)'
      <4>1. CASE u # v
        BY <2>1, <2>4, <2>8, <2>9, <3>1, <3>2, <4>1 DEF FanCounts, FansQuiet
      <4>2. CASE u = v
        <5> SUFFICES ASSUME FansQuiet', ~fanStale', v \notin fanMissed'
                     PROVE  IF Tail(s) = <<>>
                            THEN /\ opening[v].at = "read" => opening[v].post.counts = Counts!Counts(reaction)
                                 /\ opening[v].at = "shown" => fanPage'[v].counts = Counts!Counts(reaction)
                            ELSE Tail(s)[Len(Tail(s))] = Counts!Counts(reaction)
          BY <2>1, <2>4, <3>2, <4>2, Zenon DEF FanCounts
        <5>1. FansQuiet /\ ~fanStale /\ v \notin fanMissed /\ opening[v].at = "shown"
          BY <2>1, <2>9 DEF FansQuiet
        <5>2. s[Len(s)] = Counts!Counts(reaction)
          BY <2>2, <2>3, <3>1, <4>2, <5>1 DEF FanCounts
        <5> QED
          BY <2>5, <2>6, <2>8, <5>1, <5>2
      <4> QED
        BY <4>1, <4>2
    <3>4. FanMine(u)'
      BY <2>1, <2>8, <3>1 DEF FanMine, TapRuns
    <3> QED
      BY <3>3, <3>4
  <2> QED
    BY <2>10, <2>11, <2>12, <2>13, <2>14 DEF FanInv
\* A tap changes the page as if it were done.
<1>6. ASSUME NEW x \in ReactTaps, NEW v \in Fans, NEW e \in Fan, Counts!Tap(x, v, e)
      PROVE  FanInv'
  <2>1. PICK a \in {"writing", "finding"} :
          fanHandler' = [fanHandler EXCEPT ![x] =
            [at |-> a, by |-> v, emoji |-> e, counts |-> Counts!Nothing]]
    BY <1>6 DEF Counts!Tap
  <2>2. /\ fanHandler[x].at = "unused" /\ opening[v].at = "shown"
        /\ fanPage' = [fanPage EXCEPT ![v] = Counts!Optimistic(fanPage[v], e)]
        /\ hasty' = IF Counts!Running(v) THEN hasty \cup {v} ELSE hasty
        /\ UNCHANGED <<reaction, fanInbox, opening, joined, fanStale, fanMissed>>
    BY <1>6 DEF Counts!Tap
  <2>3. PICK r : r = [at |-> a, by |-> v, emoji |-> e, counts |-> Counts!Nothing]
    OBVIOUS
  <2>4. /\ r \in [at : Counts!Places, by : Fans, emoji : Fan, counts : Known]
        /\ r.at = a /\ r.by = v /\ r.emoji = e
    <3>1. Counts!Nothing \in Known
      BY DEF Known, Counts!Nothing
    <3> QED
      BY <2>3, <3>1 DEF Counts!Places
  <2>5. /\ fanHandler' \in [ReactTaps -> [at : Counts!Places, by : Fans, emoji : Fan, counts : Known]]
        /\ fanHandler'[x] = r /\ \A t \in ReactTaps : t # x => fanHandler'[t] = fanHandler[t]
    BY <1>t, <2>1, <2>3, <2>4
  <2>6. ~FansQuiet'
    BY <2>4, <2>5 DEF FansQuiet
  <2>7. /\ UsedTaps' = UsedTaps \cup {x} /\ x \notin UsedTaps
        /\ Cardinality(UsedTaps') = Cardinality(UsedTaps) + 1
    <3>1. UsedTaps' = UsedTaps \cup {x} /\ x \notin UsedTaps
      BY <2>2, <2>4, <2>5 DEF UsedTaps
    <3> QED
      BY <3>1, FS_AddElement
  <2>8. PICK post2 : post2 = Counts!Optimistic(fanPage[v], e)
    OBVIOUS
  <2>9. PICK b : b = Cardinality(Fans) + Cardinality(UsedTaps)
    OBVIOUS
  <2>10. post2 \in [mine : Fan, counts : [Emojis -> 0 .. (b + 1)]] /\ post2.mine = e
    <3>1. fanPage[v].counts \in [Emojis -> 0 .. b] /\ b \in Nat
      BY <1>t, <2>9 DEF Ahead
    <3>2. PICK c : c = [f \in Emojis |->
                     IF f = e THEN fanPage[v].counts[f] + 1
                     ELSE IF f = fanPage[v].mine /\ fanPage[v].counts[f] > 0
                          THEN fanPage[v].counts[f] - 1
                          ELSE fanPage[v].counts[f]]
      OBVIOUS
    <3>3. post2 = [mine |-> e, counts |-> c]
      BY <2>8, <3>2, Zenon DEF Counts!Optimistic
    <3>4. c \in [Emojis -> 0 .. (b + 1)]
      <4>1. ASSUME NEW f \in Emojis
            PROVE  (IF f = e THEN fanPage[v].counts[f] + 1
                    ELSE IF f = fanPage[v].mine /\ fanPage[v].counts[f] > 0
                         THEN fanPage[v].counts[f] - 1
                         ELSE fanPage[v].counts[f]) \in 0 .. (b + 1)
        <5>1. PICK k \in 0 .. b : k = fanPage[v].counts[f]
          BY <3>1
        <5> QED
          BY <3>1, <5>1
      <4> QED
        BY <3>2, <4>1
    <3> QED
      BY <3>3, <3>4
  <2>11. Ahead' = [Emojis -> 0 .. (b + 1)] /\ Ahead = [Emojis -> 0 .. b]
    <3>1. Cardinality(Fans) + Cardinality(UsedTaps') = b + 1
      BY <2>7, <2>9
    <3> QED
      BY <2>9, <3>1 DEF Ahead
  <2>12. Ahead \subseteq [Emojis -> 0 .. (b + 1)]
    <3>1. b \in Nat
      BY <2>9
    <3> SUFFICES ASSUME NEW c \in Ahead PROVE c \in [Emojis -> 0 .. (b + 1)]
      OBVIOUS
    <3>2. \A f \in Emojis : c[f] \in 0 .. (b + 1)
      BY <2>11, <3>1
    <3> QED
      BY <2>11, <3>2
  <2>13. /\ fanPage' \in [Fans -> [mine : Fan, counts : [Emojis -> 0 .. (b + 1)]]]
         /\ fanPage'[v].mine = e
         /\ \A u \in Fans : u # v => fanPage'[u] = fanPage[u]
    <3>1. fanPage \in [Fans -> [mine : Fan, counts : [Emojis -> 0 .. (b + 1)]]]
      BY <1>t, <2>12
    <3> QED
      BY <2>2, <2>8, <2>10, <3>1
  <2>14. /\ hasty' \subseteq Fans /\ hasty \subseteq hasty'
         /\ v \notin hasty' => \A t \in ReactTaps : ~TapRuns(t, v)
    BY <1>t, <2>2 DEF Counts!Running, TapRuns
  <2>15. FanFlags' /\ FanRows' /\ FanInboxes' /\ FanOpenings'
    BY <1>i, <2>2, <2>14 DEF FanFlags, FanRows, FanInboxes, FanOpenings
  <2>16. FanHandlers'
    BY <2>5 DEF FanHandlers
  <2>17. FanPages'
    BY <2>11, <2>13 DEF FanPages
  <2>18. ASSUME NEW u \in Fans PROVE FanCounts(u)' /\ FanMine(u)'
    <3>1. FanMine(u)
      BY <1>i
    <3>2. FanCounts(u)'
      BY <2>6 DEF FanCounts
    <3>3. FanMine(u)'
      <4>1. CASE u # v
        <5>1. \A t \in ReactTaps : TapRuns(t, u)' <=> TapRuns(t, u)
          BY <2>2, <2>4, <2>5, <4>1 DEF TapRuns
        <5>2. \A t \in ReactTaps : TapRuns(t, u) => fanHandler'[t] = fanHandler[t]
          BY <2>2, <2>5 DEF TapRuns
        <5> QED
          BY <2>2, <2>13, <2>14, <3>1, <4>1, <5>1, <5>2 DEF FanMine
      <4>2. CASE u = v
        <5>1. v \notin hasty' => \A t \in ReactTaps : TapRuns(t, v)' => t = x
          BY <2>5, <2>14 DEF TapRuns
        <5>2. TapRuns(x, v)' /\ fanHandler'[x].at \in {"finding", "writing"}
              /\ fanHandler'[x].emoji = e
          BY <2>4, <2>5 DEF TapRuns
        <5>3. opening'[v].at = "shown"
          BY <2>2
        <5>4. /\ v \notin hasty' => \A s, t \in ReactTaps : TapRuns(s, v)' /\ TapRuns(t, v)' => s = t
              /\ v \notin hasty' => \A t \in ReactTaps : TapRuns(t, v)' => fanPage'[v].mine = fanHandler'[t].emoji
          BY <2>13, <5>1, <5>2
        <5> QED
          BY <4>2, <5>2, <5>3, <5>4 DEF FanMine
      <4> QED
        BY <4>1, <4>2
    <3> QED
      BY <3>2, <3>3
  <2> QED
    BY <2>15, <2>16, <2>17, <2>18 DEF FanInv
\* A handler goes on.
<1>7. ASSUME NEW x \in ReactTaps, NEW r \in [at : {"writing", "counting", "telling", "done"},
                                             by : Fans, emoji : Fan, counts : Known],
             fanHandler' = [fanHandler EXCEPT ![x] = r],
             fanHandler[x].at \in {"finding", "writing", "counting", "telling"},
             r.by = fanHandler[x].by, r.emoji = fanHandler[x].emoji
      PROVE  /\ FanHandlers' /\ UsedTaps' = UsedTaps
             /\ fanHandler'[x] = r /\ \A t \in ReactTaps : t # x => fanHandler'[t] = fanHandler[t]
             /\ \A t \in ReactTaps, u \in Fans : TapRuns(t, u)' => TapRuns(t, u)
             /\ \A t \in ReactTaps, u \in Fans : t # x => (TapRuns(t, u)' <=> TapRuns(t, u))
             /\ r.at # "done" => ~FansQuiet' /\ (\A u \in Fans : TapRuns(x, u)' <=> TapRuns(x, u))
             /\ TapRuns(x, fanHandler[x].by)
  <2>1. /\ fanHandler' \in [ReactTaps -> [at : Counts!Places, by : Fans, emoji : Fan, counts : Known]]
        /\ fanHandler'[x] = r /\ \A t \in ReactTaps : t # x => fanHandler'[t] = fanHandler[t]
    <3>1. r \in [at : Counts!Places, by : Fans, emoji : Fan, counts : Known]
      BY DEF Counts!Places
    <3> QED
      BY <1>t, <1>7, <3>1
  <2>2. UsedTaps' = UsedTaps
    BY <1>7, <2>1 DEF UsedTaps
  <2>3. /\ \A t \in ReactTaps, u \in Fans : t # x => (TapRuns(t, u)' <=> TapRuns(t, u))
        /\ \A u \in Fans : TapRuns(x, u)' => TapRuns(x, u)
        /\ r.at # "done" => (\A u \in Fans : TapRuns(x, u)' <=> TapRuns(x, u))
        /\ TapRuns(x, fanHandler[x].by)
    BY <1>7, <2>1 DEF TapRuns
  <2>4. r.at # "done" => ~FansQuiet'
    BY <2>1 DEF FansQuiet
  <2> QED
    BY <2>1, <2>2, <2>3, <2>4 DEF FanHandlers
<1>8. ASSUME NEW x \in ReactTaps, Counts!Find(x) PROVE FanInv'
  <2>1. /\ fanHandler[x].at = "finding"
        /\ fanHandler' = [fanHandler EXCEPT ![x].at = "writing"]
        /\ UNCHANGED <<reaction, fanInbox, fanPage, opening, joined, hasty, fanStale, fanMissed>>
    BY <1>8 DEF Counts!Find
  <2>2. PICK r : r = [fanHandler[x] EXCEPT !.at = "writing"]
    OBVIOUS
  <2>3. /\ r \in [at : {"writing", "counting", "telling", "done"}, by : Fans, emoji : Fan,
                  counts : Known]
        /\ fanHandler' = [fanHandler EXCEPT ![x] = r]
        /\ r.at = "writing" /\ r.by = fanHandler[x].by /\ r.emoji = fanHandler[x].emoji
    BY <1>t, <2>1, <2>2
  <2>4. /\ FanHandlers' /\ UsedTaps' = UsedTaps /\ ~FansQuiet'
        /\ fanHandler'[x] = r /\ \A t \in ReactTaps : t # x => fanHandler'[t] = fanHandler[t]
        /\ \A t \in ReactTaps, u \in Fans : TapRuns(t, u)' <=> TapRuns(t, u)
    BY <1>7, <2>1, <2>3
  <2>5. FanFlags' /\ FanRows' /\ FanInboxes' /\ FanPages' /\ FanOpenings'
    BY <1>i, <2>1, <2>4 DEF FanFlags, FanRows, FanInboxes, FanPages, FanOpenings, Ahead
  <2>6. ASSUME NEW u \in Fans PROVE FanCounts(u)' /\ FanMine(u)'
    <3>1. FanMine(u)
      BY <1>i
    <3>2. FanCounts(u)'
      BY <2>4 DEF FanCounts
    <3>3. \A t \in ReactTaps : /\ fanHandler'[t].at \in {"finding", "writing"} <=>
                                    fanHandler[t].at \in {"finding", "writing"}
                               /\ fanHandler'[t].emoji = fanHandler[t].emoji
      BY <2>1, <2>3, <2>4
    <3>4. FanMine(u)'
      BY <2>1, <2>4, <3>1, <3>3 DEF FanMine
    <3> QED
      BY <3>2, <3>4
  <2> QED
    BY <2>4, <2>5, <2>6 DEF FanInv
<1>9. ASSUME NEW x \in ReactTaps, Counts!Write(x) PROVE FanInv'
  <2>1. /\ fanHandler[x].at = "writing"
        /\ reaction' = [reaction EXCEPT ![fanHandler[x].by] = fanHandler[x].emoji]
        /\ fanHandler' = [fanHandler EXCEPT ![x].at = "counting"]
        /\ UNCHANGED <<fanInbox, fanPage, opening, joined, hasty, fanStale, fanMissed>>
    BY <1>9 DEF Counts!Write
  <2>2. PICK r : r = [fanHandler[x] EXCEPT !.at = "counting"]
    OBVIOUS
  <2>3. /\ r \in [at : {"writing", "counting", "telling", "done"}, by : Fans, emoji : Fan,
                  counts : Known]
        /\ fanHandler' = [fanHandler EXCEPT ![x] = r]
        /\ r.at = "counting" /\ r.by = fanHandler[x].by /\ r.emoji = fanHandler[x].emoji
    BY <1>t, <2>1, <2>2
  <2>4. /\ FanHandlers' /\ UsedTaps' = UsedTaps /\ ~FansQuiet'
        /\ fanHandler'[x] = r /\ \A t \in ReactTaps : t # x => fanHandler'[t] = fanHandler[t]
        /\ \A t \in ReactTaps, u \in Fans : TapRuns(t, u)' <=> TapRuns(t, u)
        /\ TapRuns(x, fanHandler[x].by)
    BY <1>7, <2>1, <2>3
  <2>5. PICK w \in Fans : w = fanHandler[x].by
    BY <1>t
  <2>6. /\ fanHandler[x].emoji \in Fan /\ reaction' \in [Fans -> Fan]
        /\ reaction'[w] = fanHandler[x].emoji
        /\ \A u \in Fans : u # w => reaction'[u] = reaction[u]
    BY <1>t, <2>1, <2>5
  <2>7. FanFlags' /\ FanInboxes' /\ FanPages' /\ FanOpenings'
    BY <1>i, <2>1, <2>4 DEF FanFlags, FanInboxes, FanPages, FanOpenings, Ahead
  <2>8. FanRows'
    BY <2>6 DEF FanRows
  <2>9. ASSUME NEW u \in Fans PROVE FanCounts(u)' /\ FanMine(u)'
    <3>1. FanMine(u)
      BY <1>i
    <3>2. FanCounts(u)'
      BY <2>4 DEF FanCounts
    <3>3. FanMine(u)'
      <4>1. CASE u # w
        <5>1. ~TapRuns(x, u)
          BY <2>5, <4>1 DEF TapRuns
        <5>2. \A t \in ReactTaps : TapRuns(t, u) => fanHandler'[t] = fanHandler[t]
          BY <2>4, <5>1
        <5> QED
          BY <2>1, <2>4, <2>6, <3>1, <4>1, <5>2 DEF FanMine
      <4>2. CASE u = w
        <5>1. TapRuns(x, u) /\ opening[u].at = "shown"
          BY <2>4, <2>5, <3>1, <4>2 DEF FanMine
        <5>2. u \notin hasty => \A t \in ReactTaps : TapRuns(t, u) => t = x
          BY <3>1, <5>1 DEF FanMine
        <5>3. u \notin hasty => fanPage[u].mine = reaction'[u]
          BY <2>1, <2>6, <3>1, <4>2, <5>1 DEF FanMine
        <5>4. fanHandler'[x].at \notin {"finding", "writing"}
          BY <2>3, <2>4
        <5> QED
          BY <2>1, <2>4, <3>1, <5>1, <5>2, <5>3, <5>4 DEF FanMine
      <4> QED
        BY <4>1, <4>2
    <3> QED
      BY <3>2, <3>3
  <2> QED
    BY <2>4, <2>7, <2>8, <2>9 DEF FanInv
<1>10. ASSUME NEW x \in ReactTaps, Counts!Count(x) PROVE FanInv'
  <2>1. /\ fanHandler[x].at = "counting"
        /\ fanHandler' = [fanHandler EXCEPT ![x].at = "telling",
                                            ![x].counts = Counts!Counts(reaction)]
        /\ UNCHANGED <<reaction, fanInbox, fanPage, opening, joined, hasty, fanStale, fanMissed>>
    BY <1>10 DEF Counts!Count
  <2>2. PICK c \in Known : c = Counts!Counts(reaction)
    BY <1>t, CountsAreKnown
  <2>r. PICK r : r = [fanHandler[x] EXCEPT !.at = "telling", !.counts = c]
    OBVIOUS
  <2>3. /\ r \in [at : {"writing", "counting", "telling", "done"}, by : Fans, emoji : Fan,
                  counts : Known]
        /\ fanHandler' = [fanHandler EXCEPT ![x] = r]
        /\ r.at = "telling" /\ r.by = fanHandler[x].by /\ r.emoji = fanHandler[x].emoji
    BY <1>t, <2>1, <2>2, <2>r
  <2>4. /\ FanHandlers' /\ UsedTaps' = UsedTaps /\ ~FansQuiet'
        /\ fanHandler'[x] = r /\ \A t \in ReactTaps : t # x => fanHandler'[t] = fanHandler[t]
        /\ \A t \in ReactTaps, u \in Fans : TapRuns(t, u)' <=> TapRuns(t, u)
    BY <1>7, <2>1, <2>3
  <2>5. FanFlags' /\ FanRows' /\ FanInboxes' /\ FanPages' /\ FanOpenings'
    BY <1>i, <2>1, <2>4 DEF FanFlags, FanRows, FanInboxes, FanPages, FanOpenings, Ahead
  <2>6. ASSUME NEW u \in Fans PROVE FanCounts(u)' /\ FanMine(u)'
    <3>1. FanMine(u)
      BY <1>i
    <3>2. FanCounts(u)'
      BY <2>4 DEF FanCounts
    <3>3. \A t \in ReactTaps : /\ fanHandler'[t].at \in {"finding", "writing"} <=>
                                    fanHandler[t].at \in {"finding", "writing"}
                               /\ fanHandler'[t].emoji = fanHandler[t].emoji
      BY <2>1, <2>3, <2>4
    <3>4. FanMine(u)'
      BY <2>1, <2>4, <3>1, <3>3 DEF FanMine
    <3> QED
      BY <3>2, <3>4
  <2> QED
    BY <2>4, <2>5, <2>6 DEF FanInv
<1>11. ASSUME NEW x \in ReactTaps, Counts!Tell(x) PROVE FanInv'
  <2>1. /\ fanHandler[x].at = "telling"
        /\ fanHandler' = [fanHandler EXCEPT ![x].at = "done"]
        /\ fanInbox' = [u \in Fans |-> IF u \in joined
                                       THEN Append(fanInbox[u], fanHandler[x].counts)
                                       ELSE fanInbox[u]]
        /\ fanStale' = (fanHandler[x].counts # Counts!Counts(reaction))
        /\ fanMissed' = fanMissed \cup (Fans \ joined)
        /\ UNCHANGED <<reaction, fanPage, opening, joined, hasty>>
    BY <1>11 DEF Counts!Tell
  <2>2. PICK c \in Known : c = fanHandler[x].counts
    BY <1>t
  <2>r. PICK r : r = [fanHandler[x] EXCEPT !.at = "done"]
    OBVIOUS
  <2>3. /\ r \in [at : {"writing", "counting", "telling", "done"}, by : Fans, emoji : Fan,
                  counts : Known]
        /\ fanHandler' = [fanHandler EXCEPT ![x] = r]
        /\ r.at = "done" /\ r.by = fanHandler[x].by /\ r.emoji = fanHandler[x].emoji
    BY <1>t, <2>1, <2>r
  <2>4. /\ FanHandlers' /\ UsedTaps' = UsedTaps
        /\ fanHandler'[x] = r /\ \A t \in ReactTaps : t # x => fanHandler'[t] = fanHandler[t]
        /\ \A t \in ReactTaps, u \in Fans : TapRuns(t, u)' => TapRuns(t, u)
        /\ \A t \in ReactTaps, u \in Fans : t # x => (TapRuns(t, u)' <=> TapRuns(t, u))
    BY <1>7, <2>1, <2>3
  <2>5. ASSUME NEW u \in Fans
        PROVE  /\ fanInbox'[u] \in Seq(Known)
               /\ u \in joined => fanInbox'[u] # <<>> /\ fanInbox'[u][Len(fanInbox'[u])] = c
    <3>1. PICK s \in Seq(Known) : s = fanInbox[u]
      BY <1>t
    <3>2. /\ Append(s, c) \in Seq(Known) /\ Append(s, c) # <<>>
          /\ Append(s, c)[Len(Append(s, c))] = c
      <4>1. Append(s, c) \in Seq(Known) /\ Len(Append(s, c)) = Len(s) + 1 /\ Len(s) \in Nat
            /\ Append(s, c)[Len(s) + 1] = c
        OBVIOUS
      <4> QED
        BY <4>1
    <3> QED
      BY <2>1, <2>2, <3>1, <3>2
  <2>6. FanInboxes'
    BY <2>1, <2>5 DEF FanInboxes
  <2>7. fanStale' \in BOOLEAN /\ fanMissed' \subseteq Fans
    BY <1>t, <2>1
  <2>8. FanFlags' /\ FanRows' /\ FanPages' /\ FanOpenings'
    BY <1>i, <2>1, <2>4, <2>7 DEF FanFlags, FanRows, FanPages, FanOpenings, Ahead
  <2>9. ASSUME NEW u \in Fans PROVE FanCounts(u)' /\ FanMine(u)'
    <3>1. FanMine(u)
      BY <1>i
    <3>2. Counts!Counts(reaction)' = Counts!Counts(reaction)
      BY <2>1 DEF Counts!Counts
    <3>3. FanCounts(u)'
      <4>1. ~fanStale' => c = Counts!Counts(reaction)
        BY <2>1, <2>2
      <4>2. u \notin fanMissed' => u \in joined
        BY <2>1
      <4> QED
        BY <2>5, <3>2, <4>1, <4>2 DEF FanCounts
    <3>4. \A t \in ReactTaps : /\ fanHandler'[t].at \in {"finding", "writing"} <=>
                                    fanHandler[t].at \in {"finding", "writing"}
                               /\ fanHandler'[t].emoji = fanHandler[t].emoji
      BY <2>1, <2>3, <2>4
    <3>5. \A t \in ReactTaps : TapRuns(t, u) /\ ~TapRuns(t, u)' =>
            fanHandler[t].at \notin {"finding", "writing"}
      BY <2>1, <2>4
    <3>6. FanMine(u)'
      BY <2>1, <2>4, <3>1, <3>4, <3>5 DEF FanMine
    <3> QED
      BY <3>3, <3>6
  <2> QED
    BY <2>4, <2>6, <2>8, <2>9 DEF FanInv
<1>12. CASE Counts!Next
  <2>1. Fan = Emojis \cup {Counts!NoEmoji}
    BY DEF Fan
  <2> QED
    BY <1>2, <1>3, <1>4, <1>5, <1>6, <1>8, <1>9, <1>10, <1>11, <1>12, <2>1 DEF Counts!Next
<1> QED
  BY <1>1, <1>12

LEMMA FansFit == FanInv => Counts!PagesAgreeAtRest
<1> SUFFICES ASSUME FanInv, NEW u \in Fans, Counts!AtRest(u)
             PROVE  /\ ~fanStale /\ u \notin fanMissed => fanPage[u].counts = Counts!Counts(reaction)
                    /\ u \notin hasty => fanPage[u].mine = reaction[u]
  BY DEF Counts!PagesAgreeAtRest
<1>1. fanInbox[u] = <<>> /\ opening[u].at = "shown" /\ \A v \in Fans : ~Counts!Running(v)
  BY DEF Counts!AtRest
<1>2. \A t \in ReactTaps : fanHandler[t].at \in Counts!Places /\ fanHandler[t].by \in Fans
  BY DEF FanInv, FanHandlers
<1>3. FansQuiet
  BY <1>1, <1>2 DEF FansQuiet, Counts!Running, Counts!Places
<1>4. \A t \in ReactTaps : ~TapRuns(t, u)
  BY <1>3 DEF FansQuiet, TapRuns
<1>5. FanCounts(u) /\ FanMine(u)
  BY DEF FanInv
<1> QED
  BY <1>1, <1>3, <1>4, <1>5 DEF FanCounts, FanMine

-----------------------------------------------------------------------------
(* The list of conversations.                                              *)

Asks == [id : 1 .. MaxListLoads, q : Terms, unread : BOOLEAN, p : 1 .. MaxPage,
         reset : BOOLEAN, clean : BOOLEAN]
RowsTo(n) == {Listing!Rows(search, unreadOnly, i) : i \in 1 .. n}
ListFlags ==
  /\ search \in Terms /\ unreadOnly \in BOOLEAN /\ hasMore \in BOOLEAN
  /\ listLoading \in BOOLEAN /\ loadingMore \in BOOLEAN /\ listSeed \in BOOLEAN
  /\ listUnsure \in BOOLEAN
ListNumbers == listPage \in 1 .. MaxPage /\ listActs \in 0 .. MaxListActs
ListRouter ==
  url \in Listing!Filters /\ navs \in Seq(Listing!Filters) /\ skip \in BOOLEAN
ListRows == list \subseteq [q : Terms, unread : BOOLEAN, p : 0 .. MaxPage]
ListAsks == listLoads \subseteq Asks
\* The debounced search is the one in the field.
ListTimer ==
  /\ listTimer \in [on : BOOLEAN, q : Terms, unread : BOOLEAN]
  /\ listTimer.on => listTimer.q = search
\* A clean request is alone.  A first page is that of what the page shows, and
\* nothing can be tapped until it is there; a further page continues the rows,
\* unless a search is about to replace them.
ListClean == \A l \in listLoads : l.clean =>
  /\ listLoads = {l}
  /\ l.reset => /\ listLoading /\ l.p = 1 /\ listPage = 1
                /\ l.q = search /\ l.unread = unreadOnly
  /\ ~l.reset => \/ listTimer.on \/ listUnsure
                 \/ /\ l.p = listPage /\ l.q = search /\ l.unread = unreadOnly
                    /\ list = RowsTo(listPage - 1)
ListRests == listLoads = {} => listTimer.on \/ listUnsure \/ list = RowsTo(listPage)
ListInv ==
  /\ ListFlags /\ ListNumbers /\ ListRouter /\ ListRows /\ ListAsks /\ ListTimer
  /\ ListClean /\ ListRests

LEMMA ListBounds ==
  /\ MaxPage \in Nat \ {0} /\ MaxListLoads \in Nat \ {0} /\ MaxListActs \in Nat
  /\ "empty" \in Terms
BY ServicesAssumption, Zenon DEF ServicesAssumption

LEMMA ListTypes == ListInv => Listing!TypeOK
<1> SUFFICES ASSUME ListInv PROVE Listing!TypeOK
  OBVIOUS
<1>1. listLoads \subseteq Listing!Queries
  BY DEF ListInv, ListAsks, Asks, Listing!Queries
<1>2. ListFlags /\ ListNumbers /\ ListRouter /\ ListRows /\ ListTimer
  BY DEF ListInv
<1> QED
  BY <1>1, <1>2, Zenon DEF ListFlags, ListNumbers, ListRouter, ListRows, ListTimer, Listing!TypeOK

LEMMA InitList == Listing!Init => ListInv
<1> SUFFICES ASSUME Listing!Init PROVE ListInv
  OBVIOUS
<1> USE ListBounds
<1>1. /\ url \in Listing!Filters /\ unreadOnly = (url = "unread")
      /\ search = "empty" /\ listPage = 1 /\ hasMore = TRUE
      /\ list = {} /\ listTimer = [on |-> FALSE, q |-> "empty", unread |-> FALSE]
      /\ listLoads = {[id |-> 1, q |-> search, unread |-> unreadOnly, p |-> 1,
                       reset |-> TRUE, clean |-> TRUE]}
      /\ listLoading = TRUE /\ loadingMore = FALSE
      /\ navs = <<>> /\ skip = FALSE /\ listSeed = TRUE /\ listActs = 0 /\ listUnsure = FALSE
  BY DEF Listing!Init, Listing!NoTimer
<1>2. unreadOnly \in BOOLEAN
  BY <1>1, Zenon
<1>3. ListFlags
  BY <1>1, <1>2 DEF ListFlags
<1>4. ListNumbers /\ ListRouter /\ ListRows
  <2>1. 1 \in 1 .. MaxPage /\ 0 \in 0 .. MaxListActs
    OBVIOUS
  <2>2. <<>> \in Seq(Listing!Filters) /\ FALSE \in BOOLEAN
    OBVIOUS
  <2> QED
    BY <1>1, <2>1, <2>2, Zenon DEF ListNumbers, ListRouter, ListRows
<1>5. ListTimer
  BY <1>1 DEF ListTimer
<1>6. PICK l : l = [id |-> 1, q |-> search, unread |-> unreadOnly, p |-> 1,
                    reset |-> TRUE, clean |-> TRUE]
  OBVIOUS
<1>7. listLoads = {l} /\ l \in Asks /\ l.reset /\ l.p = 1 /\ l.q = search /\ l.unread = unreadOnly
  BY <1>1, <1>2, <1>6 DEF Asks
<1>8. ListAsks
  BY <1>7 DEF ListAsks
<1>9. ListClean
  BY <1>1, <1>7 DEF ListClean
<1>10. ListRests
  BY <1>7 DEF ListRests
<1> QED
  BY <1>3, <1>4, <1>5, <1>8, <1>9, <1>10 DEF ListInv

\* A request that is made leaves at most itself clean, and only when alone.
LEMMA AskingRows ==
  ASSUME ListAsks, ListFlags, NEW p \in 1 .. MaxPage, NEW q \in Terms, NEW u \in BOOLEAN,
         NEW reset \in BOOLEAN, NEW clean \in BOOLEAN,
         Listing!LoadConversations(p, q, u, reset, clean)
  PROVE  /\ ListAsks' /\ listLoads' # {}
         /\ listLoading' \in BOOLEAN /\ loadingMore' \in BOOLEAN
         /\ reset => listLoading'
         /\ ~reset => listLoading' = listLoading
         /\ \A l \in listLoads' : l.clean =>
              /\ listLoads = {} /\ clean /\ listLoads' = {l}
              /\ l.p = p /\ l.q = q /\ l.unread = u /\ l.reset = reset
<1> USE ListBounds
<1>1. PICK i : i = CHOOSE k \in Listing!Free : \A j \in Listing!Free : k <= j
  OBVIOUS
<1>2. PICK c : c = (clean /\ listLoads = {})
  OBVIOUS
<1>3. c \in BOOLEAN /\ (c => clean /\ listLoads = {})
  BY <1>2, Zenon
<1>4. PICK n : n = [id |-> i, q |-> q, unread |-> u, p |-> p, reset |-> reset, clean |-> c]
  OBVIOUS
<1>5. PICK S : S = {[l EXCEPT !.clean = FALSE] : l \in listLoads}
  OBVIOUS
<1>6. /\ Listing!Free # {} /\ listLoads' = S \cup {n}
      /\ listLoading' = (listLoading \/ reset) /\ loadingMore' = (loadingMore \/ ~reset)
  BY <1>1, <1>2, <1>4, <1>5, Zenon DEF Listing!LoadConversations
<1>7. i \in 1 .. MaxListLoads
  <2>1. Listing!Free \subseteq 1 .. MaxListLoads /\ Listing!Free \subseteq Nat
    BY DEF Listing!Free
  <2>2. \E k \in Listing!Free : \A j \in Listing!Free : k <= j
    BY <1>6, <2>1, LeastNumber
  <2>3. i \in Listing!Free
    BY <1>1, <2>2, Zenon
  <2> QED
    BY <2>1, <2>3
<1>8. n \in Asks /\ n.p = p /\ n.q = q /\ n.unread = u /\ n.reset = reset /\ n.clean = c
  BY <1>3, <1>4, <1>7 DEF Asks
<1>9. \A l \in S : l \in Asks /\ ~l.clean
  <2> SUFFICES ASSUME NEW l \in listLoads
               PROVE  [l EXCEPT !.clean = FALSE] \in Asks /\ ~[l EXCEPT !.clean = FALSE].clean
    BY <1>5
  <2>1. l \in [id : 1 .. MaxListLoads, q : Terms, unread : BOOLEAN, p : 1 .. MaxPage,
               reset : BOOLEAN, clean : BOOLEAN]
    BY DEF ListAsks, Asks
  <2> QED
    BY <2>1 DEF Asks
<1>10. ListAsks' /\ listLoads' # {}
  BY <1>6, <1>8, <1>9 DEF ListAsks
<1>11. /\ listLoading' \in BOOLEAN /\ loadingMore' \in BOOLEAN /\ (reset => listLoading')
       /\ (~reset => listLoading' = listLoading)
  BY <1>6, Zenon DEF ListFlags
<1>12. ASSUME NEW l \in listLoads', l.clean
       PROVE  /\ listLoads = {} /\ clean /\ listLoads' = {l}
              /\ l.p = p /\ l.q = q /\ l.unread = u /\ l.reset = reset
  <2>1. l = n /\ c
    BY <1>6, <1>8, <1>9, <1>12
  <2>2. S = {}
    BY <1>3, <1>5, <2>1
  <2> QED
    BY <1>3, <1>6, <1>8, <2>1, <2>2
<1> QED
  BY <1>10, <1>11, <1>12

LEMMA NextList == ListInv /\ [Listing!Next]_listVars => ListInv'
<1> SUFFICES ASSUME ListInv, [Listing!Next]_listVars PROVE ListInv'
  OBVIOUS
<1> USE ListBounds
<1>i. /\ ListFlags /\ ListNumbers /\ ListRouter /\ ListRows /\ ListAsks /\ ListTimer
      /\ ListClean /\ ListRests
  BY DEF ListInv
<1>t. /\ search \in Terms /\ unreadOnly \in BOOLEAN /\ hasMore \in BOOLEAN
      /\ listLoading \in BOOLEAN /\ loadingMore \in BOOLEAN /\ listSeed \in BOOLEAN
      /\ listUnsure \in BOOLEAN /\ listPage \in 1 .. MaxPage /\ listActs \in 0 .. MaxListActs
      /\ url \in Listing!Filters /\ navs \in Seq(Listing!Filters) /\ skip \in BOOLEAN
      /\ list \subseteq [q : Terms, unread : BOOLEAN, p : 0 .. MaxPage]
      /\ listLoads \subseteq Asks
      /\ listTimer \in [on : BOOLEAN, q : Terms, unread : BOOLEAN]
  BY <1>i DEF ListFlags, ListNumbers, ListRouter, ListRows, ListAsks, ListTimer
<1>q. \A l \in listLoads : /\ l.q \in Terms /\ l.unread \in BOOLEAN /\ l.p \in 1 .. MaxPage
                           /\ l.reset \in BOOLEAN /\ l.clean \in BOOLEAN
  BY <1>t DEF Asks
<1>a. Listing!Act => listActs' \in 0 .. MaxListActs
  BY <1>t DEF Listing!Act
<1>r. /\ \A n \in Nat : RowsTo(n) = {[q |-> search, unread |-> unreadOnly, p |-> i] : i \in 1 .. n}
      /\ UNCHANGED <<search, unreadOnly>> => \A n \in Nat : RowsTo(n)' = RowsTo(n)
  BY DEF RowsTo, Listing!Rows
<1>1. CASE UNCHANGED listVars
  <2>1. UNCHANGED <<search, unreadOnly, listPage, hasMore, listLoading, loadingMore, list,
                    listTimer, listLoads, url, navs, skip, listSeed, listActs, listUnsure>>
    BY <1>1 DEF listVars
  <2> QED
    BY <2>1, <1>i DEF ListInv, ListFlags, ListNumbers, ListRouter, ListRows, ListAsks, ListTimer,
                      ListClean, ListRests, RowsTo
<1>2. ASSUME NEW l \in listLoads, NEW more \in BOOLEAN, Listing!Answer(l, more) PROVE ListInv'
  <2>0. PICK rowOf : rowOf = [q |-> l.q, unread |-> l.unread, p |-> l.p]
    OBVIOUS
  <2>1. /\ listLoads' = listLoads \ {l}
        /\ l.reset => list' = {rowOf}
        /\ ~l.reset => list' = list \cup {rowOf}
        /\ hasMore' = (more /\ l.p < MaxPage)
        /\ listLoading' = FALSE /\ loadingMore' = FALSE
        /\ listUnsure' = (~l.clean \/ (~l.reset /\ listUnsure))
        /\ UNCHANGED <<search, unreadOnly, listPage, listTimer, url, navs, skip, listSeed, listActs>>
    BY <1>2, <2>0, Zenon DEF Listing!Answer, Listing!Rows, Listing!router
  <2>2. rowOf \in [q : Terms, unread : BOOLEAN, p : 0 .. MaxPage]
    BY <1>q, <2>0
  <2>3. hasMore' \in BOOLEAN /\ listUnsure' \in BOOLEAN
    BY <2>1, Zenon
  <2>4. ListFlags'
    BY <1>t, <2>1, <2>3 DEF ListFlags
  <2>5. ListNumbers' /\ ListRouter' /\ ListTimer'
    BY <1>i, <2>1 DEF ListNumbers, ListRouter, ListTimer
  <2>6. ListRows' /\ ListAsks'
    BY <1>t, <1>q, <2>1, <2>2 DEF ListRows, ListAsks
  <2>7. ListClean'
    <3>1. \A k \in listLoads' : ~k.clean
      BY <1>i, <2>1 DEF ListClean
    <3> QED
      BY <3>1 DEF ListClean
  <2>8. ListRests'
    <3> SUFFICES ASSUME listLoads' = {}, ~listTimer.on, ~listUnsure'
                 PROVE  list' = RowsTo(listPage)
      BY <1>r, <1>t, <2>1 DEF ListRests
    <3>1. l.clean /\ (l.reset \/ ~listUnsure)
      BY <1>q, <1>t, <2>1
    <3>2. CASE l.reset
      <4>1. l.p = 1 /\ listPage = 1 /\ l.q = search /\ l.unread = unreadOnly
        BY <1>i, <3>1, <3>2 DEF ListClean
      <4>2. RowsTo(1) = {rowOf}
        BY <1>r, <2>0, <4>1
      <4> QED
        BY <2>1, <3>2, <4>1, <4>2
    <3>3. CASE ~l.reset
      <4>1. /\ l.p = listPage /\ l.q = search /\ l.unread = unreadOnly
            /\ list = RowsTo(listPage - 1)
        BY <1>i, <3>1, <3>3 DEF ListClean
      <4>2. RowsTo(listPage) = RowsTo(listPage - 1) \cup {rowOf}
        BY <1>r, <1>t, <2>0, <4>1
      <4> QED
        BY <2>1, <3>3, <4>1, <4>2
    <3> QED
      BY <3>2, <3>3
  <2> QED
    BY <2>4, <2>5, <2>6, <2>7, <2>8 DEF ListInv
<1>3. ASSUME NEW l \in listLoads, Listing!AnswerFails(l) PROVE ListInv'
  <2>1. /\ listLoads' = listLoads \ {l} /\ hasMore' = FALSE
        /\ listLoading' = FALSE /\ loadingMore' = FALSE /\ listUnsure' = TRUE
        /\ UNCHANGED <<search, unreadOnly, listPage, list, listTimer, url, navs, skip, listSeed,
                       listActs>>
    BY <1>3 DEF Listing!AnswerFails, Listing!router
  <2>2. ListFlags' /\ ListNumbers' /\ ListRouter' /\ ListTimer' /\ ListRows' /\ ListAsks'
    BY <1>i, <2>1 DEF ListFlags, ListNumbers, ListRouter, ListTimer, ListRows, ListAsks
  <2>3. ListClean'
    <3>1. \A k \in listLoads' : ~k.clean
      BY <1>i, <2>1 DEF ListClean
    <3> QED
      BY <3>1 DEF ListClean
  <2>4. ListRests'
    BY <2>1 DEF ListRests
  <2> QED
    BY <2>2, <2>3, <2>4 DEF ListInv
<1>4. CASE Listing!ScrollToEnd
  <2>1. /\ ~listLoading /\ listPage < MaxPage /\ listPage' = listPage + 1
        /\ Listing!LoadConversations(listPage', search, unreadOnly, FALSE, TRUE)
        /\ UNCHANGED <<search, unreadOnly, hasMore, list, listTimer, url, navs, skip, listSeed,
                       listActs, listUnsure>>
    BY <1>4 DEF Listing!ScrollToEnd, Listing!router
  <2>2. PICK p : p = listPage'
    OBVIOUS
  <2>3. p \in 1 .. MaxPage /\ p = listPage + 1
    BY <1>t, <2>1, <2>2
  <2>4. Listing!LoadConversations(p, search, unreadOnly, FALSE, TRUE)
    BY <2>1, <2>2
  <2>5. /\ ListAsks' /\ listLoads' # {}
        /\ listLoading' = listLoading /\ loadingMore' \in BOOLEAN
        /\ \A l \in listLoads' : l.clean =>
             /\ listLoads = {} /\ listLoads' = {l}
             /\ l.p = p /\ l.q = search /\ l.unread = unreadOnly /\ l.reset = FALSE
    <3>1. PICK r \in BOOLEAN : r = FALSE
      OBVIOUS
    <3>2. PICK c \in BOOLEAN : c = TRUE
      OBVIOUS
    <3>3. Listing!LoadConversations(p, search, unreadOnly, r, c)
      BY <2>4, <3>1, <3>2
    <3> QED
      BY <1>i, <1>t, <2>3, <3>1, <3>3, AskingRows
  <2>6. ListFlags' /\ ListNumbers'
    BY <1>t, <2>1, <2>2, <2>3, <2>5 DEF ListFlags, ListNumbers
  <2>7. ListRouter' /\ ListTimer' /\ ListRows'
    BY <1>i, <2>1 DEF ListRouter, ListTimer, ListRows
  <2>8. ListRests'
    BY <2>5 DEF ListRests
  <2>9. ListClean'
    <3>1. listLoads = {} => listTimer.on \/ listUnsure \/ list = RowsTo(listPage)
      BY <1>i DEF ListRests
    <3>2. RowsTo(listPage - 1)' = RowsTo(listPage)
      <4>1. listPage' - 1 = listPage
        BY <1>t, <2>1
      <4> QED
        BY <2>1, <4>1 DEF RowsTo, Listing!Rows
    <3>3. ASSUME NEW l \in listLoads', l.clean
          PROVE  /\ listLoads' = {l} /\ ~l.reset
                 /\ \/ listTimer.on \/ listUnsure
                    \/ /\ l.p = p /\ l.q = search /\ l.unread = unreadOnly
                       /\ list = RowsTo(listPage)
      BY <2>5, <3>1, <3>3
    <3> QED
      BY <2>1, <2>2, <3>2, <3>3, Zenon DEF ListClean
  <2> QED
    BY <2>5, <2>6, <2>7, <2>8, <2>9 DEF ListInv
<1>5. ASSUME NEW k \in Terms, Listing!HandleSearch(k) PROVE ListInv'
  <2>1. /\ Listing!Act /\ ~listLoading /\ search' = k /\ listPage' = 1
        /\ listTimer' = [on |-> TRUE, q |-> k, unread |-> unreadOnly]
        /\ UNCHANGED <<unreadOnly, hasMore, listLoading, loadingMore, list, listLoads, url, navs,
                       skip, listSeed, listUnsure>>
    BY <1>5 DEF Listing!HandleSearch, Listing!router
  <2>2. /\ listTimer' \in [on : BOOLEAN, q : Terms, unread : BOOLEAN]
        /\ listTimer'.on /\ listTimer'.q = k
    BY <1>t, <2>1
  <2>3. ListFlags' /\ ListNumbers' /\ ListTimer'
    BY <1>t, <1>a, <2>1, <2>2 DEF ListFlags, ListNumbers, ListTimer
  <2>4. ListRouter' /\ ListRows' /\ ListAsks'
    BY <1>i, <2>1 DEF ListRouter, ListRows, ListAsks
  <2>5. ListClean'
    BY <1>i, <2>1, <2>2 DEF ListClean
  <2>6. ListRests'
    BY <2>2 DEF ListRests
  <2> QED
    BY <2>3, <2>4, <2>5, <2>6 DEF ListInv
\* Where a first page is asked for, the rows that are there do not matter.
<1>6. ASSUME NEW q \in Terms, NEW u \in BOOLEAN, NEW clean \in BOOLEAN,
             Listing!LoadConversations(1, q, u, TRUE, clean),
             search' = search, unreadOnly' \in BOOLEAN, listPage' \in 1 .. MaxPage,
             clean => q = search /\ u = unreadOnly' /\ listPage' = 1,
             listActs' \in 0 .. MaxListActs, ListRouter', ListTimer',
             UNCHANGED <<hasMore, list, listSeed, listUnsure>>
      PROVE  ListInv'
  <2>1. /\ ListAsks' /\ listLoads' # {} /\ listLoading' /\ listLoading' \in BOOLEAN
        /\ loadingMore' \in BOOLEAN
        /\ \A l \in listLoads' : l.clean =>
             /\ clean /\ listLoads' = {l} /\ l.p = 1 /\ l.q = q /\ l.unread = u /\ l.reset = TRUE
    <3>1. PICK r \in BOOLEAN : r = TRUE
      OBVIOUS
    <3>2. PICK n \in 1 .. MaxPage : n = 1
      OBVIOUS
    <3>3. Listing!LoadConversations(n, q, u, r, clean)
      BY <1>6, <3>1, <3>2
    <3>4. /\ ListAsks' /\ listLoads' # {} /\ listLoading' \in BOOLEAN /\ loadingMore' \in BOOLEAN
          /\ r => listLoading'
          /\ \A l \in listLoads' : l.clean =>
               /\ clean /\ listLoads' = {l} /\ l.p = n /\ l.q = q /\ l.unread = u /\ l.reset = r
      BY <1>i, <3>3, AskingRows
    <3> QED
      BY <3>1, <3>2, <3>4
  <2>2. ListFlags' /\ ListNumbers' /\ ListRows'
    BY <1>t, <1>6, <2>1 DEF ListFlags, ListNumbers, ListRows
  <2>3. ListClean'
    BY <1>6, <2>1 DEF ListClean
  <2>4. ListRests'
    BY <2>1 DEF ListRests
  <2> QED
    BY <1>6, <2>1, <2>2, <2>3, <2>4 DEF ListInv
<1>7. CASE Listing!TimerFires
  <2>0. PICK c : c = (listTimer.unread = unreadOnly /\ listPage = 1)
    OBVIOUS
  <2>1. /\ listTimer.on /\ listTimer' = [on |-> FALSE, q |-> "empty", unread |-> FALSE]
        /\ Listing!LoadConversations(1, listTimer.q, listTimer.unread, TRUE, c)
        /\ UNCHANGED <<search, unreadOnly, listPage, hasMore, list, url, navs, skip, listSeed,
                       listActs, listUnsure>>
    BY <1>7, <2>0 DEF Listing!TimerFires, Listing!NoTimer, Listing!router
  <2>2. /\ c \in BOOLEAN /\ (c => listTimer.unread = unreadOnly /\ listPage = 1)
        /\ listTimer.q = search /\ listTimer.q \in Terms /\ listTimer.unread \in BOOLEAN
    <3>1. c \in BOOLEAN /\ (c => listTimer.unread = unreadOnly /\ listPage = 1)
      BY <2>0, Zenon
    <3>2. listTimer.q = search /\ listTimer.q \in Terms /\ listTimer.unread \in BOOLEAN
      BY <1>i, <1>t, <2>1 DEF ListTimer
    <3> QED
      BY <3>1, <3>2
  <2>3. ListTimer' /\ ListRouter'
    BY <1>i, <2>1 DEF ListTimer, ListRouter
  <2> QED
    BY <1>6, <1>t, <2>1, <2>2, <2>3
<1>8. ASSUME NEW queued \in BOOLEAN, Listing!HandleToggleUnread(queued) PROVE ListInv'
  <2>1. /\ Listing!Act /\ unreadOnly' = ~unreadOnly /\ listPage' = 1 /\ skip' = TRUE
        /\ Listing!LoadConversations(1, search, unreadOnly', TRUE, TRUE)
        /\ UNCHANGED <<search, hasMore, list, listTimer, url, listSeed, listUnsure>>
    BY <1>8 DEF Listing!HandleToggleUnread
  <2>2. PICK u \in BOOLEAN : u = unreadOnly'
    BY <1>t, <2>1
  <2>3. Listing!LoadConversations(1, search, u, TRUE, TRUE)
    BY <2>1, <2>2
  <2>4. PICK g \in Listing!Filters : navs' = IF queued THEN Append(navs, g) ELSE <<g>>
    <3>1. (IF unreadOnly' THEN "unread" ELSE "all") \in Listing!Filters
      BY DEF Listing!Filters
    <3> QED
      BY <1>8, <3>1, Zenon DEF Listing!HandleToggleUnread
  <2>5. navs' \in Seq(Listing!Filters)
    BY <1>t, <2>4
  <2>6. ListRouter' /\ ListTimer'
    BY <1>i, <1>t, <2>1, <2>5 DEF ListRouter, ListTimer
  <2> QED
    <3>1. 1 \in 1 .. MaxPage /\ TRUE \in BOOLEAN
      OBVIOUS
    <3> QED
      BY <1>6, <1>t, <1>a, <2>1, <2>2, <2>3, <2>6, <3>1, Zenon
<1>9. CASE Listing!SyncFilter
  <2>0. PICK b : b = (skip /\ url' = url)
    OBVIOUS
  <2>1. /\ navs # <<>> /\ navs' = Tail(navs) /\ url' = Head(navs) /\ skip' = b
        /\ UNCHANGED <<search, hasMore, list, listTimer, listSeed, listActs, listUnsure>>
    BY <1>9, <2>0 DEF Listing!SyncFilter
  <2>2. b \in BOOLEAN
    BY <2>0, Zenon
  <2>3. ListRouter'
    BY <1>t, <2>1, <2>2 DEF ListRouter
  <2>4. ListTimer'
    BY <1>i, <2>1 DEF ListTimer
  <2>5. CASE /\ unreadOnly' = TRUE /\ listPage' = 1
             /\ Listing!LoadConversations(1, search, TRUE, TRUE, TRUE)
    <3>1. 1 \in 1 .. MaxPage /\ TRUE \in BOOLEAN
      OBVIOUS
    <3> QED
      BY <1>6, <1>t, <2>1, <2>3, <2>4, <2>5, <3>1, Zenon
  <2>6. CASE UNCHANGED <<unreadOnly, listPage, listLoads, listLoading, loadingMore>>
    <3>1. ListFlags' /\ ListNumbers' /\ ListRows' /\ ListAsks' /\ ListClean' /\ ListRests'
      BY <1>i, <2>1, <2>6 DEF ListFlags, ListNumbers, ListRows, ListAsks, ListClean, ListRests, RowsTo
    <3> QED
      BY <2>3, <2>4, <3>1 DEF ListInv
  <2> QED
    BY <1>9, <2>5, <2>6, Zenon DEF Listing!SyncFilter
<1>10. ASSUME NEW target \in Listing!Filters, Listing!Follow(target) PROVE ListInv'
  <2>1. /\ Listing!Act /\ navs' = <<target>>
        /\ UNCHANGED <<search, unreadOnly, listPage, hasMore, listLoading, loadingMore, list,
                       listTimer, listLoads, url, skip, listSeed, listUnsure>>
    BY <1>10 DEF Listing!Follow
  <2>2. ListNumbers' /\ ListRouter'
    BY <1>t, <1>a, <2>1 DEF ListNumbers, ListRouter
  <2>3. ListFlags' /\ ListRows' /\ ListAsks' /\ ListTimer' /\ ListClean' /\ ListRests'
    BY <1>i, <2>1 DEF ListFlags, ListRows, ListAsks, ListTimer, ListClean, ListRests, RowsTo
  <2> QED
    BY <2>2, <2>3 DEF ListInv
<1>11. CASE Listing!SocketReplaced
  <2>0. PICK c : c = (listPage = 1 /\ ~listTimer.on)
    OBVIOUS
  <2>1. /\ Listing!Act /\ Listing!LoadConversations(1, search, unreadOnly, TRUE, c)
        /\ UNCHANGED <<search, unreadOnly, listPage, hasMore, list, listTimer, url, navs, skip,
                       listSeed, listUnsure>>
    BY <1>11, <2>0 DEF Listing!SocketReplaced, Listing!router
  <2>2. c \in BOOLEAN /\ (c => listPage = 1)
    BY <2>0, Zenon
  <2>3. ListTimer' /\ ListRouter'
    BY <1>i, <2>1 DEF ListTimer, ListRouter
  <2> QED
    BY <1>6, <1>t, <1>a, <2>1, <2>2, <2>3
<1>12. CASE Listing!SeedAnswers
  <2>1. /\ listSeed' = FALSE /\ list' = {[q |-> "empty", unread |-> FALSE, p |-> 0]}
        /\ listUnsure' = TRUE
        /\ UNCHANGED <<search, unreadOnly, listPage, hasMore, listLoading, loadingMore, listTimer,
                       listLoads, url, navs, skip, listActs>>
    BY <1>12 DEF Listing!SeedAnswers, Listing!SeedRows, Listing!Rows, Listing!router
  <2>2. ListRows'
    BY <2>1 DEF ListRows
  <2>3. ListFlags' /\ ListNumbers' /\ ListRouter' /\ ListAsks' /\ ListTimer'
    BY <1>i, <2>1 DEF ListFlags, ListNumbers, ListRouter, ListAsks, ListTimer
  <2>4. ListClean' /\ ListRests'
    BY <1>i, <2>1 DEF ListClean, ListRests
  <2> QED
    BY <2>2, <2>3, <2>4 DEF ListInv
<1>13. CASE Listing!Next
  BY <1>2, <1>3, <1>4, <1>5, <1>7, <1>8, <1>9, <1>10, <1>11, <1>12, <1>13 DEF Listing!Next
<1> QED
  BY <1>1, <1>13

LEMMA ListFits == ListInv => Listing!RowsAreOfTheQuery
BY DEF ListInv, ListRests, Listing!RowsAreOfTheQuery, RowsTo, Listing!Rows

-----------------------------------------------------------------------------
(* The admin's page of trainees.                                           *)

Statuses == {"active", "inactive"}
Stages == {"unused", "asked", "found", "written", "refused", "done"}
AddingAt == {"idle", "checking", "inserting", "conversing", "made", "refused"}
PageLoad == [id : 1 .. MaxTraineeLoads, at : {"asked", "half", "read"}, clean : BOOLEAN,
             users : [Trainees -> Statuses \cup {"absent"}], active : Nat]
ManagedRows ==
  /\ traineeAccount \in [Trainees -> Statuses \cup {"none", "deleted"}]
  /\ conversation \subseteq Trainees
ManagedPage == users \in [Trainees -> Statuses \cup {"absent"}] /\ activeCount \in Int
ManagedFlags ==
  /\ traineeLoading \in BOOLEAN /\ traineeTimer \in BOOLEAN /\ traineeUnsure \in BOOLEAN
  /\ traineeActs \in 0 .. MaxTraineeActs /\ togglingId \in Trainees \cup {"nobody"}
ManagedLoads == traineeLoads \subseteq PageLoad
RunningTap(c) == toggle[c].at \in {"asked", "found", "written", "refused"}
ManagedTaps ==
  /\ toggle \in [Toggles -> [at : Stages, who : Trainees \cup {"nobody"}, to : Statuses]]
  /\ \A c \in Toggles : RunningTap(c) => toggle[c].who \in Trainees
ManagedForm ==
  /\ adding \in [at : AddingAt, who : Trainees \cup {"nobody"}]
  /\ adding.at = "idle" => adding.who = "nobody"
  /\ adding.at # "idle" => adding.who \in Trainees
\* A clean load is alone, and what it has read is still so.
ManagedClean == \A l \in traineeLoads : l.clean =>
  /\ traineeLoads = {l} /\ adding.at = "idle" /\ \A c \in Toggles : ~RunningTap(c)
  /\ l.at # "asked" => l.users = Managing!Listed
  /\ l.at = "read" => l.active = Managing!NumberActive
\* Without a load, a row differs from its account only where a change was made
\* whose answer is on its way: a status that was written, an account added.
TapsFit == \A c \in Toggles : RunningTap(c) =>
  /\ toggle[c].at # "refused" /\ users[toggle[c].who] \in Statuses \ {toggle[c].to}
  /\ traineeAccount[toggle[c].who] =
       IF toggle[c].at = "written" THEN toggle[c].to ELSE users[toggle[c].who]
  /\ \A d \in Toggles : RunningTap(d) /\ toggle[d].who = toggle[c].who => d = c
AddedFits == adding.at \in {"conversing", "made"} =>
  users[adding.who] = "absent" /\ traineeAccount[adding.who] = "active"
RowsFit == \A t \in Trainees :
  \/ users[t] = IF traineeAccount[t] \in Statuses THEN traineeAccount[t] ELSE "absent"
  \/ \E c \in Toggles : toggle[c].at = "written" /\ toggle[c].who = t
  \/ adding.at \in {"conversing", "made"} /\ adding.who = t
CounterFits == activeCount = Cardinality({t \in Trainees : users[t] = "active"})
ManagedRests ==
  traineeLoads = {} /\ ~traineeUnsure => TapsFit /\ AddedFits /\ RowsFit /\ CounterFits
ManagedInv ==
  /\ ManagedRows /\ ManagedPage /\ ManagedFlags /\ ManagedLoads /\ ManagedTaps /\ ManagedForm
  /\ ManagedClean /\ ManagedRests

LEMMA ManagedBounds ==
  /\ MaxTraineeLoads \in Nat \ {0} /\ MaxTraineeActs \in Nat /\ Registered \subseteq Trainees
  /\ IsFiniteSet(Trainees) /\ "nobody" \notin Trainees
BY ServicesAssumption, Zenon DEF ServicesAssumption

LEMMA ManagedNames ==
  /\ Managing!Status = Statuses
  /\ Managing!NoAdding = [at |-> "idle", who |-> "nobody"]
  /\ Managing!NoToggle = [at |-> "unused", who |-> "nobody", to |-> "active"]
  /\ Managing!Lists = [Trainees -> Statuses \cup {"absent"}]
  /\ \A c : Managing!Running(c) <=> RunningTap(c)
  /\ Managing!Listed =
       [t \in Trainees |-> IF traineeAccount[t] \in Statuses THEN traineeAccount[t] ELSE "absent"]
  /\ Managing!NumberActive = Cardinality({t \in Trainees : traineeAccount[t] = "active"})
<1>1. /\ Managing!Status = Statuses
      /\ Managing!NoAdding = [at |-> "idle", who |-> "nobody"]
      /\ Managing!NoToggle = [at |-> "unused", who |-> "nobody", to |-> "active"]
      /\ Managing!Lists = [Trainees -> Statuses \cup {"absent"}]
      /\ \A c : Managing!Running(c) <=> RunningTap(c)
  BY Zenon DEF Managing!Status, Statuses, Managing!NoAdding, Managing!NoToggle, Managing!Nobody,
               Managing!Lists, Managing!Running, RunningTap
<1>2. Managing!Listed =
        [t \in Trainees |-> IF traineeAccount[t] \in Statuses THEN traineeAccount[t] ELSE "absent"]
  BY <1>1 DEF Managing!Listed, Managing!Present
<1>3. \A S : Managing!Cardinality(S) = Cardinality(S)
  BY Zenon DEF Managing!Cardinality, Cardinality
<1>4. Managing!NumberActive = Cardinality({t \in Trainees : traineeAccount[t] = "active"})
  BY <1>3, Zenon DEF Managing!NumberActive
<1> QED
  BY <1>1, <1>2, <1>4

LEMMA ManagedTypes == ManagedInv => Managing!TypeOK
<1> SUFFICES ASSUME ManagedInv PROVE Managing!TypeOK
  OBVIOUS
<1>1. ManagedRows /\ ManagedPage /\ ManagedFlags /\ ManagedLoads /\ ManagedTaps /\ ManagedForm
  BY DEF ManagedInv
<1> QED
  BY <1>1, ManagedNames, Zenon DEF ManagedRows, ManagedPage, ManagedFlags, ManagedLoads, PageLoad,
     ManagedTaps, Stages, ManagedForm, AddingAt, Managing!TypeOK, Managing!Nobody

LEMMA ActiveNumber ==
  ASSUME NEW f
  PROVE  Cardinality({t \in Trainees : f[t] = "active"}) \in Nat
<1>1. IsFiniteSet({t \in Trainees : f[t] = "active"})
  BY ManagedBounds, FS_Subset
<1> QED
  BY <1>1, FS_CardinalityType

\* One status more, or one less.
LEMMA ActiveChanges ==
  ASSUME NEW f \in [Trainees -> Statuses \cup {"absent"}], NEW u \in Trainees,
         NEW s \in Statuses, f[u] \in Statuses \ {s},
         NEW g, g = [f EXCEPT ![u] = s]
  PROVE  Cardinality({t \in Trainees : g[t] = "active"}) =
           IF s = "active" THEN Cardinality({t \in Trainees : f[t] = "active"}) + 1
           ELSE Cardinality({t \in Trainees : f[t] = "active"}) - 1
<1> DEFINE A == {t \in Trainees : f[t] = "active"}
           B == {t \in Trainees : g[t] = "active"}
<1>1. IsFiniteSet(A)
  BY ManagedBounds, FS_Subset
<1>2. CASE s = "active"
  <2>1. B = A \cup {u} /\ u \notin A
    BY <1>2 DEF Statuses
  <2>2. Cardinality(A \cup {u}) = Cardinality(A) + 1
    BY <1>1, <2>1, FS_AddElement
  <2> QED
    BY <1>2, <2>1, <2>2
<1>3. CASE s # "active"
  <2>1. B = A \ {u} /\ u \in A
    BY <1>3 DEF Statuses
  <2>2. Cardinality(A \ {u}) = Cardinality(A) - 1
    BY <1>1, <2>1, FS_RemoveElement
  <2> QED
    BY <1>3, <2>1, <2>2
<1> QED
  BY <1>2, <1>3

LEMMA DisturbingLoads ==
  ASSUME ManagedLoads, traineeLoads' = Managing!Disturbed
  PROVE  /\ ManagedLoads' /\ \A l \in traineeLoads' : ~l.clean
         /\ traineeLoads' = {} => traineeLoads = {}
<1>1. traineeLoads' = {[l EXCEPT !.clean = FALSE] : l \in traineeLoads}
  BY DEF Managing!Disturbed
<1>2. \A l \in traineeLoads : /\ [l EXCEPT !.clean = FALSE] \in PageLoad
                              /\ ~[l EXCEPT !.clean = FALSE].clean
  BY DEF ManagedLoads, PageLoad
<1> QED
  BY <1>1, <1>2 DEF ManagedLoads

LEMMA LoadingUsers ==
  ASSUME ManagedLoads, NEW busy \in BOOLEAN, Managing!LoadUsers(busy)
  PROVE  /\ ManagedLoads' /\ traineeLoads' # {} /\ traineeLoading' = TRUE
         /\ \A l \in traineeLoads' : l.clean =>
              ~busy /\ traineeLoads = {} /\ traineeLoads' = {l} /\ l.at = "asked"
<1> USE ManagedBounds
<1>1. PICK c : c = (~busy /\ traineeLoads = {})
  OBVIOUS
<1>2. c \in BOOLEAN /\ (c => ~busy /\ traineeLoads = {})
  BY <1>1, Zenon
<1>3. PICK S : S = {[l EXCEPT !.clean = FALSE] : l \in traineeLoads}
  OBVIOUS
<1>4. PICK i \in 1 .. MaxTraineeLoads :
        traineeLoads' = S \cup {Managing!Asked(i, c)}
  BY <1>1, <1>3, Zenon DEF Managing!LoadUsers
<1>5. traineeLoading' = TRUE
  BY Zenon DEF Managing!LoadUsers
<1>6. PICK n : n = [id |-> i, at |-> "asked", clean |-> c,
                    users |-> [t \in Trainees |-> "absent"], active |-> 0]
  OBVIOUS
<1>7. Managing!Asked(i, c) = n
  BY <1>6 DEF Managing!Asked
<1>8. n \in PageLoad /\ n.clean = c /\ n.at = "asked"
  BY <1>2, <1>6 DEF PageLoad
<1>9. \A l \in S : l \in PageLoad /\ ~l.clean
  BY <1>3 DEF ManagedLoads, PageLoad
<1>10. ASSUME NEW l \in traineeLoads', l.clean
       PROVE  ~busy /\ traineeLoads = {} /\ traineeLoads' = {l} /\ l.at = "asked"
  <2>1. l = n /\ c
    BY <1>4, <1>7, <1>8, <1>9, <1>10
  <2>2. S = {}
    BY <1>2, <1>3, <2>1
  <2> QED
    BY <1>2, <1>4, <1>7, <1>8, <2>1, <2>2
<1> QED
  BY <1>4, <1>5, <1>7, <1>8, <1>9, <1>10 DEF ManagedLoads

LEMMA InitManaged == Managing!Init => ManagedInv
<1> SUFFICES ASSUME Managing!Init PROVE ManagedInv
  OBVIOUS
<1> USE ManagedBounds
<1>1. /\ traineeAccount = [t \in Trainees |-> IF t \in Registered THEN "active" ELSE "none"]
      /\ conversation = Registered
      /\ users = [t \in Trainees |-> "absent"] /\ activeCount = 0
      /\ traineeLoading = TRUE /\ traineeTimer = TRUE
      /\ traineeLoads = {[id |-> 1, at |-> "asked", clean |-> TRUE,
                          users |-> [t \in Trainees |-> "absent"], active |-> 0]}
      /\ toggle = [c \in Toggles |-> [at |-> "unused", who |-> "nobody", to |-> "active"]]
      /\ togglingId = "nobody" /\ adding = [at |-> "idle", who |-> "nobody"]
      /\ traineeActs = 0 /\ traineeUnsure = FALSE
  BY ManagedNames DEF Managing!Init, Managing!Asked, Managing!Nobody
<1>2. ManagedRows /\ ManagedPage /\ ManagedFlags
  <2>1. ManagedRows
    BY <1>1 DEF ManagedRows, Statuses
  <2>2. ManagedPage
    BY <1>1 DEF ManagedPage, Statuses
  <2>3. ManagedFlags
    <3>1. 0 \in 0 .. MaxTraineeActs /\ TRUE \in BOOLEAN /\ FALSE \in BOOLEAN
      OBVIOUS
    <3> QED
      BY <1>1, <3>1, Zenon DEF ManagedFlags
  <2> QED
    BY <2>1, <2>2, <2>3
<1>3. ManagedTaps
  BY <1>1 DEF ManagedTaps, RunningTap, Stages, Statuses
<1>4. ManagedForm
  BY <1>1 DEF ManagedForm, AddingAt
<1>5. PICK l : l = [id |-> 1, at |-> "asked", clean |-> TRUE,
                    users |-> [t \in Trainees |-> "absent"], active |-> 0]
  OBVIOUS
<1>6. traineeLoads = {l} /\ l \in PageLoad /\ l.at = "asked"
  BY <1>1, <1>5 DEF PageLoad, Statuses
<1>7. ManagedLoads /\ ManagedClean
  BY <1>1, <1>6 DEF ManagedLoads, ManagedClean, RunningTap
<1>8. ManagedRests
  BY <1>6 DEF ManagedRests
<1> QED
  BY <1>2, <1>3, <1>4, <1>7, <1>8 DEF ManagedInv

LEMMA NextManaged == ManagedInv /\ [Managing!Next]_traineeVars => ManagedInv'
<1> SUFFICES ASSUME ManagedInv, [Managing!Next]_traineeVars PROVE ManagedInv'
  OBVIOUS
<1> USE ManagedBounds
<1>i. /\ ManagedRows /\ ManagedPage /\ ManagedFlags /\ ManagedLoads /\ ManagedTaps /\ ManagedForm
      /\ ManagedClean /\ ManagedRests
  BY DEF ManagedInv
<1>t. /\ traineeAccount \in [Trainees -> Statuses \cup {"none", "deleted"}]
      /\ users \in [Trainees -> Statuses \cup {"absent"}] /\ activeCount \in Int
      /\ toggle \in [Toggles -> [at : Stages, who : Trainees \cup {"nobody"}, to : Statuses]]
      /\ adding \in [at : AddingAt, who : Trainees \cup {"nobody"}]
      /\ adding.at # "idle" => adding.who \in Trainees
      /\ \A c \in Toggles : RunningTap(c) => toggle[c].who \in Trainees
  BY <1>i DEF ManagedRows, ManagedPage, ManagedTaps, ManagedForm
<1>q. Managing!Quiet => /\ traineeLoads = {} /\ adding.at = "idle"
                        /\ \A c \in Toggles : ~RunningTap(c)
  BY ManagedNames DEF Managing!Quiet
<1>a. Managing!Act => traineeActs' \in 0 .. MaxTraineeActs
  BY <1>i DEF ManagedFlags, Managing!Act
\* What depends on the accounts alone.
<1>l. UNCHANGED traineeAccount =>
        Managing!Listed' = Managing!Listed /\ Managing!NumberActive' = Managing!NumberActive
  BY DEF Managing!Listed, Managing!Present, Managing!NumberActive
<1>r. \A c : toggle' = toggle => RunningTap(c)' = RunningTap(c)
  BY DEF RunningTap
<1>1. CASE UNCHANGED traineeVars
  <2>1. UNCHANGED <<traineeAccount, conversation, users, activeCount, traineeLoading,
                    traineeTimer, traineeLoads, toggle, togglingId, adding, traineeActs,
                    traineeUnsure>>
    BY <1>1 DEF traineeVars
  <2>2. ManagedClean'
    BY <1>i, <1>l, <1>r, <2>1 DEF ManagedClean
  <2>3. ManagedRests'
    BY <1>i, <1>r, <2>1 DEF ManagedRests, TapsFit, AddedFits, RowsFit, CounterFits
  <2>4. /\ ManagedRows' /\ ManagedPage' /\ ManagedFlags' /\ ManagedLoads' /\ ManagedTaps'
        /\ ManagedForm'
    BY <1>i, <1>r, <2>1 DEF ManagedRows, ManagedPage, ManagedFlags, ManagedLoads, ManagedTaps,
                            ManagedForm
  <2> QED
    BY <2>2, <2>3, <2>4 DEF ManagedInv
<1>2. ASSUME NEW l \in traineeLoads, Managing!Read(l) PROVE ManagedInv'
  <2>1. PICK r : r = IF l.at = "asked" THEN [l EXCEPT !.at = "half", !.users = Managing!Listed]
                     ELSE [l EXCEPT !.at = "read", !.active = Managing!NumberActive]
    OBVIOUS
  <2>2. /\ l.at # "read" /\ traineeLoads' = (traineeLoads \ {l}) \cup {r}
        /\ UNCHANGED <<traineeAccount, conversation, users, activeCount, traineeLoading,
                       traineeTimer, toggle, togglingId, adding, traineeActs, traineeUnsure>>
    BY <1>2, <2>1, Zenon DEF Managing!Read
  <2>3. Managing!Listed \in [Trainees -> Statuses \cup {"absent"}] /\ Managing!NumberActive \in Nat
    <3>1. Managing!Listed \in [Trainees -> Statuses \cup {"absent"}]
      BY ManagedNames, <1>t
    <3> QED
      BY <3>1, ManagedNames, ActiveNumber
  <2>4. l \in PageLoad
    BY <1>i DEF ManagedLoads
  <2>5. /\ r \in PageLoad /\ r.clean = l.clean
        /\ r.users = IF l.at = "asked" THEN Managing!Listed ELSE l.users
        /\ r.at = "read" => l.at # "asked" /\ r.active = Managing!NumberActive
    BY <2>1, <2>3, <2>4 DEF PageLoad
  <2>6. ManagedLoads'
    BY <1>i, <2>2, <2>5 DEF ManagedLoads
  <2>7. ManagedClean'
    <3> SUFFICES ASSUME NEW k \in traineeLoads', k.clean
                 PROVE  /\ traineeLoads' = {k} /\ adding.at = "idle"
                        /\ \A c \in Toggles : ~RunningTap(c)
                        /\ k.at # "asked" => k.users = Managing!Listed
                        /\ k.at = "read" => k.active = Managing!NumberActive
      BY <1>l, <1>r, <2>2 DEF ManagedClean
    <3>1. k = r /\ l.clean
      BY <1>i, <2>2, <2>5 DEF ManagedClean
    <3>2. /\ traineeLoads = {l} /\ adding.at = "idle" /\ \A c \in Toggles : ~RunningTap(c)
          /\ l.at # "asked" => l.users = Managing!Listed
      BY <1>i, <3>1 DEF ManagedClean
    <3> QED
      BY <2>2, <2>5, <3>1, <3>2
  <2>8. ManagedRests'
    BY <2>2 DEF ManagedRests
  <2>9. ManagedRows' /\ ManagedPage' /\ ManagedFlags' /\ ManagedTaps' /\ ManagedForm'
    BY <1>i, <1>r, <2>2 DEF ManagedRows, ManagedPage, ManagedFlags, ManagedTaps, ManagedForm
  <2> QED
    BY <2>6, <2>7, <2>8, <2>9 DEF ManagedInv
<1>3. ASSUME NEW l \in traineeLoads, NEW ok \in BOOLEAN, Managing!LoadEnds(l, ok) PROVE ManagedInv'
  <2>1. /\ ok => l.at = "read"
        /\ traineeLoads' = traineeLoads \ {l} /\ traineeLoading' = FALSE
        /\ users' = (IF ok THEN l.users ELSE users)
        /\ activeCount' = (IF ok THEN l.active ELSE activeCount)
        /\ traineeUnsure' = ~(ok /\ l.clean)
        /\ UNCHANGED <<traineeAccount, conversation, traineeTimer, toggle, togglingId, adding,
                       traineeActs>>
    BY <1>3, Zenon DEF Managing!LoadEnds
  <2>2. /\ l.clean \in BOOLEAN /\ l.users \in [Trainees -> Statuses \cup {"absent"}]
        /\ l.active \in Nat
    BY <1>i DEF ManagedLoads, PageLoad
  <2>3. ManagedPage'
    BY <1>t, <2>1, <2>2 DEF ManagedPage
  <2>4. ManagedFlags'
    <3>1. traineeUnsure' \in BOOLEAN
      BY <2>1, Zenon
    <3> QED
      BY <1>i, <2>1, <3>1 DEF ManagedFlags
  <2>5. ManagedClean'
    <3>1. \A k \in traineeLoads' : ~k.clean
      BY <1>i, <2>1 DEF ManagedClean
    <3> QED
      BY <3>1 DEF ManagedClean
  <2>6. ManagedRests'
    <3>1. CASE ok /\ l.clean
      <4>1. /\ adding.at = "idle" /\ \A c \in Toggles : ~RunningTap(c)
            /\ users' = Managing!Listed /\ activeCount' = Managing!NumberActive
        BY <1>i, <2>1, <3>1 DEF ManagedClean
      <4>2. TapsFit' /\ AddedFits'
        BY <1>r, <2>1, <4>1 DEF TapsFit, AddedFits
      <4>3. RowsFit'
        BY <2>1, <4>1, ManagedNames DEF RowsFit
      <4>4. {t \in Trainees : users'[t] = "active"} = {t \in Trainees : traineeAccount[t] = "active"}
        BY <4>1, <1>t, ManagedNames DEF Statuses
      <4>5. CounterFits'
        BY <4>1, <4>4, ManagedNames DEF CounterFits
      <4> QED
        BY <4>2, <4>3, <4>5 DEF ManagedRests
    <3>2. CASE ~(ok /\ l.clean)
      BY <2>1, <3>2 DEF ManagedRests
    <3> QED
      BY <3>1, <3>2
  <2>7. ManagedRows' /\ ManagedLoads' /\ ManagedTaps' /\ ManagedForm'
    BY <1>i, <1>r, <2>1 DEF ManagedRows, ManagedLoads, ManagedTaps, ManagedForm
  <2> QED
    BY <2>3, <2>4, <2>5, <2>6, <2>7 DEF ManagedInv
<1>4. CASE Managing!Search
  <2>1. /\ Managing!Act /\ traineeTimer' = TRUE
        /\ UNCHANGED <<traineeAccount, conversation, users, activeCount, traineeLoading,
                       traineeLoads, toggle, togglingId, adding, traineeUnsure>>
    BY <1>4 DEF Managing!Search
  <2>2. ManagedClean'
    BY <1>i, <1>l, <1>r, <2>1 DEF ManagedClean
  <2>3. ManagedRests'
    BY <1>i, <1>r, <2>1 DEF ManagedRests, TapsFit, AddedFits, RowsFit, CounterFits
  <2>4. ManagedFlags'
    BY <1>i, <1>a, <2>1 DEF ManagedFlags
  <2>5. ManagedRows' /\ ManagedPage' /\ ManagedLoads' /\ ManagedTaps' /\ ManagedForm'
    BY <1>i, <1>r, <2>1 DEF ManagedRows, ManagedPage, ManagedLoads, ManagedTaps, ManagedForm
  <2> QED
    BY <2>2, <2>3, <2>4, <2>5 DEF ManagedInv
\* Where the list is asked for, nothing is claimed until it is there.
<1>5. ASSUME NEW busy \in BOOLEAN, Managing!LoadUsers(busy),
             ~busy /\ traineeLoads = {} => adding'.at = "idle" /\ \A c \in Toggles : ~RunningTap(c),
             traineeTimer' \in BOOLEAN, traineeActs' \in 0 .. MaxTraineeActs, ManagedForm',
             UNCHANGED <<traineeAccount, conversation, users, activeCount, toggle, togglingId,
                         traineeUnsure>>
      PROVE  ManagedInv'
  <2>1. /\ ManagedLoads' /\ traineeLoads' # {} /\ traineeLoading' = TRUE
        /\ \A l \in traineeLoads' : l.clean =>
             ~busy /\ traineeLoads = {} /\ traineeLoads' = {l} /\ l.at = "asked"
    BY <1>i, <1>5, LoadingUsers
  <2>2. ManagedClean'
    BY <1>5, <1>r, <2>1 DEF ManagedClean
  <2>3. ManagedRests'
    BY <2>1 DEF ManagedRests
  <2>4. ManagedFlags'
    BY <1>i, <1>5, <2>1 DEF ManagedFlags
  <2>5. ManagedRows' /\ ManagedPage' /\ ManagedTaps'
    BY <1>i, <1>r, <1>5 DEF ManagedRows, ManagedPage, ManagedTaps
  <2> QED
    BY <1>5, <2>1, <2>2, <2>3, <2>4, <2>5 DEF ManagedInv
<1>6. CASE Managing!TimerFires
  <2>0. PICK busy : busy = (~Managing!Quiet)
    OBVIOUS
  <2>1. busy \in BOOLEAN /\ (~busy => Managing!Quiet)
    BY <2>0, Zenon
  <2>2. /\ traineeTimer' = FALSE /\ Managing!LoadUsers(busy)
        /\ UNCHANGED <<traineeAccount, conversation, users, activeCount, toggle, togglingId,
                       adding, traineeActs, traineeUnsure>>
    BY <1>6, <2>0 DEF Managing!TimerFires
  <2>3. ManagedForm' /\ traineeTimer' \in BOOLEAN /\ traineeActs' \in 0 .. MaxTraineeActs
    BY <1>i, <2>2 DEF ManagedForm, ManagedFlags
  <2> QED
    BY <1>5, <1>q, <2>1, <2>2, <2>3
<1>7. CASE Managing!SaveEdit
  <2>0. PICK busy : busy = (~Managing!Quiet)
    OBVIOUS
  <2>1. busy \in BOOLEAN /\ (~busy => Managing!Quiet)
    BY <2>0, Zenon
  <2>2. /\ Managing!Act /\ Managing!LoadUsers(busy)
        /\ UNCHANGED <<traineeAccount, conversation, users, activeCount, traineeTimer, toggle,
                       togglingId, adding, traineeUnsure>>
    BY <1>7, <2>0 DEF Managing!SaveEdit
  <2>3. ManagedForm' /\ traineeTimer' \in BOOLEAN
    BY <1>i, <2>2 DEF ManagedForm, ManagedFlags
  <2> QED
    BY <1>5, <1>a, <1>q, <2>1, <2>2, <2>3
<1>8. ASSUME NEW c \in Toggles, NEW t \in Trainees, Managing!HandleToggleStatus(c, t)
      PROVE  ManagedInv'
  <2>0. PICK r : r = [at |-> "asked", who |-> t,
                      to |-> IF users[t] = "active" THEN "inactive" ELSE "active"]
    OBVIOUS
  <2>1. PICK b : b = (\E d \in Toggles : RunningTap(d) /\ toggle[d].who = t)
    OBVIOUS
  <2>2. /\ toggle[c].at = "unused" /\ users[t] # "absent"
        /\ toggle' = [toggle EXCEPT ![c] = r] /\ togglingId' = t
        /\ traineeUnsure' = (traineeUnsure \/ b)
        /\ traineeLoads' = Managing!Disturbed
        /\ UNCHANGED <<traineeAccount, conversation, users, activeCount, traineeLoading,
                       traineeTimer, adding, traineeActs>>
    BY <1>8, <2>0, <2>1, ManagedNames, Zenon DEF Managing!HandleToggleStatus
  <2>3. /\ ManagedLoads' /\ \A l \in traineeLoads' : ~l.clean
        /\ traineeLoads' = {} => traineeLoads = {}
    BY <1>i, <2>2, DisturbingLoads
  <2>4. /\ r \in [at : Stages, who : Trainees \cup {"nobody"}, to : Statuses]
        /\ r.at = "asked" /\ r.who = t /\ users[t] \in Statuses \ {r.to}
    BY <1>t, <2>0, <2>2 DEF Stages, Statuses
  <2>5. /\ toggle'[c] = r /\ \A d \in Toggles \ {c} : toggle'[d] = toggle[d]
        /\ toggle' \in [Toggles -> [at : Stages, who : Trainees \cup {"nobody"}, to : Statuses]]
    BY <1>t, <2>2, <2>4
  <2>6. /\ \A d \in Toggles \ {c} : RunningTap(d)' = RunningTap(d)
        /\ RunningTap(c)' /\ ~RunningTap(c)
    BY <2>2, <2>4, <2>5 DEF RunningTap
  <2>7. ManagedTaps'
    BY <1>t, <2>4, <2>5, <2>6 DEF ManagedTaps
  <2>8. ManagedFlags'
    <3>1. traineeUnsure' \in BOOLEAN
      BY <2>2, Zenon
    <3> QED
      BY <1>i, <2>2, <3>1 DEF ManagedFlags
  <2>9. ManagedClean'
    BY <2>3 DEF ManagedClean
  <2>10. ManagedRests'
    <3> SUFFICES ASSUME traineeLoads' = {}, ~traineeUnsure'
                 PROVE  TapsFit' /\ AddedFits' /\ RowsFit' /\ CounterFits'
      BY DEF ManagedRests
    <3>1. TapsFit /\ AddedFits /\ RowsFit /\ CounterFits /\ ~b
      BY <1>i, <2>2, <2>3 DEF ManagedRests
    <3>2. \A d \in Toggles : RunningTap(d) => toggle[d].who # t
      BY <2>1, <3>1
    <3>3. users[t] = traineeAccount[t]
      <4>1. \A d \in Toggles : toggle[d].at = "written" => toggle[d].who # t
        BY <3>2 DEF RunningTap
      <4>2. ~(adding.at \in {"conversing", "made"} /\ adding.who = t)
        BY <2>2, <3>1 DEF AddedFits
      <4>3. users[t] = IF traineeAccount[t] \in Statuses THEN traineeAccount[t] ELSE "absent"
        BY <3>1, <4>1, <4>2 DEF RowsFit
      <4> QED
        BY <2>2, <4>3
    <3>4. TapsFit'
      <4> SUFFICES ASSUME NEW d \in Toggles, RunningTap(d)'
                   PROVE  /\ toggle'[d].at # "refused"
                          /\ users[toggle'[d].who] \in Statuses \ {toggle'[d].to}
                          /\ traineeAccount[toggle'[d].who] =
                               IF toggle'[d].at = "written" THEN toggle'[d].to
                               ELSE users[toggle'[d].who]
                          /\ \A e \in Toggles : RunningTap(e)' /\ toggle'[e].who = toggle'[d].who
                               => e = d
        BY <2>2 DEF TapsFit
      <4>1. CASE d = c
        BY <2>4, <2>5, <2>6, <3>2, <3>3, <4>1
      <4>2. CASE d # c
        BY <2>4, <2>5, <2>6, <3>1, <3>2, <4>2 DEF TapsFit
      <4> QED
        BY <4>1, <4>2
    <3>5. AddedFits' /\ CounterFits'
      BY <2>2, <3>1 DEF AddedFits, CounterFits
    <3>6. RowsFit'
      BY <2>2, <2>5, <3>1 DEF RowsFit
    <3> QED
      BY <3>4, <3>5, <3>6
  <2>11. ManagedRows' /\ ManagedPage' /\ ManagedForm'
    BY <1>i, <2>2 DEF ManagedRows, ManagedPage, ManagedForm
  <2> QED
    BY <2>3, <2>7, <2>8, <2>9, <2>10, <2>11 DEF ManagedInv
<1>9. ASSUME NEW c \in Toggles, Managing!FindForStatus(c) PROVE ManagedInv'
  <2>0. PICK r : r = [toggle[c] EXCEPT !.at = IF traineeAccount[toggle[c].who] \in Statuses
                                               THEN "found" ELSE "refused"]
    OBVIOUS
  <2>1. /\ toggle[c].at = "asked" /\ toggle' = [toggle EXCEPT ![c] = r]
        /\ UNCHANGED <<traineeAccount, conversation, users, activeCount, traineeLoading,
                       traineeTimer, traineeLoads, togglingId, adding, traineeActs,
                       traineeUnsure>>
    <3>1. toggle' = [toggle EXCEPT ![c].at = IF traineeAccount[toggle[c].who] \in Statuses
                                             THEN "found" ELSE "refused"]
      BY <1>9, ManagedNames, Zenon DEF Managing!FindForStatus
    <3>2. toggle' = [toggle EXCEPT ![c] = r]
      BY <1>t, <2>0, <3>1
    <3> QED
      BY <1>9, <3>2 DEF Managing!FindForStatus
  <2>2. /\ r \in [at : Stages, who : Trainees \cup {"nobody"}, to : Statuses]
        /\ r.who = toggle[c].who /\ r.to = toggle[c].to
        /\ r.at = IF traineeAccount[toggle[c].who] \in Statuses THEN "found" ELSE "refused"
    BY <1>t, <2>0 DEF Stages
  <2>3. /\ toggle'[c] = r /\ \A d \in Toggles \ {c} : toggle'[d] = toggle[d]
        /\ toggle' \in [Toggles -> [at : Stages, who : Trainees \cup {"nobody"}, to : Statuses]]
    BY <1>t, <2>1, <2>2
  <2>4. \A d \in Toggles : (RunningTap(d)' <=> RunningTap(d)) /\ toggle'[d].who = toggle[d].who
    BY <2>1, <2>2, <2>3 DEF RunningTap
  <2>5. RunningTap(c)
    BY <2>1 DEF RunningTap
  <2>6. ManagedTaps'
    BY <1>t, <2>3, <2>4 DEF ManagedTaps
  <2>7. ManagedClean'
    BY <1>i, <2>1, <2>5 DEF ManagedClean
  <2>8. ManagedRests'
    <3> SUFFICES ASSUME traineeLoads' = {}, ~traineeUnsure'
                 PROVE  TapsFit' /\ AddedFits' /\ RowsFit' /\ CounterFits'
      BY DEF ManagedRests
    <3>1. TapsFit /\ AddedFits /\ RowsFit /\ CounterFits
      BY <1>i, <2>1 DEF ManagedRests
    <3>2. /\ users[toggle[c].who] \in Statuses \ {toggle[c].to}
          /\ traineeAccount[toggle[c].who] = users[toggle[c].who]
      BY <2>1, <2>5, <3>1 DEF TapsFit
    <3>3. r.at = "found"
      BY <2>2, <3>2
    <3>4. TapsFit'
      <4> SUFFICES ASSUME NEW d \in Toggles, RunningTap(d)'
                   PROVE  /\ toggle'[d].at # "refused"
                          /\ users[toggle'[d].who] \in Statuses \ {toggle'[d].to}
                          /\ traineeAccount[toggle'[d].who] =
                               IF toggle'[d].at = "written" THEN toggle'[d].to
                               ELSE users[toggle'[d].who]
                          /\ \A e \in Toggles : RunningTap(e)' /\ toggle'[e].who = toggle'[d].who
                               => e = d
        BY <2>1 DEF TapsFit
      <4>1. \A e \in Toggles : RunningTap(e)' /\ toggle'[e].who = toggle'[d].who => e = d
        BY <2>4, <3>1 DEF TapsFit
      <4>2. CASE d = c
        BY <2>2, <2>3, <3>2, <3>3, <4>1, <4>2
      <4>3. CASE d # c
        BY <2>3, <2>4, <3>1, <4>1, <4>3 DEF TapsFit
      <4> QED
        BY <4>2, <4>3
    <3>5. AddedFits' /\ CounterFits'
      BY <2>1, <3>1 DEF AddedFits, CounterFits
    <3>6. RowsFit'
      BY <2>1, <2>3, <3>1 DEF RowsFit
    <3> QED
      BY <3>4, <3>5, <3>6
  <2>9. ManagedRows' /\ ManagedPage' /\ ManagedFlags' /\ ManagedLoads' /\ ManagedForm'
    BY <1>i, <2>1 DEF ManagedRows, ManagedPage, ManagedFlags, ManagedLoads, ManagedForm
  <2> QED
    BY <2>6, <2>7, <2>8, <2>9 DEF ManagedInv
<1>10. ASSUME NEW c \in Toggles, Managing!SetActiveStatus(c) PROVE ManagedInv'
  <2>0. PICK r : r = [toggle[c] EXCEPT !.at = "written"]
    OBVIOUS
  <2>1. PICK u : u = toggle[c].who
    OBVIOUS
  <2>2. PICK s : s = IF traineeAccount[u] = "deleted" THEN traineeAccount[u] ELSE toggle[c].to
    OBVIOUS
  <2>3. /\ toggle[c].at = "found" /\ toggle' = [toggle EXCEPT ![c] = r]
        /\ traineeAccount' = [traineeAccount EXCEPT ![u] = s]
        /\ UNCHANGED <<conversation, users, activeCount, traineeLoading, traineeTimer,
                       traineeLoads, togglingId, adding, traineeActs, traineeUnsure>>
    <3>1. /\ toggle' = [toggle EXCEPT ![c].at = "written"]
          /\ traineeAccount' = [traineeAccount EXCEPT ![u] =
                                  IF @ = "deleted" THEN @ ELSE toggle[c].to]
      BY <1>10, <2>1 DEF Managing!SetActiveStatus
    <3>2. toggle' = [toggle EXCEPT ![c] = r]
      BY <1>t, <2>0, <3>1
    <3>3. traineeAccount' = [traineeAccount EXCEPT ![u] = s]
      BY <1>t, <2>2, <3>1
    <3> QED
      BY <1>10, <3>2, <3>3 DEF Managing!SetActiveStatus
  <2>4. RunningTap(c) /\ u \in Trainees
    BY <1>t, <2>1, <2>3 DEF RunningTap
  <2>5. /\ r \in [at : Stages, who : Trainees \cup {"nobody"}, to : Statuses]
        /\ r.who = u /\ r.to = toggle[c].to /\ r.to \in Statuses /\ r.at = "written"
    BY <1>t, <2>0, <2>1 DEF Stages
  <2>6. /\ toggle'[c] = r /\ \A d \in Toggles \ {c} : toggle'[d] = toggle[d]
        /\ toggle' \in [Toggles -> [at : Stages, who : Trainees \cup {"nobody"}, to : Statuses]]
    BY <1>t, <2>3, <2>5
  <2>7. \A d \in Toggles : (RunningTap(d)' <=> RunningTap(d)) /\ toggle'[d].who = toggle[d].who
    BY <2>1, <2>3, <2>5, <2>6 DEF RunningTap
  <2>8. /\ ManagedRows'
        /\ traineeAccount'[u] = s /\ \A t \in Trainees \ {u} : traineeAccount'[t] = traineeAccount[t]
    BY <1>i, <1>t, <2>2, <2>3, <2>4, <2>5 DEF ManagedRows
  <2>9. ManagedTaps'
    BY <1>t, <2>6, <2>7 DEF ManagedTaps
  <2>10. ManagedClean'
    BY <1>i, <2>3, <2>4 DEF ManagedClean
  <2>11. ManagedRests'
    <3> SUFFICES ASSUME traineeLoads' = {}, ~traineeUnsure'
                 PROVE  TapsFit' /\ AddedFits' /\ RowsFit' /\ CounterFits'
      BY DEF ManagedRests
    <3>1. TapsFit /\ AddedFits /\ RowsFit /\ CounterFits
      BY <1>i, <2>3 DEF ManagedRests
    <3>2. /\ users[u] \in Statuses \ {r.to} /\ traineeAccount[u] = users[u]
          /\ \A d \in Toggles : RunningTap(d) /\ toggle[d].who = u => d = c
      BY <2>1, <2>3, <2>4, <2>5, <3>1 DEF TapsFit
    <3>3. s = r.to
      BY <2>2, <2>5, <3>2 DEF Statuses
    <3>4. TapsFit'
      <4> SUFFICES ASSUME NEW d \in Toggles, RunningTap(d)'
                   PROVE  /\ toggle'[d].at # "refused"
                          /\ users[toggle'[d].who] \in Statuses \ {toggle'[d].to}
                          /\ traineeAccount'[toggle'[d].who] =
                               IF toggle'[d].at = "written" THEN toggle'[d].to
                               ELSE users[toggle'[d].who]
                          /\ \A e \in Toggles : RunningTap(e)' /\ toggle'[e].who = toggle'[d].who
                               => e = d
        BY <2>3 DEF TapsFit
      <4>1. \A e \in Toggles : RunningTap(e)' /\ toggle'[e].who = toggle'[d].who => e = d
        BY <2>7, <3>1 DEF TapsFit
      <4>2. CASE d = c
        BY <2>5, <2>6, <2>8, <3>2, <3>3, <4>1, <4>2
      <4>3. CASE d # c
        <5>1. RunningTap(d) /\ toggle'[d] = toggle[d] /\ toggle[d].who \in Trainees \ {u}
          BY <1>t, <2>6, <2>7, <3>2, <4>3
        <5>2. traineeAccount'[toggle[d].who] = traineeAccount[toggle[d].who]
          BY <2>8, <5>1
        <5> QED
          BY <3>1, <4>1, <5>1, <5>2 DEF TapsFit
      <4> QED
        BY <4>2, <4>3
    <3>5. AddedFits'
      <4> SUFFICES ASSUME adding.at \in {"conversing", "made"}
                   PROVE  users[adding.who] = "absent" /\ traineeAccount'[adding.who] = "active"
        BY <2>3 DEF AddedFits
      <4>1. users[adding.who] = "absent" /\ traineeAccount[adding.who] = "active"
        BY <3>1 DEF AddedFits
      <4>2. adding.who \in Trainees \ {u}
        BY <1>t, <3>2, <4>1 DEF Statuses
      <4> QED
        BY <2>8, <4>1, <4>2
    <3>6. CounterFits'
      BY <2>3, <3>1 DEF CounterFits
    <3>7. RowsFit'
      <4> SUFFICES ASSUME NEW t \in Trainees
                   PROVE  \/ users[t] = IF traineeAccount'[t] \in Statuses THEN traineeAccount'[t]
                                         ELSE "absent"
                          \/ \E d \in Toggles : toggle'[d].at = "written" /\ toggle'[d].who = t
                          \/ adding.at \in {"conversing", "made"} /\ adding.who = t
        BY <2>3 DEF RowsFit
      <4>1. CASE t = u
        BY <2>5, <2>6, <4>1
      <4>2. CASE t # u
        <5>1. traineeAccount'[t] = traineeAccount[t]
          BY <2>8, <4>2
        <5>2. \A d \in Toggles : toggle[d].at = "written" => toggle'[d] = toggle[d]
          BY <2>3, <2>6
        <5> QED
          BY <3>1, <5>1, <5>2 DEF RowsFit
      <4> QED
        BY <4>1, <4>2
    <3> QED
      BY <3>4, <3>5, <3>6, <3>7
  <2>12. ManagedPage' /\ ManagedFlags' /\ ManagedLoads' /\ ManagedForm'
    BY <1>i, <2>3 DEF ManagedPage, ManagedFlags, ManagedLoads, ManagedForm
  <2> QED
    BY <2>8, <2>9, <2>10, <2>11, <2>12 DEF ManagedInv
<1>11. ASSUME NEW c \in Toggles, NEW ok \in BOOLEAN, Managing!ToggleEnds(c, ok) PROVE ManagedInv'
  <2>0. PICK r : r = [toggle[c] EXCEPT !.at = "done"]
    OBVIOUS
  <2>1. PICK u : u = toggle[c].who
    OBVIOUS
  <2>2. PICK s : s = toggle[c].to
    OBVIOUS
  <2>3. RunningTap(c) /\ u \in Trainees /\ s \in Statuses
    BY <1>11, <1>t, <2>1, <2>2, ManagedNames DEF Managing!ToggleEnds
  <2>4. /\ ok => toggle[c].at = "written"
        /\ toggle' = [toggle EXCEPT ![c] = r] /\ togglingId' = "nobody"
        /\ traineeLoads' = Managing!Disturbed
        /\ UNCHANGED <<traineeAccount, conversation, traineeLoading, traineeTimer, adding,
                       traineeActs>>
    <3>1. toggle' = [toggle EXCEPT ![c].at = "done"]
      BY <1>11, Zenon DEF Managing!ToggleEnds
    <3>2. toggle' = [toggle EXCEPT ![c] = r]
      BY <1>t, <2>0, <3>1
    <3> QED
      BY <1>11, <3>2, Zenon DEF Managing!ToggleEnds, Managing!Nobody
  <2>5. ok => /\ users' = [users EXCEPT ![u] = IF users[u] = "absent" THEN users[u] ELSE s]
              /\ activeCount' = (IF s = "active" THEN activeCount + 1 ELSE activeCount - 1)
              /\ traineeUnsure' = traineeUnsure
    <3> SUFFICES ASSUME ok
                 PROVE  /\ users' = [users EXCEPT ![u] = IF users[u] = "absent" THEN users[u] ELSE s]
                        /\ activeCount' = (IF s = "active" THEN activeCount + 1
                                           ELSE activeCount - 1)
                        /\ traineeUnsure' = traineeUnsure
      OBVIOUS
    <3>1. /\ users' = [users EXCEPT ![u] = IF @ = "absent" THEN @ ELSE s]
          /\ activeCount' = (IF s = "active" THEN activeCount + 1 ELSE activeCount - 1)
          /\ traineeUnsure' = traineeUnsure
      BY <1>11, <2>1, <2>2, Zenon DEF Managing!ToggleEnds
    <3> QED
      BY <1>t, <3>1
  <2>6. PICK b : b = (toggle[c].at # "refused")
    OBVIOUS
  <2>7. ~ok => users' = users /\ activeCount' = activeCount /\ traineeUnsure' = (traineeUnsure \/ b)
    BY <1>11, <2>6, Zenon DEF Managing!ToggleEnds
  <2>8. /\ ManagedLoads' /\ \A l \in traineeLoads' : ~l.clean
        /\ traineeLoads' = {} => traineeLoads = {}
    BY <1>i, <2>4, DisturbingLoads
  <2>9. /\ r \in [at : Stages, who : Trainees \cup {"nobody"}, to : Statuses]
        /\ r.at = "done"
    BY <1>t, <2>0 DEF Stages
  <2>10. /\ toggle'[c] = r /\ \A d \in Toggles \ {c} : toggle'[d] = toggle[d]
         /\ toggle' \in [Toggles -> [at : Stages, who : Trainees \cup {"nobody"}, to : Statuses]]
    BY <1>t, <2>4, <2>9
  <2>11. \A d \in Toggles : RunningTap(d)' => d # c /\ RunningTap(d) /\ toggle'[d] = toggle[d]
    BY <2>9, <2>10 DEF RunningTap
  <2>12. ManagedTaps'
    BY <1>t, <2>10, <2>11 DEF ManagedTaps
  <2>13. ManagedPage'
    <3>1. CASE ok
      BY <1>t, <2>3, <2>5, <3>1 DEF ManagedPage
    <3>2. CASE ~ok
      BY <1>t, <2>7, <3>2 DEF ManagedPage
    <3> QED
      BY <3>1, <3>2
  <2>14. ManagedFlags'
    <3>1. traineeUnsure' \in BOOLEAN
      BY <1>i, <2>5, <2>7, Zenon DEF ManagedFlags
    <3> QED
      BY <1>i, <2>4, <3>1 DEF ManagedFlags
  <2>15. ManagedClean'
    BY <2>8 DEF ManagedClean
  <2>16. ManagedRests'
    <3> SUFFICES ASSUME traineeLoads' = {}, ~traineeUnsure'
                 PROVE  TapsFit' /\ AddedFits' /\ RowsFit' /\ CounterFits'
      BY DEF ManagedRests
    <3>1. TapsFit /\ AddedFits /\ RowsFit /\ CounterFits
      BY <1>i, <2>5, <2>7, <2>8 DEF ManagedRests
    <3>2. ok
      <4>1. toggle[c].at # "refused"
        BY <2>3, <3>1 DEF TapsFit
      <4> QED
        BY <2>6, <2>7, <4>1
    <3>3. /\ users[u] \in Statuses \ {s} /\ traineeAccount[u] = s
          /\ \A d \in Toggles : RunningTap(d) /\ toggle[d].who = u => d = c
      BY <2>1, <2>2, <2>3, <2>4, <3>1, <3>2 DEF TapsFit
    <3>4. users' = [users EXCEPT ![u] = s] /\ users'[u] = s
          /\ \A t \in Trainees \ {u} : users'[t] = users[t]
      <4>1. users[u] # "absent"
        BY <3>3 DEF Statuses
      <4> QED
        BY <1>t, <2>3, <2>5, <3>2, <4>1
    <3>5. TapsFit'
      <4> SUFFICES ASSUME NEW d \in Toggles, RunningTap(d)'
                   PROVE  /\ toggle'[d].at # "refused"
                          /\ users'[toggle'[d].who] \in Statuses \ {toggle'[d].to}
                          /\ traineeAccount[toggle'[d].who] =
                               IF toggle'[d].at = "written" THEN toggle'[d].to
                               ELSE users'[toggle'[d].who]
                          /\ \A e \in Toggles : RunningTap(e)' /\ toggle'[e].who = toggle'[d].who
                               => e = d
        BY <2>4 DEF TapsFit
      <4>1. RunningTap(d) /\ toggle'[d] = toggle[d] /\ d # c
        BY <2>11
      <4>2. toggle[d].who \in Trainees \ {u}
        BY <1>t, <3>3, <4>1
      <4>3. users'[toggle[d].who] = users[toggle[d].who]
        BY <3>4, <4>2
      <4>4. \A e \in Toggles : RunningTap(e)' /\ toggle'[e].who = toggle'[d].who => e = d
        BY <2>11, <3>1, <4>1 DEF TapsFit
      <4> QED
        BY <3>1, <4>1, <4>3, <4>4 DEF TapsFit
    <3>6. AddedFits'
      <4> SUFFICES ASSUME adding.at \in {"conversing", "made"}
                   PROVE  users'[adding.who] = "absent" /\ traineeAccount[adding.who] = "active"
        BY <2>4 DEF AddedFits
      <4>1. users[adding.who] = "absent" /\ traineeAccount[adding.who] = "active"
        BY <3>1 DEF AddedFits
      <4>2. adding.who \in Trainees \ {u}
        BY <1>t, <3>3, <4>1 DEF Statuses
      <4> QED
        BY <3>4, <4>1, <4>2
    <3>7. RowsFit'
      <4> SUFFICES ASSUME NEW t \in Trainees
                   PROVE  \/ users'[t] = IF traineeAccount[t] \in Statuses THEN traineeAccount[t]
                                          ELSE "absent"
                          \/ \E d \in Toggles : toggle'[d].at = "written" /\ toggle'[d].who = t
                          \/ adding.at \in {"conversing", "made"} /\ adding.who = t
        BY <2>4 DEF RowsFit
      <4>1. CASE t = u
        BY <2>3, <3>3, <3>4, <4>1
      <4>2. CASE t # u
        <5>1. users'[t] = users[t]
          BY <3>4, <4>2
        <5>2. \A d \in Toggles : toggle[d].who = t => toggle'[d] = toggle[d]
          BY <2>1, <2>10, <4>2
        <5> QED
          BY <3>1, <5>1, <5>2 DEF RowsFit
      <4> QED
        BY <4>1, <4>2
    <3>8. CounterFits'
      <4>1. Cardinality({t \in Trainees : users'[t] = "active"}) =
              IF s = "active" THEN Cardinality({t \in Trainees : users[t] = "active"}) + 1
              ELSE Cardinality({t \in Trainees : users[t] = "active"}) - 1
        BY <1>t, <2>3, <3>3, <3>4, ActiveChanges
      <4> QED
        BY <2>5, <3>1, <3>2, <4>1 DEF CounterFits
    <3> QED
      BY <3>5, <3>6, <3>7, <3>8
  <2>17. ManagedRows' /\ ManagedForm'
    BY <1>i, <2>4 DEF ManagedRows, ManagedForm
  <2> QED
    BY <2>8, <2>12, <2>13, <2>14, <2>15, <2>16, <2>17 DEF ManagedInv
<1>12. ASSUME NEW t \in Trainees, Managing!Add(t) PROVE ManagedInv'
  <2>1. /\ Managing!Act /\ adding = [at |-> "idle", who |-> "nobody"]
        /\ adding' = [at |-> "checking", who |-> t] /\ traineeLoads' = Managing!Disturbed
        /\ UNCHANGED <<traineeAccount, conversation, users, activeCount, traineeLoading,
                       traineeTimer, toggle, togglingId, traineeUnsure>>
    BY <1>12, ManagedNames DEF Managing!Add
  <2>2. /\ ManagedLoads' /\ \A l \in traineeLoads' : ~l.clean
        /\ traineeLoads' = {} => traineeLoads = {}
    BY <1>i, <2>1, DisturbingLoads
  <2>3. ManagedForm'
    BY <2>1 DEF ManagedForm, AddingAt
  <2>4. ManagedClean'
    BY <2>2 DEF ManagedClean
  <2>5. ManagedRests'
    <3>1. adding.at = "idle" /\ adding'.at = "checking"
      BY <2>1
    <3> QED
      BY <1>i, <1>r, <2>1, <2>2, <3>1 DEF ManagedRests, TapsFit, AddedFits, RowsFit, CounterFits
  <2>6. ManagedFlags'
    BY <1>i, <1>a, <2>1 DEF ManagedFlags
  <2>7. ManagedRows' /\ ManagedPage' /\ ManagedTaps'
    BY <1>i, <1>r, <2>1 DEF ManagedRows, ManagedPage, ManagedTaps
  <2> QED
    BY <2>2, <2>3, <2>4, <2>5, <2>6, <2>7 DEF ManagedInv
\* The dialog's request goes on, and the accounts are as they were.
<1>13. ASSUME NEW s \in AddingAt, s # "idle", adding.at # "idle",
              adding' = [adding EXCEPT !.at = s],
              adding.at \in {"conversing", "made"} <=> s \in {"conversing", "made"},
              conversation' \subseteq Trainees,
              UNCHANGED <<traineeAccount, users, activeCount, traineeLoading, traineeTimer,
                          traineeLoads, toggle, togglingId, traineeActs, traineeUnsure>>
       PROVE  ManagedInv'
  <2>1. /\ adding'.at = s /\ adding'.who = adding.who /\ adding.who \in Trainees
        /\ adding' \in [at : AddingAt, who : Trainees \cup {"nobody"}]
    BY <1>t, <1>13
  <2>2. ManagedForm'
    BY <1>13, <2>1 DEF ManagedForm
  <2>3. ManagedClean'
    BY <1>i, <1>13 DEF ManagedClean
  <2>4. ManagedRests'
    BY <1>i, <1>r, <1>13, <2>1 DEF ManagedRests, TapsFit, AddedFits, RowsFit, CounterFits
  <2>5. ManagedRows' /\ ManagedPage' /\ ManagedFlags' /\ ManagedLoads' /\ ManagedTaps'
    BY <1>i, <1>r, <1>13 DEF ManagedRows, ManagedPage, ManagedFlags, ManagedLoads, ManagedTaps
  <2> QED
    BY <2>2, <2>3, <2>4, <2>5 DEF ManagedInv
<1>14. CASE Managing!Check
  <2>1. PICK s \in {"refused", "inserting"} :
          /\ adding.at = "checking" /\ adding' = [adding EXCEPT !.at = s]
          /\ UNCHANGED <<traineeAccount, conversation, users, activeCount, traineeLoading,
                         traineeTimer, traineeLoads, toggle, togglingId, traineeActs,
                         traineeUnsure>>
    BY <1>14 DEF Managing!Check
  <2>2. conversation' \subseteq Trainees /\ s \in AddingAt
    BY <1>i, <2>1 DEF ManagedRows, AddingAt
  <2> QED
    BY <1>13, <2>1, <2>2
<1>15. CASE Managing!CreateConversation
  <2>1. /\ adding.at = "conversing" /\ adding' = [adding EXCEPT !.at = "made"]
        /\ conversation' = conversation \cup {adding.who}
        /\ UNCHANGED <<traineeAccount, users, activeCount, traineeLoading, traineeTimer,
                       traineeLoads, toggle, togglingId, traineeActs, traineeUnsure>>
    BY <1>15 DEF Managing!CreateConversation
  <2>2. conversation' \subseteq Trainees /\ "made" \in AddingAt
    BY <1>i, <1>t, <2>1 DEF ManagedRows, AddingAt
  <2> QED
    BY <1>13, <2>1, <2>2
<1>16. CASE Managing!Insert
  <2>1. /\ adding.at = "inserting"
        /\ UNCHANGED <<conversation, users, activeCount, traineeLoading, traineeTimer,
                       traineeLoads, toggle, togglingId, traineeActs, traineeUnsure>>
    BY <1>16 DEF Managing!Insert
  <2>2. CASE traineeAccount[adding.who] # "none"
    <3>1. adding' = [adding EXCEPT !.at = "refused"] /\ UNCHANGED traineeAccount
      BY <1>16, <2>2 DEF Managing!Insert
    <3>2. conversation' \subseteq Trainees /\ "refused" \in AddingAt
      BY <1>i, <2>1 DEF ManagedRows, AddingAt
    <3> QED
      BY <1>13, <2>1, <3>1, <3>2
  <2>3. CASE traineeAccount[adding.who] = "none"
    <3>0. PICK u \in Trainees : u = adding.who
      BY <1>t, <2>1
    <3>1. /\ traineeAccount' = [traineeAccount EXCEPT ![u] = "active"]
          /\ adding' = [adding EXCEPT !.at = "conversing"]
      BY <1>16, <2>3, <3>0 DEF Managing!Insert
    <3>2. /\ adding'.at = "conversing" /\ adding'.who = u
          /\ adding' \in [at : AddingAt, who : Trainees \cup {"nobody"}]
      BY <1>t, <3>0, <3>1 DEF AddingAt
    <3>3. /\ traineeAccount'[u] = "active"
          /\ \A t \in Trainees \ {u} : traineeAccount'[t] = traineeAccount[t]
          /\ ManagedRows'
      BY <1>i, <1>t, <2>1, <3>1 DEF ManagedRows, Statuses
    <3>4. ManagedForm'
      BY <3>2 DEF ManagedForm
    <3>5. ManagedClean'
      BY <1>i, <2>1 DEF ManagedClean
    <3>6. ManagedRests'
      <4> SUFFICES ASSUME traineeLoads' = {}, ~traineeUnsure'
                   PROVE  TapsFit' /\ AddedFits' /\ RowsFit' /\ CounterFits'
        BY DEF ManagedRests
      <4>1. TapsFit /\ RowsFit /\ CounterFits
        BY <1>i, <2>1 DEF ManagedRests
      <4>2. \A d \in Toggles : RunningTap(d) => toggle[d].who \in Trainees \ {u}
        <5> SUFFICES ASSUME NEW d \in Toggles, RunningTap(d), toggle[d].who = u PROVE FALSE
          BY <1>t
        <5>1. traineeAccount[u] \in Statuses
          BY <1>t, <4>1 DEF TapsFit
        <5> QED
          BY <2>3, <3>0, <5>1 DEF Statuses
      <4>3. users[u] = "absent"
        <5>1. \A d \in Toggles : toggle[d].at = "written" => toggle[d].who # u
          BY <4>2 DEF RunningTap
        <5> QED
          BY <2>1, <2>3, <3>0, <4>1, <5>1 DEF RowsFit, Statuses
      <4>4. TapsFit'
        <5> SUFFICES ASSUME NEW d \in Toggles, RunningTap(d)
                     PROVE  traineeAccount'[toggle[d].who] = traineeAccount[toggle[d].who]
          BY <1>r, <2>1, <4>1 DEF TapsFit
        <5> QED
          BY <3>3, <4>2
      <4>5. AddedFits'
        BY <2>1, <3>2, <3>3, <4>3 DEF AddedFits
      <4>6. RowsFit'
        BY <2>1, <3>2, <3>3, <4>1 DEF RowsFit
      <4>7. CounterFits'
        BY <2>1, <4>1 DEF CounterFits
      <4> QED
        BY <4>4, <4>5, <4>6, <4>7
    <3>7. ManagedPage' /\ ManagedFlags' /\ ManagedLoads' /\ ManagedTaps'
      BY <1>i, <1>r, <2>1 DEF ManagedPage, ManagedFlags, ManagedLoads, ManagedTaps
    <3> QED
      BY <3>3, <3>4, <3>5, <3>6, <3>7 DEF ManagedInv
  <2> QED
    BY <2>2, <2>3
<1>17. ASSUME NEW ok \in BOOLEAN, Managing!AddEnds(ok) PROVE ManagedInv'
  <2>1. /\ adding # [at |-> "idle", who |-> "nobody"] /\ (ok => adding.at = "made")
        /\ adding' = [at |-> "idle", who |-> "nobody"]
        /\ UNCHANGED <<traineeAccount, conversation, users, activeCount, traineeTimer, toggle,
                       togglingId, traineeActs>>
    BY <1>17, ManagedNames DEF Managing!AddEnds
  <2>2. ManagedForm'
    BY <2>1 DEF ManagedForm, AddingAt
  <2>3. traineeTimer' \in BOOLEAN /\ traineeActs' \in 0 .. MaxTraineeActs
    BY <1>i, <2>1 DEF ManagedFlags
  <2>4. CASE ok
    <3>1. PICK busy : busy = (\E c \in Toggles : RunningTap(c))
      OBVIOUS
    <3>2. busy \in BOOLEAN /\ (~busy => \A c \in Toggles : ~RunningTap(c))
      BY <3>1, Zenon
    <3>3. Managing!LoadUsers(busy) /\ UNCHANGED traineeUnsure
      BY <1>17, <2>4, <3>1, ManagedNames, Zenon DEF Managing!AddEnds
    <3>4. adding'.at = "idle"
      BY <2>1
    <3> QED
      BY <1>5, <2>1, <2>2, <2>3, <3>2, <3>3, <3>4
  <2>5. CASE ~ok
    <3>1. PICK b : b = (adding.at \in {"conversing", "made"})
      OBVIOUS
    <3>2. /\ traineeLoads' = Managing!Disturbed /\ UNCHANGED traineeLoading
          /\ traineeUnsure' = (traineeUnsure \/ b)
      BY <1>17, <2>5, <3>1 DEF Managing!AddEnds
    <3>3. /\ ManagedLoads' /\ \A l \in traineeLoads' : ~l.clean
          /\ traineeLoads' = {} => traineeLoads = {}
      BY <1>i, <3>2, DisturbingLoads
    <3>4. ManagedFlags'
      <4>1. traineeUnsure' \in BOOLEAN
        BY <3>2, Zenon
      <4> QED
        BY <1>i, <2>1, <3>2, <4>1 DEF ManagedFlags
    <3>5. ManagedClean'
      BY <3>3 DEF ManagedClean
    <3>6. ManagedRests'
      <4> SUFFICES ASSUME traineeLoads' = {}, ~traineeUnsure'
                   PROVE  TapsFit' /\ AddedFits' /\ RowsFit' /\ CounterFits'
        BY DEF ManagedRests
      <4>1. TapsFit /\ RowsFit /\ CounterFits /\ adding.at \notin {"conversing", "made"}
        BY <1>i, <3>1, <3>2, <3>3 DEF ManagedRests
      <4>2. adding'.at = "idle"
        BY <2>1
      <4> QED
        BY <1>r, <2>1, <4>1, <4>2 DEF TapsFit, AddedFits, RowsFit, CounterFits
    <3>7. ManagedRows' /\ ManagedPage' /\ ManagedTaps'
      BY <1>i, <1>r, <2>1 DEF ManagedRows, ManagedPage, ManagedTaps
    <3> QED
      BY <2>2, <3>3, <3>4, <3>5, <3>6, <3>7 DEF ManagedInv
  <2> QED
    BY <2>4, <2>5
<1>18. ASSUME NEW t \in Trainees, Managing!OpenConversation(t) PROVE ManagedInv'
  <2>1. /\ conversation' = conversation \cup {t}
        /\ UNCHANGED <<traineeAccount, users, activeCount, traineeLoading, traineeTimer,
                       traineeLoads, toggle, togglingId, adding, traineeActs, traineeUnsure>>
    BY <1>18 DEF Managing!OpenConversation
  <2>2. ManagedRows'
    BY <1>i, <2>1 DEF ManagedRows
  <2>3. ManagedClean'
    BY <1>i, <1>l, <1>r, <2>1 DEF ManagedClean
  <2>4. ManagedRests'
    BY <1>i, <1>r, <2>1 DEF ManagedRests, TapsFit, AddedFits, RowsFit, CounterFits
  <2>5. ManagedPage' /\ ManagedFlags' /\ ManagedLoads' /\ ManagedTaps' /\ ManagedForm'
    BY <1>i, <1>r, <2>1 DEF ManagedPage, ManagedFlags, ManagedLoads, ManagedTaps, ManagedForm
  <2> QED
    BY <2>2, <2>3, <2>4, <2>5 DEF ManagedInv
<1>19. ASSUME NEW t \in Trainees, NEW s \in Statuses \cup {"deleted"}, Managing!Elsewhere(t, s)
       PROVE  ManagedInv'
  <2>1. /\ Managing!Act /\ traineeAccount' = [traineeAccount EXCEPT ![t] = s]
        /\ traineeUnsure' = TRUE /\ traineeLoads' = Managing!Disturbed
        /\ UNCHANGED <<conversation, users, activeCount, traineeLoading, traineeTimer, toggle,
                       togglingId, adding>>
    BY <1>19 DEF Managing!Elsewhere
  <2>2. ManagedLoads' /\ \A l \in traineeLoads' : ~l.clean
    BY <1>i, <2>1, DisturbingLoads
  <2>3. ManagedRows'
    BY <1>i, <1>t, <2>1 DEF ManagedRows
  <2>4. ManagedFlags'
    BY <1>i, <1>a, <2>1 DEF ManagedFlags
  <2>5. ManagedClean' /\ ManagedRests'
    BY <2>1, <2>2 DEF ManagedClean, ManagedRests
  <2>6. ManagedPage' /\ ManagedTaps' /\ ManagedForm'
    BY <1>i, <1>r, <2>1 DEF ManagedPage, ManagedTaps, ManagedForm
  <2> QED
    BY <2>2, <2>3, <2>4, <2>5, <2>6 DEF ManagedInv
<1>20. CASE Managing!Next
  BY <1>2, <1>3, <1>4, <1>6, <1>7, <1>8, <1>9, <1>10, <1>11, <1>12, <1>14, <1>15, <1>16, <1>17,
     <1>18, <1>19, <1>20, ManagedNames DEF Managing!Next
<1> QED
  BY <1>1, <1>20

LEMMA ManagedFits == ManagedInv => Managing!PageAgreesAtRest
<1> SUFFICES ASSUME ManagedInv, Managing!Quiet, ~traineeUnsure
             PROVE  users = Managing!Listed /\ activeCount = Managing!NumberActive
  BY DEF Managing!PageAgreesAtRest
<1>1. /\ traineeLoads = {} /\ adding.at = "idle" /\ \A c \in Toggles : ~RunningTap(c)
  BY ManagedNames DEF Managing!Quiet
<1>2. RowsFit /\ CounterFits
  BY <1>1 DEF ManagedInv, ManagedRests
<1>3. \A t \in Trainees :
        users[t] = IF traineeAccount[t] \in Statuses THEN traineeAccount[t] ELSE "absent"
  BY <1>1, <1>2 DEF RowsFit, RunningTap
<1>4. users = Managing!Listed
  BY <1>3, ManagedNames DEF ManagedInv, ManagedPage
<1>5. {t \in Trainees : users[t] = "active"} = {t \in Trainees : traineeAccount[t] = "active"}
  BY <1>3 DEF Statuses
<1> QED
  BY <1>2, <1>4, <1>5, ManagedNames DEF CounterFits

-----------------------------------------------------------------------------
(* A user's own profile.                                                   *)

StoredUser == [id : People, name : Names, pic : Pictures \cup {Unset},
               signed : Pictures \cup {Unset}]
ProfileOp == [form : {"page", "modal"}, kind : {"save", "upload"}, cap : StoredUser \cup {Unset},
              who : People, name : Names \cup {"blank"}, pic : Pictures \cup {Unset},
              stage : {"sent", "stored", "served"}, clean : BOOLEAN, gone : BOOLEAN]
ProfileRows ==
  profileRow \in [People -> [name : Names, pic : Pictures \cup {Unset},
                             linked : Pictures \cup {Unset}]]
ProfileStore == profileUser \in StoredUser \cup {Unset} /\ me \in People \cup {Unset}
ProfileForms ==
  /\ profileForm \in [{"page", "modal"} -> Names \cup {"blank", "closed", "loading"}]
  /\ \A f \in {"page", "modal"} : profileForm[f] # "closed" => me # Unset
ProfileCounts ==
  /\ chosen \subseteq Pictures /\ taps \in 0 .. MaxTaps
  /\ profileUnsure \in BOOLEAN /\ mixed \in BOOLEAN
ProfileOps == ops \subseteq ProfileOp /\ \A o \in ops :
  /\ o.cap \in StoredUser
  /\ o.kind = "save" => o.stage # "stored"
  /\ o.kind = "save" /\ o.stage = "served" => o.name \in Names
\* A signed URL is that of the picture, unless the page changed the picture.
SignedFits ==
  profileUser # Unset => mixed \/ profileUser.signed \in {Unset, profileUser.pic}
\* The store is that of the tokens, and the row's as long as no request of
\* this user has reached the server.
StoreFits ==
  /\ me # Unset => profileUser # Unset
  /\ ~profileUnsure =>
       /\ me = Unset => profileUser = Unset
       /\ me # Unset =>
            /\ profileUser.id = me
            /\ (\A o \in ops : o.who = me => o.stage = "sent") =>
                 /\ profileUser.name = profileRow[me].name
                 /\ profileUser.pic = profileRow[me].pic
\* A clean request is alone, and made with what the store holds.
OpFits == \A o \in ops : o.clean =>
  /\ ops = {o} /\ o.who = me /\ o.cap = profileUser
  /\ o.kind = "save" /\ o.stage = "served" =>
       o.name = profileRow[me].name /\ o.pic = profileRow[me].pic
  /\ o.kind = "upload" /\ o.stage # "sent" =>
       /\ profileRow[me].pic = o.pic
       /\ ~profileUnsure => profileUser.name = profileRow[me].name
ProfileInv ==
  /\ ProfileRows /\ ProfileStore /\ ProfileForms /\ ProfileCounts /\ ProfileOps
  /\ SignedFits /\ StoreFits /\ OpFits

LEMMA ProfileBounds ==
  /\ MaxTaps \in Nat /\ Names # {} /\ Unset \notin People /\ Unset \notin StoredUser
BY ServicesAssumption, Zenon DEF ServicesAssumption, StoredUser

LEMMA ProfileTypes == ProfileInv => Editing!TypeOK
<1> SUFFICES ASSUME ProfileInv PROVE Editing!TypeOK
  OBVIOUS
<1>1. ProfileRows /\ ProfileStore /\ ProfileForms /\ ProfileCounts /\ ProfileOps
  BY DEF ProfileInv
<1> QED
  BY <1>1, Zenon DEF ProfileRows, ProfileStore, StoredUser, ProfileForms, ProfileCounts, ProfileOps,
     ProfileOp, Editing!TypeOK, Editing!Rows, Editing!Users, Editing!Forms, Editing!Ops,
     Editing!Stages

LEMMA InitProfile == Editing!Init => ProfileInv
<1> SUFFICES ASSUME Editing!Init PROVE ProfileInv
  OBVIOUS
<1> USE ProfileBounds
<1>1. PICK n \in Names : n = CHOOSE m \in Names : TRUE
  OBVIOUS
<1>2. /\ profileRow = [u \in People |-> [name |-> n, pic |-> Unset, linked |-> Unset]]
      /\ profileUser = Unset /\ me = Unset
      /\ profileForm = [f \in {"page", "modal"} |-> "closed"]
      /\ ops = {} /\ chosen = {} /\ taps = 0 /\ profileUnsure = FALSE /\ mixed = FALSE
  BY <1>1 DEF Editing!Init, Editing!Forms
<1>3. ProfileRows /\ ProfileStore
  BY <1>2 DEF ProfileRows, ProfileStore
<1>4. ProfileForms
  BY <1>2 DEF ProfileForms
<1>5. ProfileCounts
  <2>1. 0 \in 0 .. MaxTaps /\ FALSE \in BOOLEAN
    OBVIOUS
  <2> QED
    BY <1>2, <2>1, Zenon DEF ProfileCounts
<1>6. ProfileOps /\ SignedFits /\ StoreFits /\ OpFits
  BY <1>2 DEF ProfileOps, SignedFits, StoreFits, OpFits
<1> QED
  BY <1>3, <1>4, <1>5, <1>6 DEF ProfileInv

\* What leaves a request unclean, with its form left or not.
LEMMA UnsettledOps ==
  ASSUME ProfileOps, NEW S, \/ S = Editing!Unsettled
                            \/ \E f : S = Editing!Left(f)
  PROVE  /\ S \subseteq ProfileOp
         /\ \A o \in S : /\ o.cap \in StoredUser /\ ~o.clean
                         /\ o.kind = "save" => o.stage # "stored"
                         /\ o.kind = "save" /\ o.stage = "served" => o.name \in Names
         /\ \A o \in ops : \E k \in S : k.who = o.who /\ k.stage = o.stage
         /\ S = {} <=> ops = {}
<1> DEFINE Good(k, o) == /\ k \in ProfileOp /\ k.cap \in StoredUser /\ ~k.clean
                         /\ k.kind = "save" => k.stage # "stored"
                         /\ k.kind = "save" /\ k.stage = "served" => k.name \in Names
                         /\ k.who = o.who /\ k.stage = o.stage
<1>1. ASSUME NEW o \in ops PROVE Good([o EXCEPT !.clean = FALSE], o)
  <2>1. /\ o \in ProfileOp /\ o.cap \in StoredUser
        /\ o.kind = "save" => o.stage # "stored"
        /\ o.kind = "save" /\ o.stage = "served" => o.name \in Names
    BY DEF ProfileOps
  <2> QED
    BY <2>1 DEF ProfileOp
<1>2. ASSUME NEW o \in ops, NEW k, Good(k, o) PROVE Good([k EXCEPT !.gone = TRUE], o)
  BY <1>2 DEF ProfileOp
<1>3. PICK U : U = {[o EXCEPT !.clean = FALSE] : o \in ops}
  OBVIOUS
<1>4. /\ \A k \in U : \E o \in ops : Good(k, o)
      /\ \A o \in ops : \E k \in U : Good(k, o)
  BY <1>1, <1>3
<1>5. CASE S = Editing!Unsettled
  <2>1. S = U
    BY <1>3, <1>5 DEF Editing!Unsettled
  <2> QED
    BY <1>4, <2>1
<1>6. ASSUME NEW f, S = Editing!Left(f)
      PROVE  /\ \A k \in S : \E o \in ops : Good(k, o)
             /\ \A o \in ops : \E k \in S : Good(k, o)
  <2>1. S = {IF k.form \in f THEN [k EXCEPT !.gone = TRUE] ELSE k : k \in U}
    BY <1>3, <1>6 DEF Editing!Left, Editing!Unsettled
  <2>2. ASSUME NEW o \in ops, NEW k \in U, Good(k, o)
        PROVE  Good(IF k.form \in f THEN [k EXCEPT !.gone = TRUE] ELSE k, o)
    BY <1>2, <2>2
  <2>3. ASSUME NEW k \in S PROVE \E o \in ops : Good(k, o)
    <3>1. PICK j \in U : k = IF j.form \in f THEN [j EXCEPT !.gone = TRUE] ELSE j
      BY <2>1
    <3>2. PICK o \in ops : Good(j, o)
      BY <1>4
    <3> HIDE DEF Good
    <3> QED
      BY <2>2, <3>1, <3>2
  <2>4. ASSUME NEW o \in ops PROVE \E k \in S : Good(k, o)
    <3>1. PICK j \in U : Good(j, o)
      BY <1>4
    <3>2. PICK k : k = IF j.form \in f THEN [j EXCEPT !.gone = TRUE] ELSE j
      OBVIOUS
    <3>3. k \in S
      BY <2>1, <3>2
    <3> HIDE DEF Good
    <3>4. Good(k, o)
      BY <2>2, <3>1, <3>2
    <3> QED
      BY <3>3, <3>4
  <2> QED
    BY <2>3, <2>4
<1> QED
  BY <1>5, <1>6

LEMMA NextProfile == ProfileInv /\ [Editing!Next]_profileVars => ProfileInv'
<1> SUFFICES ASSUME ProfileInv, [Editing!Next]_profileVars PROVE ProfileInv'
  OBVIOUS
<1> USE ProfileBounds
<1>i. /\ ProfileRows /\ ProfileStore /\ ProfileForms /\ ProfileCounts /\ ProfileOps
      /\ SignedFits /\ StoreFits /\ OpFits
  BY DEF ProfileInv
<1>f. Editing!Forms = {"page", "modal"}
  BY DEF Editing!Forms
<1>t. /\ profileRow \in [People -> [name : Names, pic : Pictures \cup {Unset},
                                    linked : Pictures \cup {Unset}]]
      /\ profileUser \in StoredUser \cup {Unset} /\ me \in People \cup {Unset}
      /\ profileForm \in [{"page", "modal"} -> Names \cup {"blank", "closed", "loading"}]
      /\ \A f \in {"page", "modal"} : profileForm[f] # "closed" => me # Unset
      /\ me # Unset => profileUser # Unset
      /\ chosen \subseteq Pictures /\ profileUnsure \in BOOLEAN /\ mixed \in BOOLEAN
  BY <1>i DEF ProfileRows, ProfileStore, ProfileForms, ProfileCounts, StoreFits
<1>a. Editing!Tap => taps' \in 0 .. MaxTaps
  BY <1>i DEF ProfileCounts, Editing!Tap
<1>1. CASE UNCHANGED profileVars
  <2>1. UNCHANGED <<profileRow, profileUser, me, profileForm, ops, chosen, taps, profileUnsure,
                    mixed>>
    BY <1>1 DEF profileVars
  <2> QED
    BY <1>i, <2>1 DEF ProfileInv, ProfileRows, ProfileStore, ProfileForms, ProfileCounts,
                      ProfileOps, SignedFits, StoreFits, OpFits
<1>2. ASSUME NEW u \in People, Editing!Login(u) PROVE ProfileInv'
  <2>1. /\ Editing!Tap /\ me' = u
        /\ profileUser' = [id |-> u, name |-> profileRow[u].name, pic |-> profileRow[u].pic,
                           signed |-> Unset]
        /\ ops' = Editing!Unsettled /\ profileUnsure' = FALSE /\ mixed' = FALSE
        /\ UNCHANGED <<profileRow, profileForm, chosen>>
    BY <1>2 DEF Editing!Login, Editing!MapToDto
  <2>2. /\ ops' \subseteq ProfileOp
        /\ \A o \in ops' : /\ o.cap \in StoredUser /\ ~o.clean
                           /\ o.kind = "save" => o.stage # "stored"
                           /\ o.kind = "save" /\ o.stage = "served" => o.name \in Names
    BY <1>i, <2>1, UnsettledOps
  <2>3. /\ profileUser' \in StoredUser /\ profileUser'.id = u /\ profileUser'.signed = Unset
        /\ profileUser'.name = profileRow[u].name /\ profileUser'.pic = profileRow[u].pic
    BY <1>t, <2>1 DEF StoredUser
  <2>4. ProfileRows' /\ ProfileStore' /\ ProfileForms'
    BY <1>i, <1>t, <2>1, <2>3 DEF ProfileRows, ProfileStore, ProfileForms
  <2>5. ProfileCounts'
    BY <1>t, <1>a, <2>1 DEF ProfileCounts
  <2>6. ProfileOps' /\ OpFits'
    BY <2>2 DEF ProfileOps, OpFits
  <2>7. SignedFits' /\ StoreFits'
    BY <2>1, <2>3 DEF SignedFits, StoreFits
  <2> QED
    BY <2>4, <2>5, <2>6, <2>7 DEF ProfileInv
<1>3. CASE Editing!Logout
  <2>1. /\ Editing!Tap /\ me' = Unset /\ profileUser' = Unset
        /\ profileForm' = [f \in {"page", "modal"} |-> "closed"]
        /\ \E f : ops' = Editing!Left(f)
        /\ UNCHANGED <<profileRow, chosen, profileUnsure, mixed>>
    BY <1>3, <1>f DEF Editing!Logout
  <2>2. /\ ops' \subseteq ProfileOp
        /\ \A o \in ops' : /\ o.cap \in StoredUser /\ ~o.clean
                           /\ o.kind = "save" => o.stage # "stored"
                           /\ o.kind = "save" /\ o.stage = "served" => o.name \in Names
    BY <1>i, <2>1, UnsettledOps
  <2>3. ProfileRows' /\ ProfileStore' /\ ProfileForms'
    BY <1>i, <1>t, <2>1 DEF ProfileRows, ProfileStore, ProfileForms
  <2>4. ProfileCounts'
    BY <1>t, <1>a, <2>1 DEF ProfileCounts
  <2>5. ProfileOps' /\ OpFits'
    BY <2>2 DEF ProfileOps, OpFits
  <2>6. SignedFits' /\ StoreFits'
    BY <2>1 DEF SignedFits, StoreFits
  <2> QED
    BY <2>3, <2>4, <2>5, <2>6 DEF ProfileInv
\* A form changes while somebody is signed in.
<1>4. ASSUME NEW f \in {"page", "modal"}, NEW x \in Names \cup {"blank", "closed", "loading"},
             profileForm' = [profileForm EXCEPT ![f] = x], x # "closed" => me # Unset,
             UNCHANGED me
      PROVE  ProfileForms'
  BY <1>t, <1>4 DEF ProfileForms
<1>5. ASSUME NEW f \in {"page", "modal"}, \/ Editing!Open(f) \/ \E ok \in BOOLEAN : Editing!Loaded(f, ok)
      PROVE  ProfileInv'
  <2>1. /\ me # Unset
        /\ UNCHANGED <<profileRow, profileUser, me, ops, chosen, taps, profileUnsure, mixed>>
    <3>1. CASE Editing!Open(f)
      BY <3>1 DEF Editing!Open
    <3>2. ASSUME NEW ok \in BOOLEAN, Editing!Loaded(f, ok)
          PROVE  /\ me # Unset
                 /\ UNCHANGED <<profileRow, profileUser, me, ops, chosen, taps, profileUnsure, mixed>>
      BY <1>t, <3>2 DEF Editing!Loaded
    <3> QED
      BY <1>5, <3>1, <3>2
  <2>2. \E x \in Names \cup {"blank", "closed", "loading"} :
           profileForm' = [profileForm EXCEPT ![f] = x]
    <3>1. CASE Editing!Open(f)
      BY <3>1 DEF Editing!Open
    <3>2. ASSUME NEW ok \in BOOLEAN, Editing!Loaded(f, ok)
          PROVE  \E x \in Names \cup {"blank", "closed", "loading"} :
                   profileForm' = [profileForm EXCEPT ![f] = x]
      <4>1. PICK x : x = IF ok THEN profileRow[me].name
                         ELSE IF f = "modal" /\ profileUser # Unset THEN profileUser.name
                         ELSE "blank"
        OBVIOUS
      <4>2. profileForm' = [profileForm EXCEPT ![f] = x]
        BY <3>2, <4>1, Zenon DEF Editing!Loaded
      <4>3. x \in Names \cup {"blank"}
        BY <1>t, <2>1, <4>1 DEF StoredUser
      <4> QED
        BY <4>2, <4>3
    <3> QED
      BY <1>5, <3>1, <3>2
  <2>3. ProfileForms'
    BY <1>4, <2>1, <2>2
  <2> QED
    BY <1>i, <2>1, <2>3 DEF ProfileInv, ProfileRows, ProfileStore, ProfileCounts, ProfileOps,
                            SignedFits, StoreFits, OpFits
<1>6. ASSUME NEW f \in {"page", "modal"}, Editing!Close(f) PROVE ProfileInv'
  <2>1. /\ profileForm' = [profileForm EXCEPT ![f] = "closed"]
        /\ ops' = {IF o.form = f THEN [o EXCEPT !.gone = TRUE] ELSE o : o \in ops}
        /\ UNCHANGED <<profileRow, profileUser, me, chosen, taps, profileUnsure, mixed>>
    BY <1>6 DEF Editing!Close
  <2>2. ProfileForms'
    BY <1>4, <2>1
  <2> DEFINE Same(k, o) == /\ k \in ProfileOp /\ k.cap = o.cap /\ k.kind = o.kind
                           /\ k.stage = o.stage /\ k.name = o.name /\ k.pic = o.pic
                           /\ k.who = o.who /\ k.clean = o.clean
             G(o) == IF o.form = f THEN [o EXCEPT !.gone = TRUE] ELSE o
  <2>3. ASSUME NEW o \in ops PROVE Same(G(o), o)
    <3>1. o \in ProfileOp
      BY <1>i DEF ProfileOps
    <3>2. Same([o EXCEPT !.gone = TRUE], o) /\ Same(o, o)
      BY <3>1 DEF ProfileOp
    <3> QED
      BY <3>2
  <2>4. ops' = {G(o) : o \in ops}
    BY <2>1
  <2> HIDE DEF Same, G
  <2>5. \A k \in ops' : \E o \in ops : k = G(o) /\ Same(k, o)
    BY <2>3, <2>4
  <2>6. ProfileOps'
    BY <1>i, <2>5 DEF ProfileOps, Same
  <2>7. StoreFits'
    <3>1. (\A k \in ops' : k.who = me => k.stage = "sent")
             => \A o \in ops : o.who = me => o.stage = "sent"
      BY <2>3, <2>4 DEF Same
    <3> QED
      BY <1>i, <2>1, <3>1 DEF StoreFits
  <2>8. OpFits'
    <3> SUFFICES ASSUME NEW k \in ops', k.clean
                 PROVE  /\ ops' = {k} /\ k.who = me /\ k.cap = profileUser
                        /\ k.kind = "save" /\ k.stage = "served" =>
                             k.name = profileRow[me].name /\ k.pic = profileRow[me].pic
                        /\ k.kind = "upload" /\ k.stage # "sent" =>
                             /\ profileRow[me].pic = k.pic
                             /\ ~profileUnsure => profileUser.name = profileRow[me].name
      BY <2>1 DEF OpFits
    <3>1. PICK o \in ops : k = G(o) /\ Same(k, o)
      BY <2>5
    <3>2. o.clean
      BY <3>1 DEF Same
    <3>3. ops = {o}
      BY <1>i, <3>2 DEF OpFits
    <3>4. ops' = {k}
      BY <2>4, <3>1, <3>3
    <3> QED
      BY <1>i, <3>1, <3>2, <3>4 DEF OpFits, Same
  <2>9. ProfileRows' /\ ProfileStore' /\ ProfileCounts' /\ SignedFits'
    BY <1>i, <2>1 DEF ProfileRows, ProfileStore, ProfileCounts, SignedFits
  <2> QED
    BY <2>2, <2>6, <2>7, <2>8, <2>9 DEF ProfileInv
<1>7. ASSUME NEW f \in {"page", "modal"}, NEW kind \in {"save", "upload"},
             NEW n \in Names \cup {"blank"}, NEW p \in Pictures \cup {Unset},
             Editing!Request(f, kind, n, p)
      PROVE  /\ ProfileRows' /\ ProfileStore' /\ SignedFits' /\ ProfileOps' /\ StoreFits' /\ OpFits'
             /\ me # Unset /\ UNCHANGED <<me, profileUnsure, mixed>> /\ taps' \in 0 .. MaxTaps
             /\ profileForm[f] \notin {"closed", "loading"}
  <2>0. PICK c : c = (ops = {})
    OBVIOUS
  <2>1. c \in BOOLEAN /\ (c => ops = {})
    BY <2>0, Zenon
  <2>2. PICK S : S = Editing!Unsettled
    OBVIOUS
  <2>3. PICK r : r = [form |-> f, kind |-> kind, cap |-> profileUser, who |-> me, name |-> n,
                      pic |-> p, stage |-> "sent", clean |-> c, gone |-> FALSE]
    OBVIOUS
  <2>4. /\ Editing!Tap /\ profileForm[f] \notin {"closed", "loading"} /\ ops' = S \cup {r}
        /\ UNCHANGED <<profileRow, profileUser, me, profileUnsure, mixed>>
    BY <1>7, <2>0, <2>2, <2>3 DEF Editing!Request
  <2>5. me \in People /\ profileUser \in StoredUser
    BY <1>t, <2>4
  <2>6. /\ r \in ProfileOp /\ r.cap = profileUser /\ r.who = me /\ r.stage = "sent"
        /\ r.clean = c /\ r.kind = kind
    BY <2>1, <2>3, <2>5 DEF ProfileOp
  <2>7. /\ S \subseteq ProfileOp
        /\ \A o \in S : /\ o.cap \in StoredUser /\ ~o.clean
                        /\ o.kind = "save" => o.stage # "stored"
                        /\ o.kind = "save" /\ o.stage = "served" => o.name \in Names
        /\ \A o \in ops : \E k \in S : k.who = o.who /\ k.stage = o.stage
        /\ S = {} <=> ops = {}
    BY <1>i, <2>2, UnsettledOps
  <2>8. ProfileOps'
    BY <2>4, <2>5, <2>6, <2>7 DEF ProfileOps
  <2>9. StoreFits'
    <3>1. (\A k \in ops' : k.who = me => k.stage = "sent")
             => \A o \in ops : o.who = me => o.stage = "sent"
      BY <2>4, <2>7
    <3> QED
      BY <1>i, <2>4, <3>1 DEF StoreFits
  <2>10. OpFits'
    <3>1. \A k \in ops' : k.clean => k = r /\ ops' = {r}
      BY <2>1, <2>4, <2>6, <2>7
    <3> QED
      BY <2>4, <2>6, <3>1 DEF OpFits
  <2>11. ProfileRows' /\ ProfileStore' /\ SignedFits'
    BY <1>i, <2>4 DEF ProfileRows, ProfileStore, SignedFits
  <2> QED
    BY <1>a, <1>t, <2>4, <2>5, <2>8, <2>9, <2>10, <2>11
<1>8. ASSUME NEW f \in {"page", "modal"}, NEW n \in Names \cup {"blank"}, Editing!HandleSave(f, n)
      PROVE  ProfileInv'
  <2>1. /\ Editing!Request(f, "save", n, Unset) /\ profileForm' = [profileForm EXCEPT ![f] = n]
        /\ UNCHANGED chosen
    BY <1>8 DEF Editing!HandleSave
  <2>2. /\ ProfileRows' /\ ProfileStore' /\ SignedFits' /\ ProfileOps' /\ StoreFits' /\ OpFits'
        /\ me # Unset /\ UNCHANGED <<me, profileUnsure, mixed>> /\ taps' \in 0 .. MaxTaps
    <3>1. PICK k \in {"save", "upload"} : k = "save"
      OBVIOUS
    <3>2. PICK p \in Pictures \cup {Unset} : p = Unset
      OBVIOUS
    <3>3. Editing!Request(f, k, n, p)
      BY <2>1, <3>1, <3>2
    <3> QED
      BY <1>7, <3>3
  <2>3. ProfileForms'
    BY <1>4, <2>1, <2>2
  <2>4. ProfileCounts'
    BY <1>t, <2>1, <2>2 DEF ProfileCounts
  <2> QED
    BY <2>2, <2>3, <2>4 DEF ProfileInv
<1>9. ASSUME NEW f \in {"page", "modal"}, NEW p \in Pictures, Editing!HandleImageUpload(f, p)
      PROVE  ProfileInv'
  <2>1. /\ Editing!Request(f, "upload", "blank", p) /\ UNCHANGED profileForm
        /\ chosen' = chosen \cup {p}
    BY <1>9 DEF Editing!HandleImageUpload
  <2>2. /\ ProfileRows' /\ ProfileStore' /\ SignedFits' /\ ProfileOps' /\ StoreFits' /\ OpFits'
        /\ me # Unset /\ UNCHANGED <<me, profileUnsure, mixed>> /\ taps' \in 0 .. MaxTaps
    <3>1. PICK k \in {"save", "upload"} : k = "upload"
      OBVIOUS
    <3>2. PICK n \in Names \cup {"blank"} : n = "blank"
      OBVIOUS
    <3>3. Editing!Request(f, k, n, p)
      BY <2>1, <3>1, <3>2
    <3> QED
      BY <1>7, <3>3
  <2>3. ProfileForms'
    BY <1>i, <2>1, <2>2 DEF ProfileForms
  <2>4. ProfileCounts'
    BY <1>t, <2>1, <2>2 DEF ProfileCounts
  <2> QED
    BY <2>2, <2>3, <2>4 DEF ProfileInv
\* The server takes a request a step further, and writes the row of its user.
<1>10. ASSUME NEW o \in ops, NEW r \in ProfileOp, ops' = (ops \ {o}) \cup {r},
              r.cap = o.cap, r.kind = o.kind, r.who = o.who, r.clean = o.clean,
              r.stage # "sent",
              r.kind = "save" => r.stage = "served" /\ r.name \in Names,
              ProfileRows', \A u \in People \ {o.who} : profileRow'[u] = profileRow[u],
              r.clean =>
                /\ r.kind = "save" =>
                     r.name = profileRow'[o.who].name /\ r.pic = profileRow'[o.who].pic
                /\ r.kind = "upload" =>
                     /\ profileRow'[o.who].pic = r.pic
                     /\ profileRow'[o.who].name = profileRow[o.who].name,
              UNCHANGED <<profileUser, me, profileForm, chosen, taps, profileUnsure, mixed>>
       PROVE  ProfileInv'
  <2>1. ProfileOps'
    BY <1>i, <1>10 DEF ProfileOps
  <2>2. StoreFits'
    <3>1. CASE o.who = me
      <4>1. ~\A k \in ops' : k.who = me => k.stage = "sent"
        BY <1>10, <3>1
      <4> QED
        BY <1>i, <1>10, <4>1 DEF StoreFits
    <3>2. CASE o.who # me
      <4>1. (\A k \in ops' : k.who = me => k.stage = "sent")
               => \A k \in ops : k.who = me => k.stage = "sent"
        BY <1>10, <3>2
      <4>2. me # Unset => profileRow'[me] = profileRow[me]
        BY <1>t, <1>10, <3>2
      <4> QED
        BY <1>i, <1>10, <4>1, <4>2 DEF StoreFits
    <3> QED
      BY <3>1, <3>2
  <2>3. OpFits'
    <3> SUFFICES ASSUME NEW k \in ops', k.clean
                 PROVE  /\ ops' = {k} /\ k.who = me /\ k.cap = profileUser
                        /\ k.kind = "save" /\ k.stage = "served" =>
                             k.name = profileRow'[me].name /\ k.pic = profileRow'[me].pic
                        /\ k.kind = "upload" /\ k.stage # "sent" =>
                             /\ profileRow'[me].pic = k.pic
                             /\ ~profileUnsure => profileUser.name = profileRow'[me].name
      BY <1>10 DEF OpFits
    <3>1. k = r /\ o.clean
      BY <1>i, <1>10 DEF OpFits
    <3>2. ops = {o} /\ o.who = me /\ o.cap = profileUser
      BY <1>i, <3>1 DEF OpFits
    <3>3. ops' = {k} /\ k.who = me /\ k.cap = profileUser
      BY <1>10, <3>1, <3>2
    <3>4. me # Unset
      <4>1. o.who \in People
        BY <1>i DEF ProfileOps, ProfileOp
      <4> QED
        BY <3>2, <4>1
    <3>5. o.kind = "upload" /\ ~profileUnsure => profileUser.name = profileRow[me].name
      <4>1. CASE o.stage = "sent"
        BY <1>i, <3>2, <3>4, <4>1 DEF StoreFits
      <4>2. CASE o.stage # "sent"
        BY <1>i, <3>1, <4>2 DEF OpFits
      <4> QED
        BY <4>1, <4>2
    <3> QED
      BY <1>10, <3>1, <3>2, <3>3, <3>5
  <2>4. ProfileStore' /\ ProfileForms' /\ ProfileCounts' /\ SignedFits'
    BY <1>i, <1>10 DEF ProfileStore, ProfileForms, ProfileCounts, SignedFits
  <2> QED
    BY <1>10, <2>1, <2>2, <2>3, <2>4 DEF ProfileInv
<1>11. ASSUME NEW o \in ops, Editing!UpdateProfile(o) PROVE ProfileInv'
  <2>1. o \in ProfileOp /\ o.who \in People /\ o.name \in Names \cup {"blank"}
    BY <1>i DEF ProfileOps, ProfileOp
  <2>2. PICK n : n = IF o.name = "blank" THEN profileRow[o.who].name ELSE o.name
    OBVIOUS
  <2>3. n \in Names
    BY <1>t, <2>1, <2>2
  <2>4. PICK w : w = [profileRow EXCEPT ![o.who].name = IF o.name = "blank" THEN @ ELSE o.name]
    OBVIOUS
  <2>5. PICK r : r = [o EXCEPT !.stage = "served", !.name = w[o.who].name, !.pic = w[o.who].pic]
    OBVIOUS
  <2>6. /\ o.kind = "save" /\ o.stage = "sent" /\ profileRow' = w
        /\ ops' = (ops \ {o}) \cup {r}
        /\ UNCHANGED <<profileUser, me, profileForm, chosen, taps, profileUnsure, mixed>>
    BY <1>11, <2>4, <2>5 DEF Editing!UpdateProfile, Editing!Served
  <2>7. /\ ProfileRows' /\ w[o.who].name = n /\ w[o.who].pic \in Pictures \cup {Unset}
        /\ \A u \in People \ {o.who} : w[u] = profileRow[u]
    BY <1>t, <2>1, <2>2, <2>3, <2>4, <2>6 DEF ProfileRows
  <2>8. /\ r \in ProfileOp /\ r.cap = o.cap /\ r.kind = o.kind /\ r.who = o.who
        /\ r.clean = o.clean /\ r.stage = "served" /\ r.name = n /\ r.pic = w[o.who].pic
    BY <2>1, <2>3, <2>5, <2>7 DEF ProfileOp
  <2> QED
    BY <1>10, <2>3, <2>6, <2>7, <2>8
<1>12. ASSUME NEW o \in ops, Editing!SetAvatarUrl(o) PROVE ProfileInv'
  <2>1. o \in ProfileOp /\ o.who \in People /\ o.pic \in Pictures \cup {Unset}
    BY <1>i DEF ProfileOps, ProfileOp
  <2>2. PICK r : r = [o EXCEPT !.stage = "stored"]
    OBVIOUS
  <2>3. /\ o.kind = "upload" /\ profileRow' = [profileRow EXCEPT ![o.who].pic = o.pic]
        /\ ops' = (ops \ {o}) \cup {r}
        /\ UNCHANGED <<profileUser, me, profileForm, chosen, taps, profileUnsure, mixed>>
    BY <1>12, <2>2 DEF Editing!SetAvatarUrl, Editing!Advance, Editing!Served
  <2>4. /\ ProfileRows' /\ profileRow'[o.who].pic = o.pic
        /\ profileRow'[o.who].name = profileRow[o.who].name
        /\ \A u \in People \ {o.who} : profileRow'[u] = profileRow[u]
    BY <1>t, <2>1, <2>3 DEF ProfileRows
  <2>5. /\ r \in ProfileOp /\ r.cap = o.cap /\ r.kind = o.kind /\ r.who = o.who
        /\ r.clean = o.clean /\ r.stage = "stored" /\ r.pic = o.pic
    BY <2>1, <2>2 DEF ProfileOp
  <2> QED
    BY <1>10, <2>3, <2>4, <2>5
<1>13. ASSUME NEW o \in ops, NEW ok \in BOOLEAN, Editing!LinkAttachment(o, ok) PROVE ProfileInv'
  <2>1. /\ o \in ProfileOp /\ o.who \in People /\ o.pic \in Pictures \cup {Unset}
        /\ o.kind \in {"save", "upload"} /\ (o.kind = "save" => o.stage # "stored")
    BY <1>i DEF ProfileOps, ProfileOp
  <2>2. PICK r : r = [o EXCEPT !.stage = "served"]
    OBVIOUS
  <2>3. /\ o.stage = "stored" /\ ops' = (ops \ {o}) \cup {r}
        /\ profileRow' = IF ok THEN [profileRow EXCEPT ![o.who].linked = o.pic] ELSE profileRow
        /\ UNCHANGED <<profileUser, me, profileForm, chosen, taps, profileUnsure, mixed>>
    BY <1>13, <2>2 DEF Editing!LinkAttachment, Editing!Advance, Editing!Served
  <2>4. o.kind = "upload"
    BY <2>1, <2>3
  <2>5. /\ ProfileRows' /\ profileRow'[o.who].pic = profileRow[o.who].pic
        /\ profileRow'[o.who].name = profileRow[o.who].name
        /\ \A u \in People \ {o.who} : profileRow'[u] = profileRow[u]
    <3>1. CASE ok
      BY <1>t, <2>1, <2>3, <3>1 DEF ProfileRows
    <3>2. CASE ~ok
      BY <1>t, <2>3, <3>2 DEF ProfileRows
    <3> QED
      BY <3>1, <3>2
  <2>6. /\ r \in ProfileOp /\ r.cap = o.cap /\ r.kind = o.kind /\ r.who = o.who
        /\ r.clean = o.clean /\ r.stage = "served" /\ r.pic = o.pic
    BY <2>1, <2>2 DEF ProfileOp
  <2>7. o.clean => profileRow[o.who].pic = o.pic
    BY <1>i, <2>3, <2>4 DEF OpFits
  <2> QED
    BY <1>10, <2>3, <2>4, <2>5, <2>6, <2>7
<1>14. ASSUME NEW o \in ops, Editing!Answer(o) PROVE ProfileInv'
  <2>1. /\ o \in ProfileOp /\ o.who \in People /\ o.cap \in StoredUser
        /\ o.kind \in {"save", "upload"} /\ o.form \in {"page", "modal"}
        /\ o.pic \in Pictures \cup {Unset} /\ o.clean \in BOOLEAN
        /\ o.kind = "save" /\ o.stage = "served" => o.name \in Names
    BY <1>i DEF ProfileOps, ProfileOp
  <2>2. PICK w : w = Editing!Written(o)
    OBVIOUS
  <2>3. /\ o.stage = "served" /\ ops' = ops \ {o} /\ profileUser' = w
        /\ profileUnsure' = (~o.clean \/ (profileUnsure /\ (o.kind = "upload" \/ w.id # o.who)))
        /\ mixed' = (o.form = "page" /\ (mixed \/ o.cap.signed # Unset))
        /\ profileForm' = IF o.form = "modal" /\ o.kind = "save" /\ ~o.gone
                          THEN [profileForm EXCEPT !["modal"] = "closed"] ELSE profileForm
        /\ UNCHANGED <<profileRow, me, chosen, taps>>
    <3>1. o.cap # Unset
      BY <2>1
    <3> QED
      BY <1>14, <2>2, <3>1, Zenon DEF Editing!Answer
  <2>4. /\ o.kind = "save" /\ o.form = "modal" =>
             w = [id |-> o.who, name |-> o.name, pic |-> o.pic, signed |-> Unset]
        /\ o.kind = "save" /\ o.form = "page" => w = [o.cap EXCEPT !.name = o.name, !.pic = o.pic]
        /\ o.kind = "upload" /\ o.form = "modal" => w = [o.cap EXCEPT !.pic = o.pic, !.signed = o.pic]
        /\ o.kind = "upload" /\ o.form = "page" =>
             w = [o.cap EXCEPT !.pic = o.pic, !.signed = @]
    BY <2>2 DEF Editing!Written
  <2>5. /\ w \in StoredUser /\ w.pic = o.pic
        /\ w.id = (IF o.kind = "save" /\ o.form = "modal" THEN o.who ELSE o.cap.id)
        /\ w.name = (IF o.kind = "save" THEN o.name ELSE o.cap.name)
        /\ w.signed = (IF o.form = "page" THEN o.cap.signed ELSE IF o.kind = "save" THEN Unset
                       ELSE o.pic)
    <3>1. CASE o.kind = "save" /\ o.form = "modal"
      BY <2>1, <2>3, <2>4, <3>1 DEF StoredUser
    <3>2. CASE o.kind = "save" /\ o.form = "page"
      BY <2>1, <2>3, <2>4, <3>2 DEF StoredUser
    <3>3. CASE o.kind = "upload" /\ o.form = "modal"
      BY <2>1, <2>4, <3>3 DEF StoredUser
    <3>4. CASE o.kind = "upload" /\ o.form = "page"
      BY <2>1, <2>4, <3>4 DEF StoredUser
    <3> QED
      BY <2>1, <3>1, <3>2, <3>3, <3>4
  <2>6. profileUnsure' \in BOOLEAN /\ mixed' \in BOOLEAN
    BY <2>3, Zenon
  <2>7. ProfileRows' /\ ProfileStore'
    BY <1>i, <2>3, <2>5 DEF ProfileRows, ProfileStore
  <2>8. ProfileForms'
    BY <1>i, <1>4, <2>3 DEF ProfileForms
  <2>9. ProfileCounts'
    BY <1>i, <2>3, <2>6 DEF ProfileCounts
  <2>10. ProfileOps'
    BY <1>i, <2>3 DEF ProfileOps
  <2>11. OpFits'
    <3>1. \A k \in ops' : ~k.clean
      BY <1>i, <2>3 DEF OpFits
    <3> QED
      BY <3>1 DEF OpFits
  <2>12. SignedFits'
    <3>1. CASE o.form = "page"
      BY <2>3, <2>5, <3>1 DEF SignedFits
    <3>2. CASE o.form = "modal"
      BY <2>3, <2>5, <3>2 DEF SignedFits
    <3> QED
      BY <2>1, <3>1, <3>2
  <2>13. StoreFits'
    <3>1. profileUser' # Unset
      BY <2>3, <2>5
    <3>2. ASSUME ~profileUnsure'
          PROVE  /\ me # Unset /\ w.id = me
                 /\ w.name = profileRow[me].name /\ w.pic = profileRow[me].pic
      <4>1. o.clean /\ (~profileUnsure \/ (o.kind = "save" /\ w.id = o.who))
        <5>1. o.kind = "save" \/ o.kind = "upload"
          BY <2>1
        <5>2. PICK b : b = (o.kind = "upload" \/ w.id # o.who)
          OBVIOUS
        <5>3. profileUnsure' = (~o.clean \/ (profileUnsure /\ b))
          BY <2>3, <5>2
        <5>4. o.clean /\ (profileUnsure => ~b)
          BY <3>2, <5>3, Zenon
        <5>5. ~b => o.kind # "upload" /\ w.id = o.who
          BY <5>2, Zenon
        <5> QED
          BY <5>1, <5>4, <5>5, Zenon
      <4>2. /\ ops = {o} /\ o.who = me /\ o.cap = profileUser
            /\ o.kind = "save" => o.name = profileRow[me].name /\ o.pic = profileRow[me].pic
            /\ o.kind = "upload" => /\ profileRow[me].pic = o.pic
                                    /\ ~profileUnsure => profileUser.name = profileRow[me].name
        BY <1>i, <2>3, <4>1 DEF OpFits
      <4>3. me # Unset
        BY <2>1, <4>2
      <4>4. ~profileUnsure => o.cap.id = me
        BY <1>i, <4>2, <4>3 DEF StoreFits
      <4>5. w.id = me
        BY <2>5, <4>1, <4>2, <4>4
      <4> QED
        BY <2>1, <2>5, <4>1, <4>2, <4>3, <4>5
    <3> QED
      BY <2>3, <3>1, <3>2 DEF StoreFits
  <2> QED
    BY <2>7, <2>8, <2>9, <2>10, <2>11, <2>12, <2>13 DEF ProfileInv
<1>15. ASSUME NEW o \in ops, Editing!Fail(o) PROVE ProfileInv'
  <2>0. PICK b : b = (o.stage # "sent")
    OBVIOUS
  <2>1. /\ ops' = ops \ {o} /\ profileUnsure' = (profileUnsure \/ b)
        /\ UNCHANGED <<profileRow, profileUser, me, profileForm, chosen, taps, mixed>>
    BY <1>15, <2>0 DEF Editing!Fail
  <2>2. profileUnsure' \in BOOLEAN
    BY <2>1, Zenon
  <2>3. ProfileCounts'
    BY <1>i, <2>1, <2>2 DEF ProfileCounts
  <2>4. StoreFits'
    <3>1. CASE profileUnsure'
      BY <1>i, <2>1, <3>1 DEF StoreFits
    <3>2. CASE ~profileUnsure'
      <4>1. ~profileUnsure /\ o.stage = "sent"
        BY <2>0, <2>1, <3>2
      <4>2. (\A k \in ops' : k.who = me => k.stage = "sent")
               => \A k \in ops : k.who = me => k.stage = "sent"
        BY <2>1, <4>1
      <4> QED
        BY <1>i, <2>1, <4>1, <4>2 DEF StoreFits
    <3> QED
      BY <3>1, <3>2
  <2>5. OpFits'
    <3>1. \A k \in ops' : ~k.clean
      BY <1>i, <2>1 DEF OpFits
    <3> QED
      BY <3>1 DEF OpFits
  <2>6. ProfileRows' /\ ProfileStore' /\ ProfileForms' /\ ProfileOps' /\ SignedFits'
    BY <1>i, <2>1 DEF ProfileRows, ProfileStore, ProfileForms, ProfileOps, SignedFits
  <2> QED
    BY <2>3, <2>4, <2>5, <2>6 DEF ProfileInv
<1>16. CASE Editing!Next
  BY <1>2, <1>3, <1>5, <1>6, <1>8, <1>9, <1>11, <1>12, <1>13, <1>14, <1>15, <1>16, <1>f
     DEF Editing!Next
<1> QED
  BY <1>1, <1>16

LEMMA ProfileFits == ProfileInv => Editing!ProfileAgreesAtRest
<1> SUFFICES ASSUME ProfileInv, ops = {}, ~profileUnsure
             PROVE  IF me = Unset THEN profileUser = Unset
                    ELSE /\ profileUser # Unset
                         /\ Editing!MapToDto(me, profileRow[me]) = [profileUser EXCEPT !.signed = Unset]
                         /\ mixed \/ profileUser.signed \in {Unset, profileUser.pic}
  BY DEF Editing!ProfileAgreesAtRest
<1>1. ProfileStore /\ SignedFits /\ StoreFits
  BY DEF ProfileInv
<1>2. CASE me = Unset
  BY <1>1, <1>2 DEF StoreFits
<1>3. CASE me # Unset
  <2>1. /\ profileUser \in StoredUser /\ profileUser # Unset /\ profileUser.id = me
        /\ profileUser.name = profileRow[me].name /\ profileUser.pic = profileRow[me].pic
    BY <1>1, <1>3 DEF StoreFits, ProfileStore
  <2>2. Editing!MapToDto(me, profileRow[me]) = [profileUser EXCEPT !.signed = Unset]
    BY <2>1 DEF Editing!MapToDto, StoredUser
  <2>3. mixed \/ profileUser.signed \in {Unset, profileUser.pic}
    BY <1>1, <2>1 DEF SignedFits
  <2> QED
    BY <1>3, <2>1, <2>2, <2>3
<1> QED
  BY <1>2, <1>3

-----------------------------------------------------------------------------
(* The newsletter.                                                         *)

\* A page of rows as the table has them, but for one post.
PostRow(p, P, E, S) == [id |-> p, pinned |-> p \in P, edited |-> p \in E, seen |-> p \in S]
PostRows == [id : 1 .. MaxPosts, pinned : BOOLEAN, edited : BOOLEAN, seen : BOOLEAN]
IdsOf(held) == {held[i].id : i \in 1 .. Len(held)}
Apart(held) == \A i, j \in 1 .. Len(held) : held[i].id = held[j].id => i = j
Current(held, P, E, S, but) ==
  \A i \in 1 .. Len(held) : held[i].id # but => held[i] = PostRow(held[i].id, P, E, S)

FeedTable ==
  /\ created \in 0 .. MaxPosts /\ gone \subseteq 1 .. created /\ pinned \subseteq 1 .. created
  /\ edited \subseteq 1 .. created /\ feedSeen \subseteq 1 .. created

LEMMA FeedBounds ==
  /\ MaxPosts \in Nat /\ MaxPosts # 0 /\ Limit \in Nat \ {0} /\ MaxFeedMoves \in Nat
  /\ Browsing!NoPost = 0
<1>1. MaxPosts \in Nat \ {0} /\ Limit \in Nat \ {0} /\ MaxFeedMoves \in Nat
  BY ServicesAssumption, Zenon DEF ServicesAssumption
<1> QED
  BY <1>1 DEF Browsing!NoPost

RowSays(x, p, P, E, S) ==
  /\ x \in PostRows /\ x.id = p
  /\ \A r \in PostRows : r = x <=> /\ r.id = p /\ r.pinned = (p \in P)
                                    /\ r.edited = (p \in E) /\ r.seen = (p \in S)

LEMMA PostRowIs ==
  ASSUME NEW p \in 1 .. MaxPosts, NEW P, NEW E, NEW S
  PROVE  RowSays(PostRow(p, P, E, S), p, P, E, S)
<1>1. PICK a, b, c : a = (p \in P) /\ b = (p \in E) /\ c = (p \in S)
  OBVIOUS
<1>2. a \in BOOLEAN /\ b \in BOOLEAN /\ c \in BOOLEAN
  <2>1. (p \in P) \in BOOLEAN /\ (p \in E) \in BOOLEAN /\ (p \in S) \in BOOLEAN
    OBVIOUS
  <2> QED
    BY <1>1, <2>1, Zenon
<1>3. PICK x : x = [id |-> p, pinned |-> a, edited |-> b, seen |-> c]
  OBVIOUS
<1>4. PostRow(p, P, E, S) = x
  BY <1>1, <1>3, Zenon DEF PostRow
<1>5. x \in PostRows /\ x.id = p
  BY <1>2, <1>3 DEF PostRows
<1>6. \A r \in PostRows : r = x <=> r.id = p /\ r.pinned = a /\ r.edited = b /\ r.seen = c
  BY <1>3 DEF PostRows
<1> QED
  BY <1>1, <1>4, <1>5, <1>6, Zenon DEF RowSays

LEMMA RowIs == \A p : Browsing!Row(p) = PostRow(p, pinned, edited, feedSeen)
BY Zenon DEF Browsing!Row, PostRow

LEMMA AboveIs == \A p, q : Browsing!Above(p, q) <=> Over(pinned, p, q)
<1> SUFFICES ASSUME NEW p, NEW q PROVE Browsing!Above(p, q) <=> Over(pinned, p, q)
  OBVIOUS
<1>1. ((p \in pinned) = (q \in pinned)) <=> (p \in pinned <=> q \in pinned)
  OBVIOUS
<1>2. CASE p \in pinned <=> q \in pinned
  BY <1>1, <1>2, Zenon DEF Browsing!Above, Over
<1>3. CASE ~(p \in pinned <=> q \in pinned)
  BY <1>1, <1>3, Zenon DEF Browsing!Above, Over
<1> QED
  BY <1>2, <1>3

\* findAll gives a page of the posts below the cursor, if it is there.
FoundFrom(cursor, held, next) ==
  /\ held \in Seq(PostRows) /\ next \in 0 .. MaxPosts
  /\ cursor \in Browsing!Live \cup {0} =>
       /\ next \in Browsing!Live \cup {0} /\ Apart(held)
       /\ next # 0 => next \in IdsOf(held)
       /\ IdsOf(held) = Between(Browsing!Live, pinned, cursor, next)
       /\ Current(held, pinned, edited, feedSeen, 0)

LEMMA FindAllFinds ==
  ASSUME FeedTable, NEW cursor \in 0 .. MaxPosts
  PROVE  FoundFrom(cursor, Browsing!FindAll(cursor).rows, Browsing!FindAll(cursor).next)
<1> USE FeedBounds
<1>1. PICK L : L = Browsing!Live
  OBVIOUS
<1>2. L \subseteq 1 .. MaxPosts /\ L \subseteq Nat \ {0}
  BY <1>1 DEF FeedTable, Browsing!Live
<1>3. IsFiniteSet(L)
  <2>1. IsFiniteSet(1 .. MaxPosts)
    BY FS_Interval
  <2> QED
    BY <1>2, <2>1, FS_Subset
<1>4. PICK F : F = {p \in L : cursor = 0 \/ p = cursor \/ Over(pinned, cursor, p)}
  OBVIOUS
<1>5. F = Browsing!From(cursor)
  BY <1>1, <1>4, AboveIs, Zenon DEF Browsing!From, Browsing!NoPost
<1>6. IsFiniteSet(F) /\ F \subseteq Nat /\ F \subseteq L
  BY <1>2, <1>3, <1>4, FS_Subset
<1>7. Browsing!Cardinality(F) = Cardinality(F)
  BY Zenon DEF Cardinality, Browsing!Cardinality
<1>8. PICK s : s = Browsing!Ordered(F)
  OBVIOUS
<1>9. LaidOut(pinned, F, s)
  <2>1. \E f : f \in [1 .. Cardinality(F) -> F]
                 /\ \A i, j \in 1 .. Cardinality(F) : i < j => Over(pinned, f[i], f[j])
    BY <1>6, PostsCanBeOrdered, Zenon DEF Orderable, LaidOut, Downward
  <2>2. \E f \in [1 .. Browsing!Cardinality(F) -> F] :
          \A i, j \in 1 .. Browsing!Cardinality(F) : i < j => Browsing!Above(f[i], f[j])
    BY <1>7, <2>1, AboveIs, Zenon
  <2>3. s \in [1 .. Browsing!Cardinality(F) -> F]
          /\ \A i, j \in 1 .. Browsing!Cardinality(F) : i < j => Browsing!Above(s[i], s[j])
    BY <1>8, <2>2, Zenon DEF Browsing!Ordered
  <2> QED
    BY <1>7, <2>3, AboveIs, Zenon DEF LaidOut, Downward
<1>10. PICK k : k = IF cursor = 0 THEN 0 ELSE 1
  OBVIOUS
<1>11. PICK n : n = IF Cardinality(F) - k > Limit THEN Limit ELSE Cardinality(F) - k
  OBVIOUS
<1>12. PICK e : e = IF Cardinality(F) - k > Limit THEN s[Limit + k] ELSE 0
  OBVIOUS
<1>13. /\ n \in Int
       /\ \A i \in 1 .. n : i + k \in 1 .. Cardinality(F) /\ s[i + k] \in L
       /\ \A i, j \in 1 .. n : s[i + k] = s[j + k] => i = j
       /\ e \in L \cup {0}
       /\ e # 0 => \E i \in 1 .. n : s[i + k] = e
       /\ cursor \in L \cup {0} => {s[i + k] : i \in 1 .. n} = Between(L, pinned, cursor, e)
  <2>1. cursor \in Nat /\ Limit \in Nat \ {0}
    OBVIOUS
  <2>2. IsCut(L, pinned, F, s, cursor, k, n, e)
    BY <1>2, <1>3, <1>4, <1>9, <1>10, <1>11, <1>12, <2>1, PageCut, Zenon
  <2> QED
    BY <2>2 DEF IsCut
<1>14. PICK held : held = [i \in 1 .. n |-> Browsing!Row(s[i + k])]
  OBVIOUS
<1>15. Browsing!FindAll(cursor) = [rows |-> held, next |-> e]
  BY <1>5, <1>7, <1>8, <1>10, <1>11, <1>12, <1>14, Zenon DEF Browsing!FindAll, Browsing!NoPost
<1>16. Browsing!FindAll(cursor).rows = held /\ Browsing!FindAll(cursor).next = e
  BY <1>15
<1>17. \A i \in 1 .. n : /\ held[i] = PostRow(s[i + k], pinned, edited, feedSeen)
                         /\ held[i] \in PostRows /\ held[i].id = s[i + k]
  <2> SUFFICES ASSUME NEW i \in 1 .. n
               PROVE  /\ held[i] = PostRow(s[i + k], pinned, edited, feedSeen)
                      /\ held[i] \in PostRows /\ held[i].id = s[i + k]
    OBVIOUS
  <2>1. held[i] = PostRow(s[i + k], pinned, edited, feedSeen)
    BY <1>14, RowIs, Zenon
  <2>2. s[i + k] \in 1 .. MaxPosts
    BY <1>2, <1>13
  <2>3. PICK p : p = s[i + k]
    OBVIOUS
  <2>4. RowSays(PostRow(p, pinned, edited, feedSeen), p, pinned, edited, feedSeen)
    BY <2>2, <2>3, PostRowIs
  <2> QED
    BY <2>1, <2>3, <2>4 DEF RowSays
<1>18. PICK m : m \in Nat /\ 1 .. n = 1 .. m
  <2>1. CASE n >= 0
    BY <1>13, <2>1
  <2>2. CASE n < 0
    <3>1. 1 .. n = 1 .. 0 /\ 0 \in Nat
      BY <1>13, <2>2
    <3> QED
      BY <3>1
  <2> QED
    BY <1>13, <2>1, <2>2
<1>19. held \in Seq(PostRows) /\ Len(held) = m
  <2>1. held \in [1 .. m -> PostRows]
    <3>1. held = [i \in 1 .. m |-> Browsing!Row(s[i + k])]
      BY <1>14, <1>18, Zenon
    <3>2. \A i \in 1 .. m : Browsing!Row(s[i + k]) \in PostRows
      BY <1>17, <1>18, RowIs, Zenon
    <3> QED
      BY <3>1, <3>2, Zenon
  <2> QED
    BY <1>18, <2>1
<1>20. Apart(held) /\ Current(held, pinned, edited, feedSeen, 0)
  BY <1>13, <1>17, <1>18, <1>19, Zenon DEF Apart, Current
<1>21. IdsOf(held) = {s[i + k] : i \in 1 .. n}
  <2>1. IdsOf(held) = {held[i].id : i \in 1 .. n}
    BY <1>18, <1>19, Zenon DEF IdsOf
  <2>2. \A i \in 1 .. n : held[i].id = s[i + k]
    BY <1>17
  <2> QED
    BY <2>1, <2>2, Zenon
<1>23. e # 0 => e \in IdsOf(held)
  BY <1>13, <1>21
<1>22. e \in 0 .. MaxPosts
  BY <1>2, <1>13
<1> QED
  BY <1>1, <1>13, <1>16, <1>19, <1>20, <1>21, <1>22, <1>23, Zenon DEF FoundFrom

PostLoads == [cursor : 0 .. MaxPosts, asked : BOOLEAN, rows : Seq(PostRows), next : 0 .. MaxPosts,
              clean : BOOLEAN, here : BOOLEAN, n : Nat]
FeedFlags ==
  /\ place \in 0 .. MaxPosts /\ ready \in BOOLEAN /\ feedLoading \in BOOLEAN
  /\ feedMoves \in 0 .. MaxFeedMoves
  /\ beside \in BOOLEAN /\ others \in BOOLEAN /\ moved \in BOOLEAN
FeedDetail ==
  detail \in PostRows \cup {Browsing!NoRow} /\ (place # 0 => detail \in PostRows)
FeedStore == posts \in Seq(PostRows) /\ nextCursor \in 0 .. MaxPosts
FeedAsks == feedLoads \subseteq PostLoads
FeedChange ==
  /\ change \in [kind : {"none", "create", "edit", "pin", "delete"}, id : 0 .. MaxPosts,
                 pin : BOOLEAN, stored : BOOLEAN]
  /\ change.kind = "none" => change = Browsing!Idle
  /\ change.stored => change.id \in 1 .. created
\* Nothing has happened that the list does not follow.
Quiet == ~beside /\ ~others /\ ~moved
\* Before the first answer.
Unfilled ==
  /\ posts = <<>> /\ nextCursor = 0 /\ place = 0 /\ ~ready /\ change.kind = "none"
  /\ \A l \in feedLoads : l.cursor = 0
\* While a change that was stored is not answered, its post may be stale.
IsFilled(held, end, c, live, P, E, S) ==
  /\ Apart(held) /\ Current(held, P, E, S, IF c.stored THEN c.id ELSE 0)
  /\ ~c.stored => end \in live \cup {0} /\ IdsOf(held) = Between(live, P, 0, end)
  /\ c.stored =>
       /\ end \in live \cup {0} \/ (c.kind = "delete" /\ end = c.id)
       /\ c.kind = "create" => c.id \notin IdsOf(held)
       /\ c.kind = "pin" => \A i \in 1 .. Len(held) : held[i].id = c.id =>
            [held[i] EXCEPT !.pinned = c.pin] = PostRow(c.id, P, E, S)
Filled == IsFilled(posts, nextCursor, change, Browsing!Live, pinned, edited, feedSeen)
FeedAgrees == Quiet => Unfilled \/ Filled
\* A clean load is alone; one that continues the list is answered with the
\* posts below its end.
PageBelow(l, live, P, E, S) ==
  /\ l.next \in live \cup {0} /\ Apart(l.rows) /\ Current(l.rows, P, E, S, 0)
  /\ IdsOf(l.rows) = Between(live, P, l.cursor, l.next)
  /\ l.next # 0 => l.next \in IdsOf(l.rows)
OneClean(X, c, end) == \A l \in X : l.clean =>
  /\ X = {l} /\ c.kind = "none"
  /\ l.cursor # 0 => l.cursor = end
PagesBelow(X, live, P, E, S) == \A l \in X :
  l.clean /\ l.cursor # 0 /\ ~l.asked => PageBelow(l, live, P, E, S)
CleanLoads ==
  /\ OneClean(feedLoads, change, nextCursor)
  /\ Quiet => PagesBelow(feedLoads, Browsing!Live, pinned, edited, feedSeen)
FeedInv ==
  /\ FeedTable /\ FeedFlags /\ FeedDetail /\ FeedStore /\ FeedAsks /\ FeedChange
  /\ FeedAgrees /\ CleanLoads

LEMMA SameTable ==
  ASSUME UNCHANGED Browsing!table
  PROVE  /\ created' = created /\ gone' = gone /\ pinned' = pinned /\ edited' = edited
         /\ feedSeen' = feedSeen /\ Browsing!Live' = Browsing!Live
         /\ FeedTable => FeedTable'
<1>1. /\ created' = created /\ gone' = gone /\ pinned' = pinned /\ edited' = edited
      /\ feedSeen' = feedSeen
  BY DEF Browsing!table
<1>2. Browsing!Live' = Browsing!Live
  BY <1>1, Zenon DEF Browsing!Live
<1>3. FeedTable => FeedTable'
  BY <1>1, Zenon DEF FeedTable
<1> QED
  BY <1>1, <1>2, <1>3

LEMMA IdleIs ==
  /\ Browsing!Idle.kind = "none" /\ Browsing!Idle.stored = FALSE /\ Browsing!Idle.id = 0
  /\ Browsing!Idle \in [kind : {"none", "create", "edit", "pin", "delete"}, id : 0 .. MaxPosts,
                        pin : BOOLEAN, stored : BOOLEAN]
BY FeedBounds DEF Browsing!Idle

LEMMA LiveIsMade == FeedTable => /\ Browsing!Live \subseteq 1 .. created
                                 /\ Browsing!Live \subseteq 1 .. MaxPosts
                                 /\ Browsing!Live \subseteq Nat \ {0}
BY FeedBounds DEF FeedTable, Browsing!Live

LEMMA InitFeed == Browsing!Init => FeedInv
<1> SUFFICES ASSUME Browsing!Init PROVE FeedInv
  OBVIOUS
<1> USE FeedBounds
<1>1. /\ created = MaxPosts - 1 /\ gone = {} /\ pinned = {} /\ edited = {} /\ feedSeen = {}
      /\ posts = <<>> /\ nextCursor = 0 /\ place = 0 /\ detail = Browsing!NoRow
      /\ ready = FALSE /\ feedLoading = TRUE
      /\ feedLoads = {Browsing!Load(0, TRUE, 0)}
      /\ change = Browsing!Idle /\ feedMoves = 0 /\ beside = FALSE /\ others = FALSE
      /\ moved = FALSE
  BY DEF Browsing!Init
<1>2. FeedTable
  BY <1>1 DEF FeedTable
<1>3. FeedFlags /\ FeedDetail
  <2>1. 0 \in 0 .. MaxPosts /\ 0 \in 0 .. MaxFeedMoves /\ FALSE \in BOOLEAN /\ TRUE \in BOOLEAN
    OBVIOUS
  <2> QED
    BY <1>1, <2>1, Zenon DEF FeedFlags, FeedDetail
<1>4. FeedStore
  <2>1. <<>> \in Seq(PostRows) /\ 0 \in 0 .. MaxPosts
    OBVIOUS
  <2> QED
    BY <1>1, <2>1, Zenon DEF FeedStore
<1>5. FeedChange
  BY <1>1, IdleIs, Zenon DEF FeedChange
<1>6. PICK l : l = Browsing!Load(0, TRUE, 0)
  OBVIOUS
<1>7. l \in PostLoads /\ l.cursor = 0
  <2>1. <<>> \in Seq(PostRows)
    OBVIOUS
  <2> QED
    BY <1>6, <2>1 DEF Browsing!Load, PostLoads
<1>8. feedLoads = {l}
  BY <1>1, <1>6
<1>9. FeedAsks
  BY <1>7, <1>8 DEF FeedAsks
<1>10. FeedAgrees
  BY <1>1, <1>7, <1>8, IdleIs DEF FeedAgrees, Unfilled
<1>11. CleanLoads
  BY <1>1, <1>7, <1>8, IdleIs DEF CleanLoads, OneClean, PagesBelow
<1> QED
  BY <1>2, <1>3, <1>4, <1>5, <1>9, <1>10, <1>11 DEF FeedInv

LEMMA UnsettledPosts ==
  ASSUME FeedAsks
  PROVE  /\ Browsing!Unsettled \subseteq PostLoads
         /\ \A x \in Browsing!Unsettled : ~x.clean /\ \E l \in feedLoads : x.cursor = l.cursor
         /\ feedLoads = {} => Browsing!Unsettled = {}
<1>1. Browsing!Unsettled = {[l EXCEPT !.clean = FALSE] : l \in feedLoads}
  BY DEF Browsing!Unsettled
<1>2. \A l \in feedLoads : /\ [l EXCEPT !.clean = FALSE] \in PostLoads
                           /\ ~[l EXCEPT !.clean = FALSE].clean
                           /\ [l EXCEPT !.clean = FALSE].cursor = l.cursor
  BY DEF FeedAsks, PostLoads
<1> QED
  BY <1>1, <1>2

Asked(X, cursor, clean) ==
  /\ X \subseteq PostLoads /\ X # {}
  /\ \A x \in X : x.cursor = cursor \/ \E l \in feedLoads : x.cursor = l.cursor
  /\ \A x \in X : x.clean => /\ clean /\ x.asked /\ x.cursor = cursor
                             /\ feedLoads = {} => X = {x}

\* A load that is made leaves at most itself clean, and only when alone.
LEMMA AskingPosts ==
  ASSUME FeedAsks, NEW cursor \in 0 .. MaxPosts, NEW clean, clean \in BOOLEAN,
         NEW k \in Nat, NEW X, X = Browsing!Unsettled \cup {Browsing!Load(cursor, clean, k)}
  PROVE  Asked(X, cursor, clean)
<1>1. PICK r : r = Browsing!Load(cursor, clean, k)
  OBVIOUS
<1>2. r \in PostLoads /\ r.cursor = cursor /\ r.clean = clean /\ r.asked
  <2>1. <<>> \in Seq(PostRows) /\ 0 \in 0 .. MaxPosts
    BY FeedBounds
  <2> QED
    BY <1>1, <2>1, FeedBounds DEF Browsing!Load, PostLoads
<1>3. X = Browsing!Unsettled \cup {r}
  BY <1>1
<1> QED
  BY <1>2, <1>3, UnsettledPosts, Zenon DEF Asked

LEMMA LoadingStep ==
  ASSUME FeedInv, NEW cursor \in {0, nextCursor}, Browsing!LoadPosts(cursor),
         UNCHANGED <<Browsing!table, Browsing!store, change, Browsing!history>>,
         place' = 0, detail' = detail \/ detail' = Browsing!NoRow,
         ready' = ready \/ (place # 0 /\ ready' = FALSE), detail' \in PostRows \/ TRUE,
         cursor # 0 => ready
  PROVE  FeedInv'
<1> USE FeedBounds
<1>1. PICK c : c = (feedLoads = {} /\ change = Browsing!Idle)
  OBVIOUS
<1>2. c \in BOOLEAN /\ (c => feedLoads = {} /\ change = Browsing!Idle)
  BY <1>1, Zenon
<1>3. /\ feedMoves < MaxFeedMoves /\ feedMoves' = feedMoves + 1 /\ feedLoading' = TRUE
      /\ feedLoads' = Browsing!Unsettled \cup {Browsing!Load(cursor, c, feedMoves + 1)}
  BY <1>1, Zenon DEF Browsing!LoadPosts, Browsing!Move
<1>4. /\ created' = created /\ gone' = gone /\ pinned' = pinned /\ edited' = edited
      /\ feedSeen' = feedSeen /\ Browsing!Live' = Browsing!Live /\ FeedTable'
  <2>1. UNCHANGED Browsing!table
    OBVIOUS
  <2> QED
    BY <2>1, SameTable DEF FeedInv
<1>5. /\ posts' = posts /\ nextCursor' = nextCursor /\ change' = change
      /\ beside' = beside /\ others' = others /\ moved' = moved
  BY DEF Browsing!store, Browsing!history
<1>6. feedMoves \in 0 .. MaxFeedMoves /\ feedMoves + 1 \in Nat /\ feedMoves' \in 0 .. MaxFeedMoves
  BY <1>3 DEF FeedInv, FeedFlags
<1>7. nextCursor \in 0 .. MaxPosts /\ cursor \in 0 .. MaxPosts
  BY DEF FeedInv, FeedStore
<1>8. FeedFlags'
  <2>1. FALSE \in BOOLEAN /\ TRUE \in BOOLEAN /\ 0 \in 0 .. MaxPosts
    OBVIOUS
  <2> QED
    BY <1>3, <1>5, <1>6, <2>1, Zenon DEF FeedInv, FeedFlags
<1>9. FeedDetail'
  BY Zenon DEF FeedInv, FeedDetail
<1>10. FeedStore'
  BY <1>5, Zenon DEF FeedInv, FeedStore
<1>11. FeedChange'
  BY <1>4, <1>5, Zenon DEF FeedInv, FeedChange
<1>12. PICK X : X = feedLoads'
  OBVIOUS
<1>13. /\ X \subseteq PostLoads
       /\ \A x \in X : x.cursor = cursor \/ \E l \in feedLoads : x.cursor = l.cursor
       /\ \A x \in X : x.clean => /\ c /\ x.asked /\ x.cursor = cursor
                                  /\ feedLoads = {} => X = {x}
  <2>1. FeedAsks
    BY DEF FeedInv
  <2>2. X = Browsing!Unsettled \cup {Browsing!Load(cursor, c, feedMoves + 1)}
    BY <1>3, <1>12
  <2>3. Asked(X, cursor, c)
    BY <1>2, <1>6, <1>7, <2>1, <2>2, AskingPosts
  <2> QED
    BY <2>3, Zenon DEF Asked
<1>14. FeedAsks'
  BY <1>12, <1>13 DEF FeedAsks
<1>15. FeedAgrees'
  <2>1. Filled => Filled'
    BY <1>4, <1>5, Zenon DEF Filled
  <2>2. ASSUME Unfilled PROVE Unfilled'
    <3>1. cursor = 0 /\ ~ready'
      BY <2>2 DEF Unfilled
    <3>2. \A x \in X : x.cursor = 0
      BY <1>13, <2>2, <3>1 DEF Unfilled
    <3> QED
      BY <1>5, <1>12, <2>2, <3>1, <3>2, Zenon DEF Unfilled
  <2>3. Quiet' => Quiet
    BY <1>5 DEF Quiet
  <2> QED
    BY <2>1, <2>2, <2>3 DEF FeedInv, FeedAgrees
<1>16. CleanLoads'
  <2>1. ASSUME NEW x \in X, x.clean
        PROVE  X = {x} /\ x.asked /\ x.cursor = cursor /\ change = Browsing!Idle
    BY <1>2, <1>13, <2>1
  <2>2. OneClean(X, change, nextCursor)
    BY <2>1, IdleIs DEF OneClean
  <2>3. PagesBelow(X, Browsing!Live, pinned, edited, feedSeen)
    BY <2>1 DEF PagesBelow
  <2> QED
    BY <1>4, <1>5, <1>12, <2>2, <2>3, Zenon DEF CleanLoads
<1> QED
  BY <1>4, <1>8, <1>9, <1>10, <1>11, <1>14, <1>15, <1>16 DEF FeedInv

LEMMA ReloadStep ==
  ASSUME FeedInv, Browsing!SocketReplaced \/ Browsing!LoadMore \/ Browsing!BackToList
  PROVE  FeedInv'
<1> USE FeedBounds
<1>1. CASE Browsing!SocketReplaced
  <2>1. /\ place = 0 /\ Browsing!LoadPosts(0) /\ place' = place /\ detail' = detail /\ ready' = ready
        /\ UNCHANGED <<Browsing!table, Browsing!store, change, Browsing!history>>
    BY <1>1 DEF Browsing!SocketReplaced, Browsing!pages
  <2>2. 0 \in {0, nextCursor}
    OBVIOUS
  <2> QED
    BY <2>1, <2>2, LoadingStep
<1>2. CASE Browsing!LoadMore
  <2>1. /\ place = 0 /\ ready /\ Browsing!LoadPosts(nextCursor)
        /\ place' = place /\ detail' = detail /\ ready' = ready
        /\ UNCHANGED <<Browsing!table, Browsing!store, change, Browsing!history>>
    BY <1>2 DEF Browsing!LoadMore, Browsing!pages
  <2>2. nextCursor \in {0, nextCursor}
    OBVIOUS
  <2> QED
    BY <2>1, <2>2, LoadingStep
<1>3. CASE Browsing!BackToList
  <2>1. /\ place # 0 /\ Browsing!LoadPosts(0)
        /\ place' = 0 /\ detail' = Browsing!NoRow /\ ready' = FALSE
        /\ UNCHANGED <<Browsing!table, Browsing!store, change, Browsing!history>>
    BY <1>3 DEF Browsing!BackToList
  <2>2. 0 \in {0, nextCursor}
    OBVIOUS
  <2> QED
    BY <2>1, <2>2, LoadingStep
<1> QED
  BY <1>1, <1>2, <1>3

LEMMA ReadStep ==
  ASSUME FeedInv, NEW l \in feedLoads, Browsing!Read(l)
  PROVE  FeedInv'
<1> USE FeedBounds
<1>1. PICK held, next : /\ held = Browsing!FindAll(l.cursor).rows
                        /\ next = Browsing!FindAll(l.cursor).next
  OBVIOUS
<1>2. l \in PostLoads
  BY DEF FeedInv, FeedAsks
<1>3. l.cursor \in 0 .. MaxPosts
  BY <1>2 DEF PostLoads
<1>4. FoundFrom(l.cursor, held, next)
  BY <1>1, <1>3, FindAllFinds DEF FeedInv
<1>5. PICK r : r = [l EXCEPT !.asked = FALSE, !.rows = held, !.next = next]
  OBVIOUS
<1>6. /\ r \in PostLoads /\ r.cursor = l.cursor /\ r.clean = l.clean /\ r.rows = held
      /\ r.next = next
  <2>1. held \in Seq(PostRows) /\ next \in 0 .. MaxPosts
    BY <1>4 DEF FoundFrom
  <2> QED
    BY <1>2, <1>5, <2>1 DEF PostLoads
<1>7. feedLoads' = (feedLoads \ {l}) \cup {r}
  BY <1>1, <1>5, Zenon DEF Browsing!Read
<1>8. UNCHANGED <<Browsing!table, Browsing!store, Browsing!pages, feedLoading, change, feedMoves,
                  Browsing!history>>
  BY Zenon DEF Browsing!Read
<1>9. /\ created' = created /\ gone' = gone /\ pinned' = pinned /\ edited' = edited
      /\ feedSeen' = feedSeen /\ Browsing!Live' = Browsing!Live /\ FeedTable'
  <2>1. UNCHANGED Browsing!table
    BY <1>8
  <2> QED
    BY <2>1, SameTable DEF FeedInv
<1>10. /\ posts' = posts /\ nextCursor' = nextCursor /\ change' = change
       /\ place' = place /\ detail' = detail /\ ready' = ready
       /\ feedLoading' = feedLoading /\ feedMoves' = feedMoves
       /\ beside' = beside /\ others' = others /\ moved' = moved
  BY <1>8 DEF Browsing!store, Browsing!pages, Browsing!history
<1>11. FeedFlags' /\ FeedDetail' /\ FeedStore' /\ FeedChange'
  BY <1>9, <1>10, Zenon DEF FeedInv, FeedFlags, FeedDetail, FeedStore, FeedChange
<1>12. FeedAsks'
  BY <1>6, <1>7 DEF FeedInv, FeedAsks
<1>13. Quiet' <=> Quiet
  BY <1>10, Zenon DEF Quiet
<1>14. FeedAgrees'
  <2>1. Filled => Filled'
    BY <1>9, <1>10, Zenon DEF Filled
  <2>2. ASSUME Unfilled PROVE Unfilled'
    <3>1. PICK X : X = feedLoads'
      OBVIOUS
    <3>2. \A x \in X : x.cursor = 0
      BY <1>6, <1>7, <2>2, <3>1 DEF Unfilled
    <3> QED
      BY <1>10, <2>2, <3>1, <3>2, Zenon DEF Unfilled
  <2> QED
    BY <1>13, <2>1, <2>2 DEF FeedInv, FeedAgrees
<1>15. CleanLoads'
  <2>1. PICK X : X = feedLoads'
    OBVIOUS
  <2>2. ASSUME NEW x \in X, x.clean
        PROVE  /\ x = r /\ l.clean /\ feedLoads = {l} /\ X = {x} /\ change.kind = "none"
               /\ x.cursor # 0 => x.cursor = nextCursor
    <3>1. \A k \in feedLoads : k.clean => /\ feedLoads = {k} /\ change.kind = "none"
                                          /\ k.cursor # 0 => k.cursor = nextCursor
      BY DEF FeedInv, CleanLoads, OneClean
    <3>2. x = r
      BY <1>7, <2>1, <2>2, <3>1
    <3> QED
      BY <1>6, <1>7, <2>1, <2>2, <3>1, <3>2
  <2>3. OneClean(X, change, nextCursor)
    BY <2>2 DEF OneClean
  <2>4. ASSUME Quiet, NEW x \in X, x.clean, x.cursor # 0
        PROVE  PageBelow(x, Browsing!Live, pinned, edited, feedSeen)
    <3>1. ~Unfilled
      BY <1>6, <2>2, <2>4 DEF Unfilled
    <3>2. Filled
      BY <2>4, <3>1 DEF FeedInv, FeedAgrees
    <3>3. ~change.stored
      BY <2>2, <2>4, IdleIs DEF FeedInv, FeedChange
    <3>4. l.cursor \in Browsing!Live \cup {0}
      BY <1>6, <2>2, <2>4, <3>2, <3>3 DEF Filled, IsFilled
    <3> QED
      BY <1>4, <1>6, <2>2, <2>4, <3>4, Zenon DEF FoundFrom, PageBelow
  <2>5. Quiet => PagesBelow(X, Browsing!Live, pinned, edited, feedSeen)
    BY <2>4 DEF PagesBelow
  <2> QED
    BY <1>9, <1>10, <1>13, <2>1, <2>3, <2>5, Zenon DEF CleanLoads
<1> QED
  BY <1>9, <1>11, <1>12, <1>14, <1>15 DEF FeedInv

\* What lies above the end of a list, and between it and a further end.
LEMMA BetweenJoins ==
  ASSUME NEW P, NEW live, live \subseteq Nat \ {0}, NEW c \in live, NEW e \in live \cup {0},
         e # 0 => e \in Between(live, P, c, e)
  PROVE  /\ Between(live, P, 0, c) \cup Between(live, P, c, e) = Between(live, P, 0, e)
         /\ Between(live, P, 0, c) \cap Between(live, P, c, e) = {}
<1>1. \A p \in live : p \in Nat
  OBVIOUS
<1>2. c # 0 /\ c \in Nat
  OBVIOUS
<1>3. e # 0 => Over(P, c, e)
  BY <1>2 DEF Between
<1>4. ASSUME NEW p \in live
      PROVE  /\ p \in Between(live, P, 0, c) <=> p = c \/ Over(P, p, c)
             /\ p \in Between(live, P, c, e) <=>
                  Over(P, c, p) /\ (e = 0 \/ p = e \/ Over(P, p, e))
             /\ p \in Between(live, P, 0, e) <=> e = 0 \/ p = e \/ Over(P, p, e)
  BY <1>2, <1>4, Zenon DEF Between
<1>5. ASSUME NEW p \in live
      PROVE  /\ (p = c \/ Over(P, p, c)) /\ e # 0 => Over(P, p, e)
             /\ p # c => Over(P, p, c) \/ Over(P, c, p)
             /\ ~((p = c \/ Over(P, p, c)) /\ Over(P, c, p))
  BY <1>1, <1>2, <1>3 DEF Over
<1>6. \A p : p \in Between(live, P, 0, c) \/ p \in Between(live, P, c, e)
               \/ p \in Between(live, P, 0, e) => p \in live
  BY DEF Between
<1> HIDE DEF Between
<1> QED
  BY <1>4, <1>5, <1>6

LEMMA RowsJoin ==
  ASSUME NEW a \in Seq(PostRows), NEW b \in Seq(PostRows), NEW P, NEW E, NEW S,
         Apart(a), Apart(b), IdsOf(a) \cap IdsOf(b) = {},
         Current(a, P, E, S, 0), Current(b, P, E, S, 0)
  PROVE  /\ a \o b \in Seq(PostRows) /\ Apart(a \o b) /\ Current(a \o b, P, E, S, 0)
         /\ IdsOf(a \o b) = IdsOf(a) \cup IdsOf(b)
<1>1. /\ Len(a) \in Nat /\ Len(b) \in Nat /\ Len(a \o b) = Len(a) + Len(b)
      /\ \A i \in 1 .. Len(a \o b) :
           (a \o b)[i] = IF i <= Len(a) THEN a[i] ELSE b[i - Len(a)]
      /\ a \o b \in Seq(PostRows)
  BY ConcatProperties, LenProperties
<1>2. PICK s : s = a \o b
  OBVIOUS
<1>3. PICK m, n : m = Len(a) /\ n = Len(b)
  OBVIOUS
<1>4. /\ m \in Nat /\ n \in Nat /\ Len(s) = m + n
      /\ \A i \in 1 .. m + n : s[i] = IF i <= m THEN a[i] ELSE b[i - m]
  BY <1>1, <1>2, <1>3
<1>5. \A i \in 1 .. m : i \in 1 .. m + n /\ s[i] = a[i]
  BY <1>4
<1>6. \A i \in 1 .. n : i + m \in 1 .. m + n /\ s[i + m] = b[i]
  BY <1>4
<1>7. \A i \in 1 .. m + n : i \in 1 .. m \/ (i - m \in 1 .. n /\ i = (i - m) + m)
  BY <1>4
<1>8. \A i \in 1 .. m : a[i].id \in IdsOf(a)
  BY <1>3 DEF IdsOf
<1>9. \A i \in 1 .. n : b[i].id \in IdsOf(b)
  BY <1>3 DEF IdsOf
<1>10. \A i, j \in 1 .. m : a[i].id = a[j].id => i = j
  BY <1>3 DEF Apart
<1>11. \A i, j \in 1 .. n : b[i].id = b[j].id => i = j
  BY <1>3 DEF Apart
<1>12. Apart(s)
  <2> SUFFICES ASSUME NEW i \in 1 .. m + n, NEW j \in 1 .. m + n, s[i].id = s[j].id
               PROVE  i = j
    BY <1>4 DEF Apart
  <2>1. CASE i \in 1 .. m /\ j \in 1 .. m
    BY <1>5, <1>10, <2>1
  <2>2. CASE i - m \in 1 .. n /\ j - m \in 1 .. n
    <3>1. s[i] = b[i - m] /\ s[j] = b[j - m]
      BY <1>4, <2>2
    <3>2. i - m = j - m
      BY <1>11, <2>2, <3>1
    <3> QED
      BY <1>4, <3>2
  <2>3. CASE i \in 1 .. m /\ j - m \in 1 .. n
    BY <1>4, <1>5, <1>8, <1>9, <2>3
  <2>4. CASE i - m \in 1 .. n /\ j \in 1 .. m
    BY <1>4, <1>5, <1>8, <1>9, <2>4
  <2> QED
    BY <1>7, <2>1, <2>2, <2>3, <2>4
<1>13. Current(s, P, E, S, 0)
  <2> SUFFICES ASSUME NEW i \in 1 .. m + n, s[i].id # 0
               PROVE  s[i] = PostRow(s[i].id, P, E, S)
    BY <1>4 DEF Current
  <2>1. CASE i \in 1 .. m
    BY <1>3, <1>5, <2>1 DEF Current
  <2>2. CASE i - m \in 1 .. n
    <3>1. s[i] = b[i - m]
      BY <1>4, <2>2
    <3> QED
      BY <1>3, <2>2, <3>1 DEF Current
  <2> QED
    BY <1>7, <2>1, <2>2
<1>14. \A x : x \in IdsOf(s) <=> x \in IdsOf(a) \/ x \in IdsOf(b)
  <2>1. \A x \in IdsOf(s) : x \in IdsOf(a) \/ x \in IdsOf(b)
    <3> SUFFICES ASSUME NEW i \in 1 .. m + n PROVE s[i].id \in IdsOf(a) \/ s[i].id \in IdsOf(b)
      BY <1>4 DEF IdsOf
    <3>1. CASE i \in 1 .. m
      BY <1>5, <1>8, <3>1
    <3>2. CASE i - m \in 1 .. n
      <4>1. s[i] = b[i - m]
        BY <1>4, <3>2
      <4> QED
        BY <1>9, <3>2, <4>1
    <3> QED
      BY <1>7, <3>1, <3>2
  <2>2. \A x \in IdsOf(a) : x \in IdsOf(s)
    BY <1>3, <1>4, <1>5 DEF IdsOf
  <2>3. \A x \in IdsOf(b) : x \in IdsOf(s)
    BY <1>3, <1>4, <1>6 DEF IdsOf
  <2> QED
    BY <2>1, <2>2, <2>3
<1>15. IdsOf(s) = IdsOf(a) \cup IdsOf(b)
  BY <1>14
<1> QED
  BY <1>1, <1>2, <1>12, <1>13, <1>15

\* A load that ends leaves no other clean one.
LEMMA LoadGone ==
  ASSUME FeedInv, NEW l \in feedLoads, NEW X, X = feedLoads \ {l}
  PROVE  X \subseteq PostLoads /\ \A x \in X : ~x.clean
<1>1. \A k \in feedLoads : k.clean => feedLoads = {k}
  BY DEF FeedInv, CleanLoads, OneClean
<1>2. feedLoads \subseteq PostLoads
  BY DEF FeedInv, FeedAsks
<1> QED
  BY <1>1, <1>2

LEMMA NoneClean ==
  ASSUME NEW X, \A x \in X : ~x.clean, NEW c, NEW end, NEW live, NEW P, NEW E, NEW S
  PROVE  OneClean(X, c, end) /\ PagesBelow(X, live, P, E, S)
BY DEF OneClean, PagesBelow

LEMMA AnswerStep ==
  ASSUME FeedInv, NEW l \in feedLoads, Browsing!Answer(l)
  PROVE  FeedInv'
<1> USE FeedBounds
<1>1. /\ ~l.asked /\ feedLoads' = feedLoads \ {l}
      /\ posts' = IF l.cursor = 0 THEN l.rows ELSE posts \o l.rows
      /\ nextCursor' = l.next
      /\ UNCHANGED <<Browsing!table, place, detail, change, feedMoves>>
  BY Zenon DEF Browsing!Answer, Browsing!SetPosts, Browsing!AppendPosts, Browsing!NoPost
<1>2. ready' \in BOOLEAN /\ feedLoading' \in BOOLEAN
  <2>1. TRUE \in BOOLEAN /\ FALSE \in BOOLEAN
    OBVIOUS
  <2> QED
    BY <2>1, Zenon DEF Browsing!Answer, Browsing!Settle, FeedInv, FeedFlags
<1>3. /\ created' = created /\ gone' = gone /\ pinned' = pinned /\ edited' = edited
      /\ feedSeen' = feedSeen /\ Browsing!Live' = Browsing!Live /\ FeedTable'
  <2>1. UNCHANGED Browsing!table
    BY <1>1
  <2> QED
    BY <2>1, SameTable DEF FeedInv
<1>4. place' = place /\ detail' = detail /\ change' = change /\ feedMoves' = feedMoves
  BY <1>1
<1>5. l \in PostLoads
  BY DEF FeedInv, FeedAsks
<1>6. l.cursor \in 0 .. MaxPosts /\ l.rows \in Seq(PostRows) /\ l.next \in 0 .. MaxPosts
      /\ l.clean \in BOOLEAN
  BY <1>5 DEF PostLoads
<1>7. PICK f : f = Browsing!FindAll(0)
  OBVIOUS
<1>8. ASSUME l.cursor = 0
      PROVE  FeedFlags' /\ FeedStore' /\ FeedAgrees'
  <2>1. beside' = ~l.clean /\ moved' = FALSE /\ others' = (l.rows # f.rows \/ l.next # f.next)
    BY <1>7, <1>8, Zenon DEF Browsing!Answer, Browsing!NoPost
  <2>2. (~l.clean) \in BOOLEAN /\ FALSE \in BOOLEAN /\ (l.rows # f.rows \/ l.next # f.next) \in BOOLEAN
    OBVIOUS
  <2>3. FeedFlags'
    BY <1>2, <1>4, <2>1, <2>2, Zenon DEF FeedInv, FeedFlags
  <2>4. FeedStore'
    BY <1>1, <1>6, <1>8, Zenon DEF FeedStore
  <2>5. ASSUME Quiet'
        PROVE  l.clean /\ l.rows = f.rows /\ l.next = f.next
    BY <2>1, <2>5, Zenon DEF Quiet
  <2>6. ASSUME Quiet' PROVE Filled'
    <3>1. change.kind = "none"
      BY <2>5, <2>6 DEF FeedInv, CleanLoads, OneClean
    <3>2. ~change.stored
      BY <3>1, IdleIs DEF FeedInv, FeedChange
    <3>3. FoundFrom(0, f.rows, f.next)
      <4>1. 0 \in 0 .. MaxPosts
        OBVIOUS
      <4> QED
        BY <1>7, <4>1, FindAllFinds DEF FeedInv
    <3>4. posts' = f.rows /\ nextCursor' = f.next
      BY <1>1, <1>8, <2>5, <2>6
    <3>5. IsFilled(f.rows, f.next, change, Browsing!Live, pinned, edited, feedSeen)
      <4>1. 0 \in Browsing!Live \cup {0}
        OBVIOUS
      <4> QED
        BY <3>2, <3>3, <4>1, Zenon DEF FoundFrom, IsFilled
    <3> QED
      BY <1>3, <1>4, <3>4, <3>5, Zenon DEF Filled
  <2>7. FeedAgrees'
    BY <2>6 DEF FeedAgrees
  <2> QED
    BY <2>3, <2>4, <2>7
<1>9. ASSUME l.cursor # 0
      PROVE  FeedFlags' /\ FeedStore' /\ FeedAgrees'
  <2>1. beside' = (beside \/ ~l.clean) /\ others' = others /\ moved' = moved
    BY <1>9, Zenon DEF Browsing!Answer, Browsing!NoPost
  <2>2. (beside \/ ~l.clean) \in BOOLEAN
    OBVIOUS
  <2>3. FeedFlags'
    BY <1>2, <1>4, <2>1, <2>2, Zenon DEF FeedInv, FeedFlags
  <2>4. posts' = posts \o l.rows /\ posts \in Seq(PostRows)
    BY <1>1, <1>9 DEF FeedInv, FeedStore
  <2>5. posts \o l.rows \in Seq(PostRows)
    BY <1>6, <2>4, ConcatProperties
  <2>6. FeedStore'
    BY <1>1, <1>6, <2>4, <2>5, Zenon DEF FeedStore
  <2>7. ASSUME Quiet'
        PROVE  Quiet /\ l.clean
    BY <2>1, <2>7, Zenon DEF Quiet
  <2>8. ASSUME Quiet' PROVE Filled'
    <3>1. /\ feedLoads = {l} /\ change.kind = "none" /\ l.cursor = nextCursor
      BY <1>9, <2>7, <2>8 DEF FeedInv, CleanLoads, OneClean
    <3>2. ~change.stored
      BY <3>1, IdleIs DEF FeedInv, FeedChange
    <3>3. PICK L : L = Browsing!Live
      OBVIOUS
    <3>4. PageBelow(l, L, pinned, edited, feedSeen)
      BY <1>1, <1>9, <2>7, <2>8, <3>3 DEF FeedInv, CleanLoads, PagesBelow
    <3>5. IsFilled(posts, nextCursor, change, L, pinned, edited, feedSeen)
      <4>1. ~Unfilled
        BY <1>9 DEF Unfilled
      <4> QED
        BY <2>7, <2>8, <3>3, <4>1 DEF FeedInv, FeedAgrees, Filled
    <3>6. /\ nextCursor \in L /\ Apart(posts) /\ Current(posts, pinned, edited, feedSeen, 0)
          /\ IdsOf(posts) = Between(L, pinned, 0, nextCursor)
      BY <1>9, <3>1, <3>2, <3>5 DEF IsFilled
    <3>7. /\ l.next \in L \cup {0} /\ Apart(l.rows)
          /\ Current(l.rows, pinned, edited, feedSeen, 0)
          /\ IdsOf(l.rows) = Between(L, pinned, nextCursor, l.next)
          /\ l.next # 0 => l.next \in Between(L, pinned, nextCursor, l.next)
      BY <3>1, <3>4 DEF PageBelow
    <3>8. L \subseteq Nat \ {0}
      BY <3>3, LiveIsMade DEF FeedInv
    <3>9. /\ IdsOf(posts) \cup IdsOf(l.rows) = Between(L, pinned, 0, l.next)
          /\ IdsOf(posts) \cap IdsOf(l.rows) = {}
      BY <3>6, <3>7, <3>8, BetweenJoins
    <3>10. PICK s : s = posts \o l.rows
      OBVIOUS
    <3>11. /\ Apart(s) /\ Current(s, pinned, edited, feedSeen, 0)
           /\ IdsOf(s) = Between(L, pinned, 0, l.next)
      BY <1>6, <2>4, <3>6, <3>7, <3>9, <3>10, RowsJoin
    <3>12. IsFilled(s, l.next, change, L, pinned, edited, feedSeen)
      BY <3>2, <3>7, <3>11, Zenon DEF IsFilled
    <3> QED
      BY <1>1, <1>3, <1>4, <2>4, <3>3, <3>10, <3>12, Zenon DEF Filled
  <2>9. FeedAgrees'
    BY <2>8 DEF FeedAgrees
  <2> QED
    BY <2>3, <2>6, <2>9
<1>10. FeedFlags' /\ FeedStore' /\ FeedAgrees'
  BY <1>8, <1>9
<1>11. FeedDetail' /\ FeedChange'
  BY <1>3, <1>4, Zenon DEF FeedInv, FeedDetail, FeedChange
<1>12. FeedAsks' /\ CleanLoads'
  <2>1. PICK X : X = feedLoads \ {l}
    OBVIOUS
  <2>2. X \subseteq PostLoads /\ \A x \in X : ~x.clean
    BY <2>1, LoadGone
  <2> QED
    BY <1>1, <2>1, <2>2, NoneClean, Zenon DEF FeedAsks, CleanLoads
<1> QED
  BY <1>3, <1>10, <1>11, <1>12 DEF FeedInv

LEMMA LoadFailsStep ==
  ASSUME FeedInv, NEW l \in feedLoads, Browsing!LoadFails(l)
  PROVE  FeedInv'
<1> USE FeedBounds
<1>1. /\ feedLoads' = feedLoads \ {l} /\ beside' = (beside \/ l.cursor = 0)
      /\ UNCHANGED <<Browsing!table, Browsing!store, place, detail, change, feedMoves, others, moved>>
  BY Zenon DEF Browsing!LoadFails, Browsing!NoPost
<1>2. ready' \in BOOLEAN /\ feedLoading' \in BOOLEAN
  <2>1. TRUE \in BOOLEAN /\ FALSE \in BOOLEAN
    OBVIOUS
  <2> QED
    BY <2>1, Zenon DEF Browsing!LoadFails, Browsing!Settle, FeedInv, FeedFlags
<1>3. /\ created' = created /\ gone' = gone /\ pinned' = pinned /\ edited' = edited
      /\ feedSeen' = feedSeen /\ Browsing!Live' = Browsing!Live /\ FeedTable'
  <2>1. UNCHANGED Browsing!table
    BY <1>1
  <2> QED
    BY <2>1, SameTable DEF FeedInv
<1>4. /\ place' = place /\ detail' = detail /\ change' = change /\ feedMoves' = feedMoves
      /\ posts' = posts /\ nextCursor' = nextCursor /\ others' = others /\ moved' = moved
  BY <1>1 DEF Browsing!store
<1>5. (beside \/ l.cursor = 0) \in BOOLEAN
  OBVIOUS
<1>6. FeedFlags' /\ FeedStore' /\ FeedDetail' /\ FeedChange'
  BY <1>1, <1>2, <1>3, <1>4, <1>5, Zenon
    DEF FeedInv, FeedFlags, FeedStore, FeedDetail, FeedChange
<1>7. FeedAgrees'
  <2> SUFFICES ASSUME Quiet' PROVE Filled'
    BY DEF FeedAgrees
  <2>1. Quiet /\ l.cursor # 0
    <3>1. ~beside' /\ ~others' /\ ~moved'
      BY DEF Quiet
    <3>2. ~(beside \/ l.cursor = 0)
      BY <1>1, <3>1, Zenon
    <3> QED
      BY <1>4, <3>1, <3>2 DEF Quiet
  <2>2. Filled
    BY <2>1 DEF FeedInv, FeedAgrees, Unfilled
  <2> QED
    BY <1>3, <1>4, <2>2, Zenon DEF Filled
<1>8. FeedAsks' /\ CleanLoads'
  <2>1. PICK X : X = feedLoads \ {l}
    OBVIOUS
  <2>2. X \subseteq PostLoads /\ \A x \in X : ~x.clean
    BY <2>1, LoadGone
  <2> QED
    BY <1>1, <2>1, <2>2, NoneClean, Zenon DEF FeedAsks, CleanLoads
<1> QED
  BY <1>3, <1>6, <1>7, <1>8 DEF FeedInv

LEMMA OpenDetailStep ==
  ASSUME FeedInv, NEW p \in Browsing!Ids, Browsing!OpenDetail(p)
  PROVE  FeedInv'
<1> USE FeedBounds
<1>1. /\ place = 0 /\ ready /\ feedMoves < MaxFeedMoves /\ feedMoves' = feedMoves + 1
      /\ place' = p /\ detail' = Browsing!Row(p)
      /\ feedLoads' = {[l EXCEPT !.here = FALSE] : l \in feedLoads}
      /\ UNCHANGED <<Browsing!table, Browsing!store, ready, feedLoading, change, Browsing!history>>
  BY DEF Browsing!OpenDetail, Browsing!Move, Browsing!NoPost
<1>2. p \in 1 .. MaxPosts /\ p \in 0 .. MaxPosts
  BY DEF Browsing!Ids
<1>3. /\ created' = created /\ gone' = gone /\ pinned' = pinned /\ edited' = edited
      /\ feedSeen' = feedSeen /\ Browsing!Live' = Browsing!Live /\ FeedTable'
  <2>1. UNCHANGED Browsing!table
    BY <1>1
  <2> QED
    BY <2>1, SameTable DEF FeedInv
<1>4. /\ ready' = ready /\ feedLoading' = feedLoading /\ change' = change
      /\ posts' = posts /\ nextCursor' = nextCursor
      /\ beside' = beside /\ others' = others /\ moved' = moved
  BY <1>1 DEF Browsing!store, Browsing!history
<1>5. detail' \in PostRows
  <2>1. RowSays(PostRow(p, pinned, edited, feedSeen), p, pinned, edited, feedSeen)
    BY <1>2, PostRowIs
  <2> QED
    BY <1>1, <2>1, RowIs, Zenon DEF RowSays
<1>6. feedMoves' \in 0 .. MaxFeedMoves
  BY <1>1 DEF FeedInv, FeedFlags
<1>7. FeedFlags' /\ FeedStore' /\ FeedDetail' /\ FeedChange'
  BY <1>1, <1>2, <1>3, <1>4, <1>5, <1>6, Zenon
    DEF FeedInv, FeedFlags, FeedStore, FeedDetail, FeedChange
<1>8. Quiet' <=> Quiet
  BY <1>4, Zenon DEF Quiet
<1>9. FeedAgrees'
  <2>1. ~Unfilled
    BY <1>1 DEF Unfilled
  <2>2. Filled => Filled'
    BY <1>3, <1>4, Zenon DEF Filled
  <2> QED
    BY <1>8, <2>1, <2>2 DEF FeedInv, FeedAgrees
<1>10. PICK X : X = feedLoads'
  OBVIOUS
<1>11. ASSUME NEW x \in X
       PROVE  \E l \in feedLoads :
                /\ x \in PostLoads /\ x.clean = l.clean /\ x.cursor = l.cursor
                /\ x.asked = l.asked /\ x.rows = l.rows /\ x.next = l.next
                /\ feedLoads = {l} => X = {x}
  <2>1. PICK l \in feedLoads : x = [l EXCEPT !.here = FALSE]
    BY <1>1, <1>10
  <2>2. /\ x \in PostLoads /\ x.clean = l.clean /\ x.cursor = l.cursor
        /\ x.asked = l.asked /\ x.rows = l.rows /\ x.next = l.next
    BY <2>1 DEF FeedInv, FeedAsks, PostLoads
  <2>3. feedLoads = {l} => X = {x}
    BY <1>1, <1>10, <2>1, Zenon
  <2> QED
    BY <2>2, <2>3
<1>12. FeedAsks'
  BY <1>10, <1>11 DEF FeedAsks
<1>13. OneClean(X, change, nextCursor)
  BY <1>11 DEF FeedInv, CleanLoads, OneClean
<1>14. Quiet => PagesBelow(X, Browsing!Live, pinned, edited, feedSeen)
  <2> SUFFICES ASSUME Quiet, NEW x \in X, x.clean, x.cursor # 0, ~x.asked
               PROVE  PageBelow(x, Browsing!Live, pinned, edited, feedSeen)
    BY DEF PagesBelow
  <2>1. PICK l \in feedLoads :
          /\ l.clean /\ x.cursor = l.cursor /\ ~l.asked /\ x.rows = l.rows /\ x.next = l.next
    BY <1>11
  <2>2. PageBelow(l, Browsing!Live, pinned, edited, feedSeen)
    BY <2>1 DEF FeedInv, CleanLoads, PagesBelow
  <2> QED
    BY <2>1, <2>2, Zenon DEF PageBelow
<1>15. CleanLoads'
  BY <1>3, <1>4, <1>8, <1>10, <1>13, <1>14, Zenon DEF CleanLoads
<1> QED
  BY <1>3, <1>7, <1>9, <1>12, <1>15 DEF FeedInv

LEMMA AskStep ==
  ASSUME FeedInv, NEW kind \in {"create", "edit", "pin", "delete"},
         NEW p \in Browsing!Ids \cup {Browsing!NoPost}, Browsing!Ask(kind, p)
  PROVE  FeedInv'
<1> USE FeedBounds
<1>1. PICK b : b = (kind = "pin" /\ ~Browsing!Rendered(p).pinned)
  OBVIOUS
<1>2. b \in BOOLEAN
  BY <1>1, Zenon
<1>3. /\ ready /\ change = Browsing!Idle /\ feedMoves < MaxFeedMoves /\ feedMoves' = feedMoves + 1
      /\ change' = [kind |-> kind, id |-> p, stored |-> FALSE, pin |-> b]
      /\ feedLoads' = Browsing!Unsettled
      /\ UNCHANGED <<Browsing!table, Browsing!store, Browsing!pages, feedLoading,
                     Browsing!history>>
  BY <1>1, Zenon DEF Browsing!Ask, Browsing!Move
<1>4. p \in 0 .. MaxPosts
  BY DEF Browsing!Ids
<1>5. /\ created' = created /\ gone' = gone /\ pinned' = pinned /\ edited' = edited
      /\ feedSeen' = feedSeen /\ Browsing!Live' = Browsing!Live /\ FeedTable'
  <2>1. UNCHANGED Browsing!table
    BY <1>3
  <2> QED
    BY <2>1, SameTable DEF FeedInv
<1>6. /\ place' = place /\ detail' = detail /\ ready' = ready /\ feedLoading' = feedLoading
      /\ posts' = posts /\ nextCursor' = nextCursor
      /\ beside' = beside /\ others' = others /\ moved' = moved
  BY <1>3 DEF Browsing!store, Browsing!pages, Browsing!history
<1>7. PICK c : c = [kind |-> kind, id |-> p, stored |-> FALSE, pin |-> b]
  OBVIOUS
<1>8. /\ c \in [kind : {"none", "create", "edit", "pin", "delete"}, id : 0 .. MaxPosts,
                pin : BOOLEAN, stored : BOOLEAN]
      /\ c.kind # "none" /\ ~c.stored
  BY <1>2, <1>4, <1>7
<1>9. change' = c
  BY <1>3, <1>7
<1>10. FeedChange'
  BY <1>8, <1>9, Zenon DEF FeedChange
<1>11. feedMoves' \in 0 .. MaxFeedMoves
  BY <1>3 DEF FeedInv, FeedFlags
<1>12. FeedFlags' /\ FeedStore' /\ FeedDetail'
  BY <1>6, <1>11, Zenon DEF FeedInv, FeedFlags, FeedStore, FeedDetail
<1>13. FeedAgrees'
  <2> SUFFICES ASSUME Quiet' PROVE Filled'
    BY DEF FeedAgrees
  <2>1. Quiet /\ ~Unfilled
    BY <1>3, <1>6, Zenon DEF Quiet, Unfilled
  <2>2. Filled
    BY <2>1 DEF FeedInv, FeedAgrees
  <2>3. ~change.stored
    BY <1>3, IdleIs
  <2>4. IsFilled(posts, nextCursor, c, Browsing!Live, pinned, edited, feedSeen)
    BY <1>8, <2>2, <2>3, Zenon DEF Filled, IsFilled
  <2> QED
    BY <1>5, <1>6, <1>9, <2>4, Zenon DEF Filled
<1>14. FeedAsks' /\ CleanLoads'
  <2>1. FeedAsks
    BY DEF FeedInv
  <2>2. PICK X : X = Browsing!Unsettled
    OBVIOUS
  <2>3. X \subseteq PostLoads /\ \A x \in X : ~x.clean
    BY <2>1, <2>2, UnsettledPosts
  <2> QED
    BY <1>3, <2>2, <2>3, NoneClean, Zenon DEF FeedAsks, CleanLoads
<1> QED
  BY <1>5, <1>10, <1>12, <1>13, <1>14 DEF FeedInv

\* What a change does to the table.
LEMMA WrittenPosts ==
  ASSUME FeedTable, NEW kind \in {"create", "edit", "pin", "delete"}, NEW p, NEW pin \in BOOLEAN,
         Browsing!Write(kind, p, pin)
  PROVE  /\ FeedTable' /\ feedSeen' = feedSeen
         /\ kind = "create" => /\ created' = created + 1 /\ created + 1 \in 1 .. MaxPosts
                               /\ gone' = gone /\ edited' = edited /\ pinned' = pinned
         /\ kind # "create" => p \in Browsing!Live /\ created' = created
         /\ kind = "delete" => gone' = gone \cup {p} /\ edited' = edited /\ pinned' = pinned
         /\ kind = "edit" => gone' = gone /\ edited' = edited \cup {p} /\ pinned' = pinned
         /\ kind = "pin" => /\ gone' = gone /\ edited' = edited
                            /\ pinned' = IF pin THEN pinned \cup {p} ELSE pinned \ {p}
<1> USE FeedBounds
<1>1. /\ kind = "create" => created < MaxPosts /\ created' = created + 1
      /\ kind # "create" => p \in Browsing!Live /\ created' = created
      /\ gone' = IF kind = "delete" THEN gone \cup {p} ELSE gone
      /\ edited' = IF kind = "edit" THEN edited \cup {p} ELSE edited
      /\ pinned' = IF kind # "pin" THEN pinned ELSE IF pin THEN pinned \cup {p} ELSE pinned \ {p}
      /\ feedSeen' = feedSeen
  BY DEF Browsing!Write
<1>2. kind # "create" => p \in 1 .. created
  BY <1>1, LiveIsMade
<1>3. created \in 0 .. MaxPosts /\ (kind = "create" => created + 1 \in 1 .. MaxPosts)
  BY <1>1 DEF FeedTable
<1>4. created' \in 0 .. MaxPosts /\ 1 .. created \subseteq 1 .. created'
  BY <1>1, <1>3
<1>5. FeedTable'
  <2>1. /\ gone' \subseteq 1 .. created /\ edited' \subseteq 1 .. created
        /\ pinned' \subseteq 1 .. created /\ feedSeen' \subseteq 1 .. created
    BY <1>1, <1>2 DEF FeedTable
  <2> QED
    BY <1>4, <2>1 DEF FeedTable
<1> QED
  BY <1>1, <1>3, <1>5

LEMMA ChangeIs ==
  ASSUME FeedChange, change # Browsing!Idle
  PROVE  /\ change.kind \in {"create", "edit", "pin", "delete"} /\ change.kind # "none"
         /\ change.id \in 0 .. MaxPosts
         /\ change.pin \in BOOLEAN /\ change.stored \in BOOLEAN
BY DEF FeedChange

LEMMA StoreStep ==
  ASSUME FeedInv, Browsing!Store
  PROVE  FeedInv'
<1> USE FeedBounds
<1>1. /\ change # Browsing!Idle /\ ~change.stored
      /\ Browsing!Write(change.kind, change.id, change.pin)
      /\ UNCHANGED <<Browsing!store, Browsing!pages, feedLoading, feedLoads, feedMoves,
                     Browsing!history>>
  BY Zenon DEF Browsing!Store
<1>2. PICK k, p, pin : k = change.kind /\ p = change.id /\ pin = change.pin
  OBVIOUS
<1>3. PICK q : q = IF k = "create" THEN created + 1 ELSE p
  OBVIOUS
<1>4. PICK c : c = [change EXCEPT !.stored = TRUE, !.id = q]
  OBVIOUS
<1>5. change' = c
  BY <1>2, <1>3, <1>4, Zenon DEF Browsing!Store
<1>6. k \in {"create", "edit", "pin", "delete"} /\ k # "none" /\ pin \in BOOLEAN
  BY <1>1, <1>2, ChangeIs DEF FeedInv
<1>7. FeedTable
  BY DEF FeedInv
<1>8. /\ FeedTable' /\ feedSeen' = feedSeen
      /\ k = "create" => /\ created' = created + 1 /\ created + 1 \in 1 .. MaxPosts
                         /\ gone' = gone /\ edited' = edited /\ pinned' = pinned
      /\ k # "create" => p \in Browsing!Live /\ created' = created
      /\ k = "delete" => gone' = gone \cup {p} /\ edited' = edited /\ pinned' = pinned
      /\ k = "edit" => gone' = gone /\ edited' = edited \cup {p} /\ pinned' = pinned
      /\ k = "pin" => /\ gone' = gone /\ edited' = edited
                      /\ pinned' = IF pin THEN pinned \cup {p} ELSE pinned \ {p}
  <2>1. Browsing!Write(k, p, pin)
    BY <1>1, <1>2
  <2> QED
    BY <1>6, <1>7, <2>1, WrittenPosts
<1>9. /\ place' = place /\ detail' = detail /\ ready' = ready /\ feedLoading' = feedLoading
      /\ posts' = posts /\ nextCursor' = nextCursor /\ feedLoads' = feedLoads
      /\ feedMoves' = feedMoves /\ beside' = beside /\ others' = others /\ moved' = moved
  BY <1>1 DEF Browsing!store, Browsing!pages, Browsing!history
<1>10. q \in 1 .. created' /\ q \in 1 .. MaxPosts
  BY <1>3, <1>7, <1>8, LiveIsMade DEF FeedTable
<1>11. /\ c \in [kind : {"none", "create", "edit", "pin", "delete"}, id : 0 .. MaxPosts,
                 pin : BOOLEAN, stored : BOOLEAN]
       /\ c.kind = k /\ c.id = q /\ c.pin = pin /\ c.stored
  <2>1. change \in [kind : {"none", "create", "edit", "pin", "delete"}, id : 0 .. MaxPosts,
                     pin : BOOLEAN, stored : BOOLEAN]
    BY DEF FeedInv, FeedChange
  <2>2. q \in 0 .. MaxPosts
    BY <1>10
  <2>3. PICK t : t = TRUE
    OBVIOUS
  <2>4. t \in BOOLEAN /\ c = [change EXCEPT !.stored = t, !.id = q]
    BY <1>4, <2>3
  <2>5. /\ c \in [kind : {"none", "create", "edit", "pin", "delete"}, id : 0 .. MaxPosts,
                  pin : BOOLEAN, stored : BOOLEAN]
        /\ c.kind = change.kind /\ c.id = q /\ c.pin = change.pin /\ c.stored = t
    BY <2>1, <2>2, <2>4
  <2> QED
    BY <1>2, <2>3, <2>5
<1>12. FeedChange'
  BY <1>5, <1>6, <1>10, <1>11 DEF FeedChange
<1>13. FeedFlags' /\ FeedStore' /\ FeedDetail' /\ FeedAsks'
  BY <1>9, Zenon DEF FeedInv, FeedFlags, FeedStore, FeedDetail, FeedAsks
<1>14. CleanLoads'
  <2>1. \A x \in feedLoads : ~x.clean
    BY <1>2, <1>6 DEF FeedInv, CleanLoads, OneClean
  <2> QED
    BY <1>9, <2>1, NoneClean, Zenon DEF CleanLoads
<1>15. FeedAgrees'
  <2> SUFFICES ASSUME Quiet' PROVE Filled'
    BY DEF FeedAgrees
  <2>1. Quiet /\ ~Unfilled
    BY <1>2, <1>6, <1>9, Zenon DEF Quiet, Unfilled
  <2>2. Filled
    BY <2>1 DEF FeedInv, FeedAgrees
  <2>3. PICK L : L = Browsing!Live
    OBVIOUS
  <2>4. /\ Apart(posts) /\ Current(posts, pinned, edited, feedSeen, 0)
        /\ nextCursor \in L \cup {0} /\ IdsOf(posts) = Between(L, pinned, 0, nextCursor)
    BY <1>1, <2>2, <2>3 DEF Filled, IsFilled
  <2>5. L \subseteq 1 .. created /\ L \subseteq 1 .. MaxPosts
    BY <1>7, <2>3, LiveIsMade
  <2>6. IdsOf(posts) \subseteq L
    BY <2>4 DEF Between
  <2>7. posts \in Seq(PostRows)
    BY DEF FeedInv, FeedStore
  <2>8. \A i \in 1 .. Len(posts) :
          /\ posts[i].id \in L /\ posts[i] \in PostRows
          /\ posts[i] = PostRow(posts[i].id, pinned, edited, feedSeen)
    <3> SUFFICES ASSUME NEW i \in 1 .. Len(posts)
                 PROVE  /\ posts[i].id \in L /\ posts[i] \in PostRows
                        /\ posts[i] = PostRow(posts[i].id, pinned, edited, feedSeen)
      OBVIOUS
    <3>1. posts[i].id \in L /\ posts[i] \in PostRows
      BY <2>6, <2>7 DEF IdsOf
    <3>2. posts[i].id # 0
      BY <2>5, <3>1
    <3> QED
      BY <2>4, <3>1, <3>2 DEF Current
  <2>9. PICK M : M = Browsing!Live'
    OBVIOUS
  <2>10. nextCursor \in M \cup {0} \/ (k = "delete" /\ nextCursor = q)
    <3>1. L = (1 .. created) \ gone /\ M = (1 .. created') \ gone'
      BY <2>3, <2>9 DEF Browsing!Live
    <3>2. CASE k = "create"
      <4>1. 1 .. created \subseteq 1 .. created' /\ gone' = gone
        BY <1>7, <1>8, <3>2 DEF FeedTable
      <4> QED
        BY <2>4, <3>1, <4>1
    <3>3. CASE k = "delete"
      BY <1>3, <1>8, <2>4, <3>1, <3>3
    <3>4. CASE k # "create" /\ k # "delete"
      BY <1>6, <1>8, <2>4, <3>1, <3>4
    <3> QED
      BY <3>2, <3>3, <3>4
  <2>11. k = "create" => q \notin IdsOf(posts)
    <3>1. created + 1 \notin 1 .. created
      BY <1>7 DEF FeedTable
    <3> QED
      BY <1>3, <2>5, <2>6, <3>1
  <2>12. Current(posts, pinned', edited', feedSeen', q)
    <3> SUFFICES ASSUME NEW i \in 1 .. Len(posts), posts[i].id # q
                 PROVE  posts[i] = PostRow(posts[i].id, pinned', edited', feedSeen')
      BY DEF Current
    <3>1. PICK id : id = posts[i].id
      OBVIOUS
    <3>2. id \in pinned' <=> id \in pinned
      BY <1>3, <1>6, <1>8, <3>1
    <3>3. id \in edited' <=> id \in edited
      BY <1>3, <1>6, <1>8, <3>1
    <3>4. PostRow(id, pinned', edited', feedSeen') = PostRow(id, pinned, edited, feedSeen)
      <4>1. /\ (id \in pinned') = (id \in pinned) /\ (id \in edited') = (id \in edited)
        BY <3>2, <3>3
      <4> QED
        BY <1>8, <4>1, Zenon DEF PostRow
    <3> QED
      BY <2>8, <3>1, <3>4
  <2>13. ASSUME k = "pin", NEW i \in 1 .. Len(posts), posts[i].id = q
         PROVE  [posts[i] EXCEPT !.pinned = pin] = PostRow(q, pinned', edited', feedSeen')
    <3>1. PICK r, x : r = posts[i] /\ x = [r EXCEPT !.pinned = pin]
      OBVIOUS
    <3>2. r \in PostRows /\ r.id = q /\ r = PostRow(q, pinned, edited, feedSeen)
      BY <2>8, <2>13, <3>1
    <3>3. x \in PostRows /\ x.id = q /\ x.pinned = pin /\ x.edited = r.edited /\ x.seen = r.seen
      BY <1>6, <3>1, <3>2 DEF PostRows
    <3>4. RowSays(PostRow(q, pinned, edited, feedSeen), q, pinned, edited, feedSeen)
      BY <1>10, PostRowIs
    <3>5. r.edited = (q \in edited) /\ r.seen = (q \in feedSeen)
      BY <3>2, <3>4, Zenon DEF RowSays
    <3>6. pinned' = (IF pin THEN pinned \cup {q} ELSE pinned \ {q}) /\ edited' = edited
      BY <1>3, <1>8, <2>13
    <3>7. pin = (q \in pinned')
      BY <1>6, <3>6
    <3>8. RowSays(PostRow(q, pinned', edited', feedSeen'), q, pinned', edited', feedSeen')
      BY <1>10, PostRowIs
    <3>9. x = PostRow(q, pinned', edited', feedSeen')
      BY <1>8, <3>3, <3>5, <3>6, <3>7, <3>8, Zenon DEF RowSays
    <3> QED
      BY <3>1, <3>9
  <2>14. IsFilled(posts, nextCursor, c, M, pinned', edited', feedSeen')
    BY <1>11, <2>4, <2>10, <2>11, <2>12, <2>13, Zenon DEF IsFilled
  <2> QED
    BY <1>5, <1>9, <2>9, <2>14, Zenon DEF Filled
<1> QED
  BY <1>8, <1>12, <1>13, <1>14, <1>15 DEF FeedInv

LEMMA ChangeFailsStep ==
  ASSUME FeedInv, Browsing!ChangeFails
  PROVE  FeedInv'
<1> USE FeedBounds
<1>1. /\ change # Browsing!Idle /\ change' = Browsing!Idle
      /\ beside' = (beside \/ change.stored)
      /\ UNCHANGED <<Browsing!table, Browsing!store, Browsing!pages, feedLoading, feedLoads,
                     feedMoves, others, moved>>
  BY Zenon DEF Browsing!ChangeFails
<1>2. /\ created' = created /\ gone' = gone /\ pinned' = pinned /\ edited' = edited
      /\ feedSeen' = feedSeen /\ Browsing!Live' = Browsing!Live /\ FeedTable'
  <2>1. UNCHANGED Browsing!table
    BY <1>1
  <2> QED
    BY <2>1, SameTable DEF FeedInv
<1>3. /\ place' = place /\ detail' = detail /\ ready' = ready /\ feedLoading' = feedLoading
      /\ posts' = posts /\ nextCursor' = nextCursor /\ feedLoads' = feedLoads
      /\ feedMoves' = feedMoves /\ others' = others /\ moved' = moved
  BY <1>1 DEF Browsing!store, Browsing!pages
<1>4. change.kind # "none" /\ change.stored \in BOOLEAN
  BY <1>1, ChangeIs DEF FeedInv
<1>5. (beside \/ change.stored) \in BOOLEAN
  OBVIOUS
<1>6. FeedFlags' /\ FeedStore' /\ FeedDetail' /\ FeedAsks'
  BY <1>1, <1>3, <1>5, Zenon DEF FeedInv, FeedFlags, FeedStore, FeedDetail, FeedAsks
<1>7. FeedChange'
  BY <1>1, IdleIs, Zenon DEF FeedChange
<1>8. CleanLoads'
  <2>1. \A x \in feedLoads : ~x.clean
    BY <1>4 DEF FeedInv, CleanLoads, OneClean
  <2> QED
    BY <1>3, <2>1, NoneClean, Zenon DEF CleanLoads
<1>9. FeedAgrees'
  <2> SUFFICES ASSUME Quiet' PROVE Filled'
    BY DEF FeedAgrees
  <2>1. ~beside' /\ ~others' /\ ~moved'
    BY DEF Quiet
  <2>2. ~(beside \/ change.stored)
    BY <1>1, <2>1, Zenon
  <2>3. Filled /\ ~change.stored
    BY <1>3, <1>4, <2>1, <2>2 DEF FeedInv, FeedAgrees, Quiet, Unfilled
  <2>4. IsFilled(posts, nextCursor, Browsing!Idle, Browsing!Live, pinned, edited, feedSeen)
    BY <2>3, IdleIs, Zenon DEF Filled, IsFilled
  <2> QED
    BY <1>1, <1>2, <1>3, <2>4, Zenon DEF Filled
<1> QED
  BY <1>2, <1>6, <1>7, <1>8, <1>9 DEF FeedInv

LEMMA OtherChangesStep ==
  ASSUME FeedInv, Browsing!OtherChanges
  PROVE  FeedInv'
<1> USE FeedBounds
<1>1. /\ feedMoves < MaxFeedMoves /\ feedMoves' = feedMoves + 1 /\ others' = TRUE
      /\ UNCHANGED <<Browsing!store, Browsing!pages, feedLoading, feedLoads, change, beside, moved>>
  BY DEF Browsing!OtherChanges, Browsing!Move
<1>2. /\ place' = place /\ detail' = detail /\ ready' = ready /\ feedLoading' = feedLoading
      /\ posts' = posts /\ nextCursor' = nextCursor /\ feedLoads' = feedLoads
      /\ change' = change /\ beside' = beside /\ moved' = moved
  BY <1>1 DEF Browsing!store, Browsing!pages
<1>3. FeedTable
  BY DEF FeedInv
<1>4. FeedTable' /\ 1 .. created \subseteq 1 .. created'
  <2>1. ASSUME NEW kind \in {"create", "edit", "pin", "delete"}, NEW p \in Browsing!Ids,
               NEW pin \in BOOLEAN, Browsing!Write(kind, p, pin)
        PROVE  FeedTable' /\ (created' = created \/ created' = created + 1)
    BY <1>3, <2>1, WrittenPosts
  <2>2. ASSUME NEW p \in Browsing!Live, feedSeen' = feedSeen \cup {p},
               UNCHANGED <<created, gone, pinned, edited>>
        PROVE  FeedTable' /\ created' = created
    BY <1>3, <2>2, LiveIsMade DEF FeedTable
  <2>3. FeedTable' /\ (created' = created \/ created' = created + 1)
    BY <2>1, <2>2, Zenon DEF Browsing!OtherChanges
  <2> QED
    BY <1>3, <2>3 DEF FeedTable
<1>5. feedMoves' \in 0 .. MaxFeedMoves
  BY <1>1 DEF FeedInv, FeedFlags
<1>6. FeedFlags' /\ FeedStore' /\ FeedDetail' /\ FeedAsks'
  <2>1. TRUE \in BOOLEAN
    OBVIOUS
  <2> QED
    BY <1>1, <1>2, <1>5, <2>1, Zenon DEF FeedInv, FeedFlags, FeedStore, FeedDetail, FeedAsks
<1>7. FeedChange'
  BY <1>2, <1>4 DEF FeedInv, FeedChange
<1>8. ~Quiet'
  BY <1>1 DEF Quiet
<1>9. FeedAgrees'
  BY <1>8 DEF FeedAgrees
<1>10. CleanLoads'
  BY <1>2, <1>8, Zenon DEF FeedInv, CleanLoads
<1> QED
  BY <1>4, <1>6, <1>7, <1>9, <1>10 DEF FeedInv

\* The rows after one of them was replaced.
Replaced(new, held, p, row) ==
  /\ new \in Seq(PostRows) /\ Len(new) = Len(held) /\ Apart(new)
  /\ \A i \in 1 .. Len(held) : /\ held[i].id = p => new[i] = row
                               /\ held[i].id # p => new[i] = held[i]
LEMMA RowReplaced ==
  ASSUME NEW held \in Seq(PostRows), Apart(held), NEW p \in 1 .. MaxPosts, NEW row \in PostRows,
         row.id = p, NEW new, new = [i \in DOMAIN held |-> IF held[i].id = p THEN row ELSE held[i]]
  PROVE  Replaced(new, held, p, row)
<1>1. Len(held) \in Nat /\ DOMAIN held = 1 .. Len(held)
      /\ \A i \in 1 .. Len(held) : held[i] \in PostRows
  BY LenProperties
<1>2. PICK n : n = Len(held)
  OBVIOUS
<1>3. new = [i \in 1 .. n |-> IF held[i].id = p THEN row ELSE held[i]]
  BY <1>1, <1>2
<1>4. new \in [1 .. n -> PostRows]
  BY <1>1, <1>2, <1>3
<1>5. new \in Seq(PostRows) /\ Len(new) = n
  BY <1>1, <1>2, <1>4
<1>6. \A i \in 1 .. n : /\ held[i].id = p => new[i] = row
                        /\ held[i].id # p => new[i] = held[i]
                        /\ new[i].id = held[i].id
  BY <1>3
<1>7. Apart(new)
  BY <1>2, <1>5, <1>6 DEF Apart
<1> QED
  BY <1>2, <1>5, <1>6, <1>7 DEF Replaced

LEMMA RowAdded ==
  ASSUME NEW held \in Seq(PostRows), NEW row \in PostRows
  PROVE  /\ <<row>> \o held \in Seq(PostRows) /\ Len(<<row>> \o held) = Len(held) + 1
         /\ Len(held) \in Nat /\ (<<row>> \o held)[1] = row
         /\ \A i \in 2 .. Len(held) + 1 : (<<row>> \o held)[i] = held[i - 1]
<1>1. <<row>> \in Seq(PostRows) /\ Len(<<row>>) = 1 /\ <<row>>[1] = row
  OBVIOUS
<1> QED
  BY <1>1

Removed(new, held, p) ==
  /\ new \in Seq(PostRows) /\ Apart(new)
  /\ \A i \in 1 .. Len(new) : /\ new[i].id # p
                              /\ \E k \in 1 .. Len(held) : new[i] = held[k]

LEMMA RowKept ==
  ASSUME NEW held \in Seq(PostRows), Apart(held), NEW p, NEW new,
         new = Kept(held, {i \in DOMAIN held : held[i].id # p})
  PROVE  Removed(new, held, p)
<1>1. PICK places : places = {i \in DOMAIN held : held[i].id # p}
  OBVIOUS
<1>2. Len(held) \in Nat /\ DOMAIN held = 1 .. Len(held)
  BY LenProperties
<1>3. places \in SUBSET (1 .. Len(held)) /\ \A i \in places : held[i].id # p
  BY <1>1, <1>2
<1>4. new \in Seq(PostRows) /\ InOrder(new, held, places)
  BY <1>1, <1>3, FilteringKeeps
<1>5. PICK f \in [1 .. Len(new) -> places] :
        /\ \A k \in 1 .. Len(new) : new[k] = held[f[k]]
        /\ \A k, m \in 1 .. Len(new) : k < m => f[k] < f[m]
  BY <1>4 DEF InOrder
<1>6. \A i \in 1 .. Len(new) : f[i] \in places /\ f[i] \in 1 .. Len(held)
  BY <1>3, <1>5
<1>7. Len(new) \in Nat
  BY <1>4, LenProperties
<1>8. Apart(new)
  <2> SUFFICES ASSUME NEW i \in 1 .. Len(new), NEW j \in 1 .. Len(new), new[i].id = new[j].id
               PROVE  i = j
    BY DEF Apart
  <2>1. f[i] = f[j]
    BY <1>5, <1>6 DEF Apart
  <2>2. ~(i < j) /\ ~(j < i)
    BY <1>2, <1>5, <1>6, <2>1
  <2> QED
    BY <1>7, <2>2
<1> QED
  BY <1>3, <1>4, <1>5, <1>6, <1>8 DEF Removed

LEMMA KeptAlike == \A l, places : Browsing!Kept(l, places) = Kept(l, places)
BY Zenon DEF Browsing!Kept, Kept

\* The list after an answer holds the posts it did, with the one of the change.
Answered(held, old, c, live, P, E, S) ==
  /\ held \in Seq(PostRows)
  /\ IsFilled(old, nextCursor, c, live, P, E, S) /\ ~(c.kind = "delete" /\ c.id = nextCursor) =>
       /\ Apart(held) /\ Current(held, P, E, S, 0)

LEMMA AnswerOfChange ==
  ASSUME FeedInv, Browsing!ChangeAnswered
  PROVE  Answered(posts', posts, change, Browsing!Live, pinned, edited, feedSeen)
<1> USE FeedBounds
<1>1. PICK c : c = change
  OBVIOUS
<1>2. c.stored /\ c.id \in 1 .. MaxPosts /\ c.pin \in BOOLEAN
  BY <1>1 DEF Browsing!ChangeAnswered, FeedInv, FeedChange, FeedTable
<1>3. c.kind \in {"create", "edit", "pin", "delete"}
  BY <1>1, <1>2, IdleIs, ChangeIs DEF FeedInv
<1>4. PICK p, row : p = c.id /\ row = PostRow(p, pinned, edited, feedSeen)
  OBVIOUS
<1>5. p \in 1 .. MaxPosts /\ row \in PostRows /\ row.id = p
  <2>1. RowSays(row, p, pinned, edited, feedSeen)
    BY <1>2, <1>4, PostRowIs
  <2> QED
    BY <1>2, <1>4, <2>1 DEF RowSays
<1>6. posts \in Seq(PostRows) /\ DOMAIN posts = 1 .. Len(posts) /\ Len(posts) \in Nat
  BY LenProperties DEF FeedInv, FeedStore
<1>7. Browsing!Row(p) = row
  BY <1>4, RowIs
<1>8. PICK new : new = posts'
  OBVIOUS
<1>9. PICK L : L = Browsing!Live
  OBVIOUS
<1>10. CASE c.kind = "create"
  <2>1. new = <<row>> \o posts
    BY <1>1, <1>4, <1>7, <1>8, <1>10, Zenon DEF Browsing!ChangeAnswered, Browsing!AddPost
  <2>2. /\ new \in Seq(PostRows) /\ Len(new) = Len(posts) + 1 /\ new[1] = row
        /\ \A i \in 2 .. Len(posts) + 1 : new[i] = posts[i - 1]
    BY <1>5, <1>6, <2>1, RowAdded
  <2>3. \A i \in 1 .. Len(new) : i = 1 \/ (i - 1 \in 1 .. Len(posts) /\ new[i] = posts[i - 1])
    BY <1>6, <2>2
  <2>4. ASSUME IsFilled(posts, nextCursor, c, L, pinned, edited, feedSeen)
        PROVE  Apart(new) /\ Current(new, pinned, edited, feedSeen, 0)
    <3>1. /\ Apart(posts) /\ Current(posts, pinned, edited, feedSeen, p) /\ p \notin IdsOf(posts)
      BY <1>2, <1>4, <1>10, <2>4 DEF IsFilled
    <3>2. \A i \in 1 .. Len(posts) : /\ posts[i].id # p
                                     /\ posts[i] = PostRow(posts[i].id, pinned, edited, feedSeen)
      BY <3>1 DEF IdsOf, Current
    <3>3. Apart(new)
      <4> SUFFICES ASSUME NEW i \in 1 .. Len(new), NEW j \in 1 .. Len(new), new[i].id = new[j].id
                   PROVE  i = j
        BY DEF Apart
      <4>1. CASE i = 1 \/ j = 1
        BY <1>5, <2>2, <2>3, <3>2, <4>1
      <4>2. CASE i # 1 /\ j # 1
        <5>1. i - 1 = j - 1
          BY <2>3, <3>1, <4>2 DEF Apart
        <5> QED
          BY <1>6, <2>2, <5>1
      <4> QED
        BY <4>1, <4>2
    <3>4. Current(new, pinned, edited, feedSeen, 0)
      BY <1>4, <1>5, <2>2, <2>3, <3>2 DEF Current
    <3> QED
      BY <3>3, <3>4
  <2> QED
    BY <1>1, <1>8, <1>9, <2>2, <2>4, Zenon DEF Answered
<1>11. CASE c.kind = "delete"
  <2>1. new = Kept(posts, {i \in DOMAIN posts : posts[i].id # p})
    BY <1>1, <1>4, <1>8, <1>11, KeptAlike, Zenon DEF Browsing!ChangeAnswered, Browsing!RemovePost
  <2>2. new \in Seq(PostRows)
    <3>1. {i \in DOMAIN posts : posts[i].id # p} \in SUBSET (1 .. Len(posts))
      BY <1>6
    <3> QED
      BY <1>6, <2>1, <3>1, FilteringKeeps
  <2>3. ASSUME IsFilled(posts, nextCursor, c, L, pinned, edited, feedSeen)
        PROVE  Apart(new) /\ Current(new, pinned, edited, feedSeen, 0)
    <3>1. Apart(posts) /\ Current(posts, pinned, edited, feedSeen, p)
      BY <1>2, <1>4, <2>3 DEF IsFilled
    <3>2. /\ Apart(new)
          /\ \A i \in 1 .. Len(new) : /\ new[i].id # p
                                      /\ \E k \in 1 .. Len(posts) : new[i] = posts[k]
      <4>1. Removed(new, posts, p)
        BY <1>6, <2>1, <3>1, RowKept
      <4> QED
        BY <4>1, Zenon DEF Removed
    <3>3. Current(new, pinned, edited, feedSeen, 0)
      BY <3>1, <3>2 DEF Current
    <3> QED
      BY <3>2, <3>3
  <2> QED
    BY <1>1, <1>8, <1>9, <2>2, <2>3, Zenon DEF Answered
<1>12. CASE c.kind = "pin" /\ place = 0 /\ p \in Browsing!Shown
  <2>1. PICK k : k = CHOOSE i \in DOMAIN posts : posts[i].id = p
    OBVIOUS
  <2>2. k \in 1 .. Len(posts) /\ posts[k].id = p
    BY <1>6, <1>12, <2>1 DEF Browsing!Shown
  <2>3. PICK r : r = [posts[k] EXCEPT !.pinned = c.pin]
    OBVIOUS
  <2>4. posts[k] \in PostRows
    BY <1>6, <2>2
  <2>5. r \in PostRows /\ r.id = p
    BY <1>2, <2>2, <2>3, <2>4 DEF PostRows
  <2>6. Browsing!Rendered(p) = posts[k]
    <3>1. place # p
      BY <1>5, <1>12
    <3> QED
      BY <2>1, <3>1, Zenon DEF Browsing!Rendered
  <2>7. new = [i \in DOMAIN posts |-> IF posts[i].id = p THEN r ELSE posts[i]]
    <3>1. Browsing!UpdatePost(p, [Browsing!Rendered(p) EXCEPT !.pinned = c.pin])
      BY <1>1, <1>4, <1>12 DEF Browsing!ChangeAnswered, Browsing!NoPost
    <3> QED
      BY <1>8, <2>3, <2>6, <3>1 DEF Browsing!UpdatePost
  <2>8. new \in Seq(PostRows)
    <3>1. \A i \in 1 .. Len(posts) : posts[i] \in PostRows
      BY <1>6
    <3> QED
      BY <1>6, <2>5, <2>7, <3>1
  <2>9. ASSUME IsFilled(posts, nextCursor, c, L, pinned, edited, feedSeen)
        PROVE  Apart(new) /\ Current(new, pinned, edited, feedSeen, 0)
    <3>1. /\ Apart(posts) /\ Current(posts, pinned, edited, feedSeen, p)
          /\ r = row
      BY <1>2, <1>4, <1>12, <2>2, <2>3, <2>9 DEF IsFilled
    <3>2. /\ Len(new) = Len(posts) /\ Apart(new)
          /\ \A i \in 1 .. Len(posts) : /\ posts[i].id = p => new[i] = row
                                        /\ posts[i].id # p => new[i] = posts[i]
      <4>1. Replaced(new, posts, p, row)
        BY <1>5, <1>6, <2>7, <3>1, RowReplaced
      <4> QED
        BY <4>1 DEF Replaced
    <3>3. Current(new, pinned, edited, feedSeen, 0)
      BY <1>4, <1>5, <3>1, <3>2 DEF Current
    <3> QED
      BY <3>2, <3>3
  <2> QED
    BY <1>1, <1>8, <1>9, <2>8, <2>9, Zenon DEF Answered
<1>13. CASE /\ c.kind # "create" /\ c.kind # "delete"
            /\ ~(c.kind = "pin" /\ place = 0 /\ p \in Browsing!Shown)
  <2>1. new = [i \in DOMAIN posts |-> IF posts[i].id = p THEN row ELSE posts[i]]
    <3>1. Browsing!UpdatePost(p, Browsing!Row(p))
      BY <1>1, <1>4, <1>13 DEF Browsing!ChangeAnswered, Browsing!NoPost
    <3> QED
      BY <1>7, <1>8, <3>1 DEF Browsing!UpdatePost
  <2>2. new \in Seq(PostRows)
    <3>1. \A i \in 1 .. Len(posts) : posts[i] \in PostRows
      BY <1>6
    <3> QED
      BY <1>5, <1>6, <2>1, <3>1
  <2>3. ASSUME IsFilled(posts, nextCursor, c, L, pinned, edited, feedSeen)
        PROVE  Apart(new) /\ Current(new, pinned, edited, feedSeen, 0)
    <3>1. Apart(posts) /\ Current(posts, pinned, edited, feedSeen, p)
      BY <1>2, <1>4, <2>3 DEF IsFilled
    <3>2. /\ Len(new) = Len(posts) /\ Apart(new)
          /\ \A i \in 1 .. Len(posts) : /\ posts[i].id = p => new[i] = row
                                        /\ posts[i].id # p => new[i] = posts[i]
      <4>1. Replaced(new, posts, p, row)
        BY <1>5, <1>6, <2>1, <3>1, RowReplaced
      <4> QED
        BY <4>1 DEF Replaced
    <3>3. Current(new, pinned, edited, feedSeen, 0)
      BY <1>4, <1>5, <3>1, <3>2 DEF Current
    <3> QED
      BY <3>2, <3>3
  <2> QED
    BY <1>1, <1>8, <1>9, <2>2, <2>3, Zenon DEF Answered
<1> QED
  BY <1>10, <1>11, <1>12, <1>13

LEMMA LoadedIs == Browsing!Loaded = Between(Browsing!Live, pinned, 0, nextCursor)
<1>1. \A p : p \in Browsing!Loaded <=> p \in Between(Browsing!Live, pinned, 0, nextCursor)
  <2> SUFFICES ASSUME NEW p
               PROVE  p \in Browsing!Loaded <=>
                        p \in Between(Browsing!Live, pinned, 0, nextCursor)
    OBVIOUS
  <2>1. Browsing!Above(p, nextCursor) <=> Over(pinned, p, nextCursor)
    BY AboveIs
  <2> QED
    BY <2>1, FeedBounds, Zenon DEF Browsing!Loaded, Between
<1> QED
  BY <1>1

LEMMA ShownIs ==
  ASSUME NEW held \in Seq(PostRows)
  PROVE  {held[i].id : i \in DOMAIN held} = IdsOf(held)
BY LenProperties DEF IdsOf

LEMMA ChangeAnsweredStep ==
  ASSUME FeedInv, Browsing!ChangeAnswered
  PROVE  FeedInv'
<1> USE FeedBounds
<1>1. /\ change.stored /\ change' = Browsing!Idle
      /\ detail' = IF place # 0 /\ change.kind # "delete" THEN Browsing!Row(change.id)
                                                         ELSE Browsing!NoRow
      /\ UNCHANGED <<Browsing!table, nextCursor, feedMoves, beside, others>>
  BY DEF Browsing!ChangeAnswered, Browsing!NoPost
<1>2. PICK m : m = (\/ moved
                    \/ change.id = nextCursor /\ change.kind = "delete"
                    \/ Browsing!Loaded # {posts'[i].id : i \in DOMAIN posts'})
  OBVIOUS
<1>3. m \in BOOLEAN
  BY <1>2, Zenon
<1>4. moved' = m
  BY <1>2, Zenon DEF Browsing!ChangeAnswered
<1>5. /\ created' = created /\ gone' = gone /\ pinned' = pinned /\ edited' = edited
      /\ feedSeen' = feedSeen /\ Browsing!Live' = Browsing!Live /\ FeedTable'
  <2>1. UNCHANGED Browsing!table
    BY <1>1
  <2> QED
    BY <2>1, SameTable DEF FeedInv
<1>6. nextCursor' = nextCursor /\ feedMoves' = feedMoves /\ beside' = beside /\ others' = others
  BY <1>1
<1>7. Answered(posts', posts, change, Browsing!Live, pinned, edited, feedSeen)
  BY AnswerOfChange
<1>8. PICK new : new = posts'
  OBVIOUS
<1>9. new \in Seq(PostRows)
  BY <1>7, <1>8, Zenon DEF Answered
<1>10. change.kind # "none" /\ change.id \in 1 .. MaxPosts
  BY <1>1, IdleIs DEF FeedInv, FeedChange, FeedTable
<1>11. feedMoves \in Nat /\ feedMoves \in 0 .. MaxFeedMoves
  BY DEF FeedInv, FeedFlags
<1>12. FeedStore'
  BY <1>6, <1>8, <1>9, Zenon DEF FeedInv, FeedStore
<1>13. FeedChange'
  BY <1>1, IdleIs, Zenon DEF FeedChange
<1>14. Browsing!Row(change.id) \in PostRows
  <2>1. PICK p : p = change.id
    OBVIOUS
  <2>2. RowSays(PostRow(p, pinned, edited, feedSeen), p, pinned, edited, feedSeen)
    BY <1>10, <2>1, PostRowIs
  <2> QED
    BY <2>1, <2>2, RowIs, Zenon DEF RowSays
<1>15. PICK b : b = (feedLoads = {})
  OBVIOUS
<1>16. b \in BOOLEAN
  BY <1>15, Zenon
<1>17. PICK X : X = feedLoads'
  OBVIOUS
<1>18. \A x \in feedLoads : ~x.clean
  BY <1>10 DEF FeedInv, CleanLoads, OneClean
<1>19. /\ place' \in 0 .. MaxPosts /\ ready' \in BOOLEAN /\ feedLoading' \in BOOLEAN
       /\ (place' # 0 => detail' \in PostRows)
       /\ X \subseteq PostLoads
       /\ \A x \in X : x.clean => X = {x} /\ x.cursor = 0
  <2>1. CASE change.kind = "delete" /\ place # 0
    <3>1. /\ place' = 0 /\ ready' = FALSE /\ feedLoading' = TRUE
          /\ X = Browsing!Unsettled \cup {Browsing!Load(0, b, feedMoves)}
      BY <1>15, <1>17, <2>1, Zenon DEF Browsing!ChangeAnswered, Browsing!NoPost
    <3>2. FeedAsks /\ 0 \in 0 .. MaxPosts
      BY DEF FeedInv
    <3>3. Asked(X, 0, b)
      BY <1>11, <1>16, <3>1, <3>2, AskingPosts
    <3>4. X \subseteq PostLoads /\ \A x \in X : x.clean => X = {x} /\ x.cursor = 0
      BY <1>15, <3>3 DEF Asked
    <3>5. FALSE \in BOOLEAN /\ TRUE \in BOOLEAN
      OBVIOUS
    <3> QED
      BY <3>1, <3>2, <3>4, <3>5, Zenon
  <2>2. CASE ~(change.kind = "delete" /\ place # 0)
    <3>1. place' = place /\ ready' = ready /\ feedLoading' = feedLoading /\ X = feedLoads
      BY <1>17, <2>2 DEF Browsing!ChangeAnswered, Browsing!NoPost
    <3>2. place # 0 => detail' \in PostRows
      BY <1>1, <1>14, <2>2
    <3>3. /\ place \in 0 .. MaxPosts /\ ready \in BOOLEAN /\ feedLoading \in BOOLEAN
          /\ feedLoads \subseteq PostLoads
      BY DEF FeedInv, FeedFlags, FeedAsks
    <3> QED
      BY <1>18, <3>1, <3>2, <3>3, Zenon
  <2> QED
    BY <2>1, <2>2
<1>20. FeedFlags'
  BY <1>3, <1>4, <1>6, <1>11, <1>19, Zenon DEF FeedInv, FeedFlags
<1>21. FeedDetail'
  <2>1. detail' \in PostRows \cup {Browsing!NoRow}
    BY <1>1, <1>14
  <2> QED
    BY <1>19, <2>1, Zenon DEF FeedDetail
<1>22. FeedAsks'
  BY <1>17, <1>19 DEF FeedAsks
<1>23. FeedAgrees'
  <2> SUFFICES ASSUME Quiet' PROVE Filled'
    BY DEF FeedAgrees
  <2>1. ~beside' /\ ~others' /\ ~moved'
    BY DEF Quiet
  <2>2. ~m
    BY <1>4, <2>1
  <2>3. /\ ~moved /\ ~(change.kind = "delete" /\ change.id = nextCursor)
        /\ Browsing!Loaded = {new[i].id : i \in DOMAIN new}
    BY <1>2, <1>8, <2>2
  <2>4. Quiet /\ ~Unfilled
    BY <1>6, <1>10, <2>1, <2>3 DEF Quiet, Unfilled
  <2>5. Filled
    BY <2>4 DEF FeedInv, FeedAgrees
  <2>6. Apart(new) /\ Current(new, pinned, edited, feedSeen, 0)
    BY <1>7, <1>8, <2>3, <2>5, Zenon DEF Answered, Filled
  <2>7. IdsOf(new) = Between(Browsing!Live, pinned, 0, nextCursor)
    BY <1>9, <2>3, ShownIs, LoadedIs
  <2>8. nextCursor \in Browsing!Live \cup {0}
    BY <1>1, <2>3, <2>5 DEF Filled, IsFilled
  <2>9. IsFilled(new, nextCursor, Browsing!Idle, Browsing!Live, pinned, edited, feedSeen)
    BY <2>6, <2>7, <2>8, IdleIs, Zenon DEF IsFilled
  <2> QED
    BY <1>1, <1>5, <1>6, <1>8, <2>9, Zenon DEF Filled
<1>24. CleanLoads'
  <2>1. OneClean(X, Browsing!Idle, nextCursor)
    BY <1>19, IdleIs DEF OneClean
  <2>2. PagesBelow(X, Browsing!Live, pinned, edited, feedSeen)
    BY <1>19 DEF PagesBelow
  <2> QED
    BY <1>1, <1>5, <1>6, <1>17, <2>1, <2>2, Zenon DEF CleanLoads
<1> QED
  BY <1>5, <1>12, <1>13, <1>20, <1>21, <1>22, <1>23, <1>24 DEF FeedInv

LEMMA NextFeed == FeedInv /\ [Browsing!Next]_(Browsing!vars) => FeedInv'
<1> SUFFICES ASSUME FeedInv, [Browsing!Next]_(Browsing!vars) PROVE FeedInv'
  OBVIOUS
<1>1. CASE UNCHANGED Browsing!vars
  <2>1. /\ UNCHANGED Browsing!table /\ UNCHANGED <<posts, nextCursor, place, detail, ready,
             feedLoading, feedLoads, change, feedMoves, beside, others, moved>>
    BY <1>1 DEF Browsing!vars, Browsing!table
  <2>2. /\ created' = created /\ gone' = gone /\ pinned' = pinned /\ edited' = edited
        /\ feedSeen' = feedSeen /\ Browsing!Live' = Browsing!Live /\ FeedTable'
    BY <2>1, SameTable DEF FeedInv
  <2>3. /\ posts' = posts /\ nextCursor' = nextCursor /\ place' = place /\ detail' = detail
        /\ ready' = ready /\ feedLoading' = feedLoading /\ feedLoads' = feedLoads
        /\ change' = change /\ feedMoves' = feedMoves /\ beside' = beside /\ others' = others
        /\ moved' = moved
    BY <2>1
  <2>4. FeedFlags' /\ FeedStore' /\ FeedDetail' /\ FeedAsks' /\ FeedChange'
    BY <2>2, <2>3, Zenon DEF FeedInv, FeedFlags, FeedStore, FeedDetail, FeedAsks, FeedChange
  <2>5. (Quiet' <=> Quiet) /\ (Unfilled' <=> Unfilled)
    BY <2>3, Zenon DEF Quiet, Unfilled
  <2>6. Filled' <=> Filled
    BY <2>2, <2>3, Zenon DEF Filled
  <2>7. FeedAgrees' /\ CleanLoads'
    BY <2>2, <2>3, <2>5, <2>6, Zenon DEF FeedInv, FeedAgrees, CleanLoads
  <2> QED
    BY <2>2, <2>4, <2>7 DEF FeedInv
<1>2. CASE Browsing!Next
  BY <1>2, ReloadStep, ReadStep, AnswerStep, LoadFailsStep, OpenDetailStep, AskStep, StoreStep,
     ChangeAnsweredStep, ChangeFailsStep, OtherChangesStep, Zenon DEF Browsing!Next
<1> QED
  BY <1>1, <1>2

LEMMA FeedFits == FeedInv => Browsing!FeedAgreesAtRest
<1> SUFFICES ASSUME FeedInv, place = 0, ready, feedLoads = {}, change = Browsing!Idle, Quiet
             PROVE  /\ \A i, j \in DOMAIN posts : posts[i].id = posts[j].id => i = j
                    /\ Browsing!Shown = Browsing!Loaded
                    /\ \A i \in DOMAIN posts : posts[i] = Browsing!Row(posts[i].id)
  BY FeedBounds DEF Browsing!FeedAgreesAtRest, Quiet
<1>1. Filled /\ ~change.stored
  BY IdleIs DEF FeedInv, FeedAgrees, Unfilled
<1>2. PICK L : L = Browsing!Live
  OBVIOUS
<1>3. /\ Apart(posts) /\ Current(posts, pinned, edited, feedSeen, 0)
      /\ IdsOf(posts) = Between(L, pinned, 0, nextCursor)
  BY <1>1, <1>2 DEF Filled, IsFilled
<1>4. posts \in Seq(PostRows) /\ DOMAIN posts = 1 .. Len(posts)
  BY LenProperties DEF FeedInv, FeedStore
<1>5. \A i \in 1 .. Len(posts) : posts[i].id # 0
  <2>1. 0 \notin L
    BY <1>2, LiveIsMade DEF FeedInv
  <2> QED
    BY <1>3, <2>1 DEF IdsOf, Between
<1>6. Browsing!Shown = Browsing!Loaded
  <2>1. Browsing!Shown = IdsOf(posts)
    BY <1>4, ShownIs DEF Browsing!Shown
  <2> QED
    BY <1>2, <1>3, <2>1, LoadedIs
<1>7. \A i \in DOMAIN posts : posts[i] = Browsing!Row(posts[i].id)
  BY <1>3, <1>4, <1>5, RowIs, Zenon DEF Current
<1> QED
  BY <1>3, <1>4, <1>6, <1>7 DEF Apart

LEMMA FeedTypes == FeedInv => Browsing!TypeOK
<1> SUFFICES ASSUME FeedInv PROVE Browsing!TypeOK
  OBVIOUS
<1> USE FeedBounds
<1>1. /\ created \in 0 .. MaxPosts
      /\ {gone, pinned, edited, feedSeen} \subseteq SUBSET (1 .. created)
  BY DEF FeedInv, FeedTable
<1>2. 0 .. MaxPosts = {Browsing!NoPost} \cup Browsing!Ids /\ PostRows = Browsing!Rows
  BY DEF Browsing!Ids, Browsing!Rows, PostRows
<1>3. /\ posts \in Seq(PostRows) /\ nextCursor \in 0 .. MaxPosts /\ place \in 0 .. MaxPosts
      /\ detail \in PostRows \cup {Browsing!NoRow}
      /\ ready \in BOOLEAN /\ feedLoading \in BOOLEAN
  BY DEF FeedInv, FeedStore, FeedFlags, FeedDetail
<1>4. \A l \in feedLoads : /\ l.cursor \in 0 .. MaxPosts /\ l.rows \in Seq(PostRows)
                           /\ l.next \in 0 .. MaxPosts /\ l.clean \in BOOLEAN
  BY DEF FeedInv, FeedAsks, PostLoads
<1>5. change \in [kind : {"none", "create", "edit", "pin", "delete"}, id : 0 .. MaxPosts,
                  pin : BOOLEAN, stored : BOOLEAN]
  BY DEF FeedInv, FeedChange
<1>6. feedMoves \in 0 .. MaxFeedMoves /\ {beside, others, moved} \subseteq BOOLEAN
  BY DEF FeedInv, FeedFlags
<1> QED
  BY <1>1, <1>2, <1>3, <1>4, <1>5, <1>6, Zenon DEF Browsing!TypeOK
-----------------------------------------------------------------------------
(* All screens.                                                            *)

\* Each screen and its own part of the server keep what they have.
ScreensInv ==
  ShellInv /\ UpdateInv /\ LogInv /\ BellInv /\ FanInv /\ ListInv /\ ManagedInv /\ ProfileInv /\ FeedInv

LEMMA InitScreens == ServicesInit => ScreensInv
<1> SUFFICES ASSUME ServicesInit PROVE ScreensInv
  OBVIOUS
<1>1. /\ Routing!Init /\ Updating!Init /\ Logging!Init /\ Ringing!Init /\ Counts!Init
      /\ Listing!Init /\ Managing!Init /\ Editing!Init /\ Browsing!Init
  BY Zenon DEF ServicesInit
<1> QED
  BY <1>1, InitShell, InitUpdates, InitLog, InitBell, InitFans, InitList, InitManaged, InitProfile,
     InitFeed, Zenon DEF ScreensInv

\* A step of the services is one of the screen's own, or leaves it alone.
LEMMA ScreenSteps == [ServicesNext]_servicesVars =>
  /\ [Routing!Next]_shellVars /\ [Updating!Next]_updateVars /\ [Logging!Next]_logVars
  /\ [Ringing!Next]_bellVars /\ [Counts!Next]_fanVars /\ [Listing!Next]_listVars
  /\ [Managing!Next]_traineeVars /\ [Editing!Next]_profileVars /\ [Browsing!Next]_feedVars
BY Zenon DEF ServicesNext, servicesVars, Others, shellVars, updateVars, logVars, bellVars, fanVars,
   listVars, traineeVars, profileVars, feedVars

LEMMA FeedVariables == UNCHANGED feedVars => UNCHANGED Browsing!vars
BY DEF feedVars, Browsing!vars

LEMMA NextScreens == ScreensInv /\ [ServicesNext]_servicesVars => ScreensInv'
<1> SUFFICES ASSUME ScreensInv, [ServicesNext]_servicesVars PROVE ScreensInv'
  OBVIOUS
<1>1. ShellInv' /\ UpdateInv' /\ LogInv'
  BY ScreenSteps, NextShell, NextUpdates, NextLog, Zenon DEF ScreensInv
<1>2. BellInv' /\ FanInv' /\ ListInv'
  BY ScreenSteps, NextBell, NextFans, NextList, Zenon DEF ScreensInv
<1>3. ManagedInv' /\ ProfileInv'
  BY ScreenSteps, NextManaged, NextProfile, Zenon DEF ScreensInv
<1>4. FeedInv'
  BY ScreenSteps, FeedVariables, NextFeed, Zenon DEF ScreensInv
<1> QED
  BY <1>1, <1>2, <1>3, <1>4, Zenon DEF ScreensInv

\* The invariant of the screens: in every state, what each of them shows, what
\* is on its way to it and what is stored fit together.
THEOREM ScreensInvariant == ServicesSpec => []ScreensInv
<1> QED
  BY InitScreens, NextScreens, PTL DEF ServicesSpec

\* At rest, and outside the races that each part names, the reactions, the bell,
\* the conversation list, the trainees' page, the newsletter, the profile, the
\* log panel and file, the installed build and the page of the role show what is
\* stored: for any number of users, tabs, rows, posts and requests under way.
THEOREM ScreensAgree == ServicesSpec => []ScreensAgreeAtRest
<1>1. ScreensInv => ScreensAgreeAtRest
  BY ShellFits, DeployedIsShown, LogFits, BellFits, FansFit, ListFits, ManagedFits, ProfileFits,
     FeedFits, Zenon DEF ScreensInv, ScreensAgreeAtRest
<1> QED
  BY <1>1, ScreensInvariant, PTL

\* What each screen holds has its type: its tabs, rows, requests and messages.
ScreenTypes ==
  /\ Routing!TypeOK /\ Updating!TypeOK /\ Logging!TypeOK /\ Ringing!TypeOK /\ Counts!TypeOK
  /\ Listing!TypeOK /\ Managing!TypeOK /\ Editing!TypeOK /\ Browsing!TypeOK

THEOREM ScreensKeepTheirTypes == ServicesSpec => []ScreenTypes
<1>1. ShellInv => Routing!TypeOK
  BY Zenon DEF ShellInv
<1>2. ScreensInv => ScreenTypes
  BY <1>1, UpdateTypes, LogTypes, BellTypes, FanTypes, ListTypes, ManagedTypes, ProfileTypes,
     FeedTypes, Zenon DEF ScreensInv, ScreenTypes
<1> QED
  BY <1>2, ScreensInvariant, PTL
-----------------------------------------------------------------------------
(* The types of what is left: the typing indicator, the diagnostics'       *)
(* switches, the marks of the scrolling list, and the tokens.              *)

LEMMA TypeBounds ==
  /\ MaxKeys \in Nat /\ MaxCuts \in Nat /\ MaxBoots \in Nat
  /\ MaxSessions \in Nat /\ MaxLapses \in Nat
BY ServicesAssumption, Zenon DEF ServicesAssumption

TypingFlags ==
  /\ open \in BOOLEAN /\ typing \in BOOLEAN /\ typingTimer \in BOOLEAN
  /\ typingOnline \in BOOLEAN /\ reading \in BOOLEAN /\ typingShown \in BOOLEAN
  /\ lost \in BOOLEAN /\ overtaken \in BOOLEAN
Signals == Seq(BOOLEAN)
TypingSignals == buffer \in Signals /\ typingWire \in Signals
TypingCounts == keys \in 0 .. MaxKeys /\ typingCuts \in 0 .. MaxCuts
TypingInv == TypingFlags /\ TypingSignals /\ TypingCounts

LEMMA TypingTypes == TypingInv => Indicator!TypeOK
BY Zenon DEF TypingInv, TypingFlags, TypingSignals, Signals, TypingCounts, Indicator!TypeOK

LEMMA InitTyping == Indicator!Init => TypingInv
<1> SUFFICES ASSUME Indicator!Init PROVE TypingInv
  OBVIOUS
<1> USE TypeBounds
<1>1. TypingFlags
  BY Zenon DEF Indicator!Init, TypingFlags
<1>2. TypingSignals
  BY DEF Indicator!Init, TypingSignals, Signals
<1>3. TypingCounts
  BY DEF Indicator!Init, TypingCounts
<1> QED
  BY <1>1, <1>2, <1>3 DEF TypingInv

LEMMA SignalsJoin ==
  /\ <<>> \in Signals
  /\ \A on \in BOOLEAN : <<on>> \in Signals
  /\ \A s, t \in Signals : s \o t \in Signals
<1>1. \A T : <<>> \in Seq(T) /\ \A x \in T : <<x>> \in Seq(T)
  OBVIOUS
<1>2. \A T : \A s, t \in Seq(T) : s \o t \in Seq(T)
  OBVIOUS
<1> QED
  BY <1>1, <1>2, Zenon DEF Signals

\* The wire without the signal that is handled.
LEMMA SignalDropped ==
  ASSUME typingWire \in Signals, NEW i \in 1 .. Len(typingWire)
  PROVE  Indicator!Without(i) \in Signals /\ typingWire[i] \in BOOLEAN
<1> DEFINE n == Len(typingWire) - 1
<1>1. typingWire \in [1 .. (n + 1) -> BOOLEAN] /\ n \in Nat
  BY DEF Signals
<1>2. \A j \in 1 .. n : j \in 1 .. (n + 1) /\ j + 1 \in 1 .. (n + 1)
  BY <1>1
<1>3. Indicator!Without(i) = [j \in 1 .. n |-> IF j < i THEN typingWire[j] ELSE typingWire[j + 1]]
  BY DEF Indicator!Without
<1> HIDE DEF n
<1>4. Indicator!Without(i) \in [1 .. n -> BOOLEAN]
  BY <1>1, <1>2, <1>3
<1> QED
  BY <1>1, <1>4 DEF Signals

\* A signal waits in the buffer or is on the wire.
LEMMA EmitKeeps ==
  ASSUME TypingSignals, NEW s \in Signals, Indicator!Emit(s)
  PROVE  TypingSignals'
<1>1. CASE typingOnline
  <2>1. typingWire' = typingWire \o s /\ buffer' = buffer
    BY <1>1, Zenon DEF Indicator!Emit
  <2> QED
    BY <2>1, SignalsJoin, Zenon DEF TypingSignals
<1>2. CASE ~typingOnline
  <2>1. buffer' = buffer \o s /\ typingWire' = typingWire
    BY <1>2, Zenon DEF Indicator!Emit
  <2> QED
    BY <2>1, SignalsJoin, Zenon DEF TypingSignals
<1> QED
  BY <1>1, <1>2

LEMMA NextTyping == TypingInv /\ [Indicator!Next]_typingVars => TypingInv'
<1> SUFFICES ASSUME TypingInv, [Indicator!Next]_typingVars PROVE TypingInv'
  OBVIOUS
<1> USE TypeBounds
<1>i. TypingFlags /\ TypingSignals /\ TypingCounts
  BY DEF TypingInv
<1>1. ASSUME NEW on \in BOOLEAN, Indicator!HandleTyping(on) PROVE TypingInv'
  <2>1. /\ typing' = on /\ typingTimer' = on /\ keys < MaxKeys /\ keys' = keys + 1
        /\ UNCHANGED <<open, typingShown, typingOnline, reading, typingCuts, lost, overtaken>>
    BY <1>1 DEF Indicator!HandleTyping, Indicator!link, Indicator!history
  <2>2. PICK s \in Signals : Indicator!Emit(s)
    <3>1. Indicator!Emit(IF on # typing THEN <<on>> ELSE <<>>)
      BY <1>1, Zenon DEF Indicator!HandleTyping
    <3>2. CASE on # typing
      BY <1>1, <3>1, <3>2, SignalsJoin, Zenon
    <3>3. CASE on = typing
      BY <3>1, <3>3, SignalsJoin, Zenon
    <3> QED
      BY <3>2, <3>3
  <2>3. TypingFlags'
    BY <1>i, <1>1, <2>1, Zenon DEF TypingFlags
  <2>4. TypingCounts'
    BY <1>i, <2>1 DEF TypingCounts
  <2> QED
    BY <1>i, <2>2, <2>3, <2>4, EmitKeeps, Zenon DEF TypingInv
<1>2. CASE Indicator!TimerFires \/ Indicator!Leave
  <2>1. UNCHANGED <<typingShown, typingOnline, reading, typingCuts, keys, lost, overtaken>>
    BY <1>2 DEF Indicator!TimerFires, Indicator!Leave, Indicator!link, Indicator!history
  <2>2. typingTimer' = FALSE /\ typing' \in {typing, FALSE} /\ open' \in {open, FALSE}
    BY <1>2, Zenon DEF Indicator!TimerFires, Indicator!Leave
  <2>3. Indicator!Emit(<<FALSE>>) /\ <<FALSE>> \in Signals
    BY <1>2, SignalsJoin, Zenon DEF Indicator!TimerFires, Indicator!Leave
  <2>4. TypingFlags'
    BY <1>i, <2>1, <2>2, Zenon DEF TypingFlags
  <2>5. TypingCounts'
    BY <1>i, <2>1 DEF TypingCounts
  <2> QED
    BY <1>i, <2>3, <2>4, <2>5, EmitKeeps, Zenon DEF TypingInv
<1>3. ASSUME NEW i \in 1 .. Len(typingWire), Indicator!Relay(i) \/ Indicator!Refuse(i)
      PROVE  TypingInv'
  <2>1. /\ typingWire' = Indicator!Without(i)
        /\ typingShown' \in {typingShown, typingWire[i]}
        /\ lost' = (lost \/ ~reading) \/ lost' = TRUE
        /\ \/ overtaken' = overtaken
           \/ overtaken' = (overtaken \/ (~typingWire[i] /\ \E j \in 1 .. (i - 1) : typingWire[j]))
        /\ UNCHANGED <<open, typing, typingTimer, buffer, typingOnline, reading, typingCuts, keys>>
    BY <1>3, Zenon DEF Indicator!Relay, Indicator!Refuse, Indicator!link
  <2>2. typingWire[i] \in BOOLEAN /\ TypingSignals'
    BY <1>i, <2>1, SignalDropped DEF TypingSignals
  <2>3. TypingFlags'
    BY <1>i, <2>1, <2>2, Zenon DEF TypingFlags
  <2>4. TypingCounts'
    BY <1>i, <2>1 DEF TypingCounts
  <2> QED
    BY <2>2, <2>3, <2>4 DEF TypingInv
<1>4. CASE Indicator!CutOff
  <2>1. /\ typingOnline' = FALSE /\ lost' = (lost \/ typingWire # <<>>) /\ typingWire' = <<>>
        /\ typingCuts < MaxCuts /\ typingCuts' = typingCuts + 1
        /\ UNCHANGED <<open, typing, typingTimer, buffer, typingShown, reading, keys, overtaken>>
    BY <1>4 DEF Indicator!CutOff
  <2>2. TypingSignals'
    BY <1>i, <2>1, SignalsJoin, Zenon DEF TypingSignals
  <2>3. TypingFlags'
    BY <1>i, <2>1, Zenon DEF TypingFlags
  <2>4. TypingCounts'
    BY <1>i, <2>1 DEF TypingCounts
  <2> QED
    BY <2>2, <2>3, <2>4 DEF TypingInv
<1>5. ASSUME NEW rebuilt \in BOOLEAN, Indicator!Reconnect(rebuilt) PROVE TypingInv'
  <2>1. /\ typingOnline' = TRUE /\ buffer' = <<>>
        /\ typingWire' = IF rebuilt THEN typingWire ELSE typingWire \o buffer
        /\ lost' = (lost \/ (rebuilt /\ buffer # <<>>))
        /\ UNCHANGED <<open, typing, typingTimer, typingShown, reading, keys, typingCuts, overtaken>>
    BY <1>5, Zenon DEF Indicator!Reconnect
  <2>2. TypingSignals'
    BY <1>i, <2>1, SignalsJoin, Zenon DEF TypingSignals
  <2>3. TypingFlags'
    BY <1>i, <2>1, Zenon DEF TypingFlags
  <2>4. TypingCounts'
    BY <1>i, <2>1 DEF TypingCounts
  <2> QED
    BY <2>2, <2>3, <2>4 DEF TypingInv
<1>6. CASE Indicator!ReaderLeaves \/ UNCHANGED typingVars
  <2>1. /\ reading' \in {reading, FALSE}
        /\ UNCHANGED <<open, typing, typingTimer, typingOnline, buffer, typingWire, typingShown,
                       keys, typingCuts, lost, overtaken>>
    BY <1>6, Zenon DEF Indicator!ReaderLeaves, Indicator!history, typingVars
  <2>2. TypingFlags'
    BY <1>i, <2>1, Zenon DEF TypingFlags
  <2>3. TypingSignals' /\ TypingCounts'
    BY <1>i, <2>1 DEF TypingSignals, TypingCounts
  <2> QED
    BY <2>2, <2>3 DEF TypingInv
<1> QED
  BY <1>1, <1>2, <1>3, <1>4, <1>5, <1>6, Zenon DEF Indicator!Next

\* What DiagInv leaves open.
DiagMarks ==
  /\ reported \in BOOLEAN /\ connected \in BOOLEAN /\ hidden \in BOOLEAN
  /\ diagTimer \in BOOLEAN /\ flushing \in BOOLEAN /\ limited \in BOOLEAN
DiagPlaces == recovery \in {"idle", "scheduled", "sent"} /\ boots \in 0 .. MaxBoots

LEMMA DiagTypes == DiagInv /\ DiagMarks /\ DiagPlaces => Events!TypeOK
BY Zenon DEF DiagInv, DiagFit, DiagMarks, DiagPlaces, Events!TypeOK

LEMMA InitMarks == Events!Init => DiagMarks /\ DiagPlaces
<1> SUFFICES ASSUME Events!Init PROVE DiagMarks /\ DiagPlaces
  OBVIOUS
<1>1. DiagMarks
  BY Zenon DEF Events!Init, DiagMarks
<1>2. DiagPlaces
  BY TypeBounds DEF Events!Init, DiagPlaces
<1> QED
  BY <1>1, <1>2

LEMMA NextPlaces == DiagPlaces /\ [Events!Next]_diagVars => DiagPlaces'
<1> SUFFICES ASSUME DiagPlaces, [Events!Next]_diagVars PROVE DiagPlaces'
  OBVIOUS
<1>1. /\ recovery' \in {recovery, "idle", "scheduled", "sent"}
      /\ boots' = boots \/ (boots < MaxBoots /\ boots' = boots + 1)
  <2>1. CASE Events!Record \/ Events!Prune \/ Events!Flush \/ Events!FlushTimesOut \/ Events!LimitPasses
    BY <2>1, Zenon DEF Events!Record, Events!Prune, Events!Flush, Events!FlushTimesOut,
       Events!LimitPasses, Events!delivery, Events!store
  <2>2. ASSUME NEW e, Events!Persist(e) \/ Events!PersistFails(e)
        PROVE  recovery' = recovery /\ boots' = boots
    BY <2>2, Zenon DEF Events!Persist, Events!PersistFails, Events!delivery
  <2>3. ASSUME NEW m, Events!FlushAcked(m) \/ Events!HandleBatch(m)
        PROVE  recovery' = recovery /\ boots' = boots
    BY <2>3, Zenon DEF Events!FlushAcked, Events!HandleBatch
  <2>4. ASSUME NEW m, Events!RecoveryAcked(m)
        PROVE  recovery' \in {recovery, "idle", "scheduled"} /\ boots' = boots
    BY <2>4, Zenon DEF Events!RecoveryAcked
  <2>5. CASE Events!Recover \/ Events!RecoveryTimesOut \/ Events!Connect \/ Events!Disconnect
    BY <2>5, Zenon DEF Events!Recover, Events!RecoveryTimesOut, Events!Connect, Events!Disconnect
  <2>6. ASSUME NEW on, Events!HidePage(on) PROVE recovery' = recovery /\ boots' = boots
    BY <2>6, Zenon DEF Events!HidePage, Events!delivery
  <2>7. ASSUME NEW on, Events!Boot(on)
        PROVE  recovery' = "scheduled" /\ boots < MaxBoots /\ boots' = boots + 1
    BY <2>7, Zenon DEF Events!Boot
  <2>8. CASE UNCHANGED diagVars
    BY <2>8, Zenon DEF diagVars
  <2> QED
    BY <2>1, <2>2, <2>3, <2>4, <2>5, <2>6, <2>7, <2>8, Zenon DEF Events!Next
<1> QED
  BY <1>1, TypeBounds DEF DiagPlaces

LEMMA NextMarks == DiagMarks /\ [Events!Next]_diagVars => DiagMarks'
<1> SUFFICES ASSUME DiagMarks, [Events!Next]_diagVars PROVE DiagMarks'
  OBVIOUS
<1>1. CASE Events!Record \/ Events!Prune \/ Events!Flush \/ Events!FlushTimesOut \/ Events!LimitPasses
  <2>1. CASE Events!Record
    BY <2>1, Zenon DEF DiagMarks, Events!Record, Events!ScheduleFlush, Events!delivery
  <2>2. CASE Events!Prune
    BY <2>2, Zenon DEF DiagMarks, Events!Prune, Events!delivery
  <2>3. CASE Events!Flush
    BY <2>3, Zenon DEF DiagMarks, Events!Flush, Events!store
  <2>4. CASE Events!FlushTimesOut \/ Events!LimitPasses
    BY <2>4, Zenon DEF DiagMarks, Events!FlushTimesOut, Events!LimitPasses, Events!store
  <2> QED
    BY <1>1, <2>1, <2>2, <2>3, <2>4
<1>2. ASSUME NEW e, Events!Persist(e) PROVE DiagMarks'
  BY <1>2, Zenon DEF DiagMarks, Events!Persist, Events!delivery
<1>3. ASSUME NEW e, Events!PersistFails(e) PROVE DiagMarks'
  BY <1>3, Zenon DEF DiagMarks, Events!PersistFails, Events!ScheduleFlush, Events!delivery
<1>4. ASSUME NEW m, Events!FlushAcked(m) PROVE DiagMarks'
  BY <1>4, Zenon DEF DiagMarks, Events!FlushAcked
<1>5. ASSUME NEW m, Events!HandleBatch(m) PROVE DiagMarks'
  <2>1. PICK ok \in BOOLEAN : limited' = (limited \/ ok)
    <3>1. limited' = (limited \/ (~limited /\ Events!Valid(m.ids)))
      BY <1>5, Zenon DEF Events!HandleBatch
    <3>2. (~limited /\ Events!Valid(m.ids)) \in BOOLEAN
      BY Zenon
    <3> QED
      BY <3>1, <3>2, Zenon
  <2>2. UNCHANGED <<reported, connected, hidden, diagTimer, flushing>>
    BY <1>5, Zenon DEF Events!HandleBatch, Events!store
  <2> QED
    BY <2>1, <2>2, Zenon DEF DiagMarks
<1>6. ASSUME NEW m, Events!RecoveryAcked(m) PROVE DiagMarks'
  BY <1>6, Zenon DEF DiagMarks, Events!RecoveryAcked
<1>7. CASE Events!Recover \/ Events!RecoveryTimesOut
  BY <1>7, Zenon DEF DiagMarks, Events!Recover, Events!RecoveryTimesOut, Events!store
<1>8. CASE Events!Connect \/ Events!Disconnect
  BY <1>8, Zenon DEF DiagMarks, Events!Connect, Events!Disconnect, Events!ScheduleFlush
<1>9. ASSUME NEW on \in BOOLEAN, Events!HidePage(on) PROVE DiagMarks'
  BY <1>9, Zenon DEF DiagMarks, Events!HidePage, Events!ScheduleFlush, Events!delivery
<1>10. ASSUME NEW on, Events!Boot(on) PROVE DiagMarks'
  BY <1>10, Zenon DEF DiagMarks, Events!Boot
<1>11. CASE UNCHANGED diagVars
  BY <1>11, Zenon DEF DiagMarks, diagVars
<1> QED
  BY <1>1, <1>2, <1>3, <1>4, <1>5, <1>6, <1>7, <1>8, <1>9, <1>10, <1>11, Zenon DEF Events!Next

\* What ScrollInv leaves open.
ScrollMarks == autoScroll \in BOOLEAN /\ event \in BOOLEAN /\ scrollCrossed \in BOOLEAN
ScrollCounts ==
  /\ prevScrollHeight <= Newest /\ anchors \in 0 .. 2
  /\ changes \in 0 .. MaxChanges /\ failures \in 0 .. MaxFailures

LEMMA ScrollTypes == ScrollInv /\ ScrollMarks /\ ScrollCounts => Scrolling!TypeOK
<1> SUFFICES ASSUME ScrollInv, ScrollMarks, ScrollCounts PROVE Scrolling!TypeOK
  OBVIOUS
<1> USE ScrollBounds
<1>1. isFirstLoad \in BOOLEAN /\ isLoadingMore \in BOOLEAN /\ scrollCrossed \in BOOLEAN
      /\ autoScroll \in BOOLEAN /\ event \in BOOLEAN
  BY Zenon DEF ScrollInv, PlaceFlags, ScrollMarks
<1>2. lo \in 0 .. Newest /\ hi \in 0 .. Newest /\ at \in lo .. hi /\ prevScrollHeight \in 0 .. Newest
  BY <1>1 DEF ScrollInv, PlaceFits, ScrollCounts
<1>3. /\ lo \in Scrolling!Messages /\ hi \in Scrolling!Messages
      /\ prevScrollHeight \in Scrolling!Messages
  BY <1>2 DEF Scrolling!Messages, Newest
<1> QED
  BY <1>1, <1>2, <1>3, Zenon DEF Scrolling!TypeOK, ScrollCounts

LEMMA InitScrollMarks == Scrolling!Init => ScrollMarks /\ ScrollCounts
<1> SUFFICES ASSUME Scrolling!Init PROVE ScrollMarks /\ ScrollCounts
  OBVIOUS
<1>1. ScrollMarks
  BY Zenon DEF Scrolling!Init, ScrollMarks
<1>2. ScrollCounts
  BY ScrollBounds DEF Scrolling!Init, ScrollCounts
<1> QED
  BY <1>1, <1>2

LEMMA NextScrollMarks ==
  ScrollInv /\ ScrollMarks /\ ScrollCounts /\ [Scrolling!Next]_scrollVars => ScrollMarks' /\ ScrollCounts'
<1> SUFFICES ASSUME ScrollInv, ScrollMarks, ScrollCounts, [Scrolling!Next]_scrollVars
             PROVE  ScrollMarks' /\ ScrollCounts'
  OBVIOUS
<1> USE ScrollBounds
<1>t. /\ isFirstLoad \in BOOLEAN /\ isLoadingMore \in BOOLEAN /\ scrollCrossed \in BOOLEAN
      /\ autoScroll \in BOOLEAN /\ event \in BOOLEAN
  BY Zenon DEF ScrollInv, PlaceFlags, ScrollMarks
<1>n. /\ prevScrollHeight \in Nat /\ prevScrollHeight <= Newest /\ anchors \in 0 .. 2
      /\ changes \in 0 .. MaxChanges /\ failures \in 0 .. MaxFailures
  BY DEF ScrollInv, PlaceFits, ScrollCounts
<1>h. Scrolling!Height(lo, hi) <= Newest
  BY <1>t DEF ScrollInv, PlaceFits, Scrolling!Height
<1>1. ASSUME NEW l, NEW h, Scrolling!Rendered(l, h)
      PROVE  /\ autoScroll' \in BOOLEAN /\ event' \in BOOLEAN
             /\ prevScrollHeight' <= Newest /\ anchors' \in 0 .. 2
  <2>1. autoScroll' = autoScroll /\ event' = (event \/ at' - l # at - lo)
    BY <1>1, Zenon DEF Scrolling!Rendered
  <2>2. prevScrollHeight' \in {prevScrollHeight, 0} /\ anchors' \in {anchors, 2}
    BY <1>1, Zenon DEF Scrolling!Rendered, Scrolling!Forget
  <2>3. autoScroll' \in BOOLEAN /\ event' \in BOOLEAN
    BY <1>t, <2>1, Zenon
  <2>4. prevScrollHeight' <= Newest /\ anchors' \in 0 .. 2
    BY <1>n, <2>2
  <2> QED
    BY <2>3, <2>4
<1>2. CASE Scrolling!Opened \/ Scrolling!Arrives \/ Scrolling!Changes \/ Scrolling!Prepended
  <2>1. PICK l, h : Scrolling!Rendered(l, h)
    BY <1>2, Zenon DEF Scrolling!Opened, Scrolling!Arrives, Scrolling!Changes, Scrolling!Prepended
  <2>2. scrollCrossed' \in BOOLEAN
    BY <1>t, <1>2, Zenon DEF Scrolling!Opened, Scrolling!Arrives, Scrolling!Changes,
       Scrolling!Prepended
  <2>3. /\ changes' = changes \/ (changes < MaxChanges /\ changes' = changes + 1)
        /\ failures' = failures
    BY <1>2, Zenon DEF Scrolling!Opened, Scrolling!Arrives, Scrolling!Changes, Scrolling!Prepended
  <2>4. changes' \in 0 .. MaxChanges /\ failures' \in 0 .. MaxFailures
    BY <1>n, <2>3
  <2> QED
    BY <1>1, <2>1, <2>2, <2>4, Zenon DEF ScrollMarks, ScrollCounts
<1>3. CASE Scrolling!Anchor
  <2>1. /\ anchors > 0 /\ anchors' = anchors - 1
        /\ UNCHANGED <<autoScroll, prevScrollHeight, changes, failures>>
    BY <1>3, Zenon DEF Scrolling!Anchor, Scrolling!refs
  <2>2. /\ event' = (event \/ at # hi)
        /\ scrollCrossed' = (scrollCrossed \/ (isLoadingMore /\ at # hi))
    BY <1>3, Zenon DEF Scrolling!Anchor
  <2>3. ScrollMarks'
    BY <1>t, <2>1, <2>2, Zenon DEF ScrollMarks
  <2>4. ScrollCounts'
    BY <1>n, <2>1 DEF ScrollCounts
  <2> QED
    BY <2>3, <2>4
<1>4. CASE Scrolling!LoadFails
  <2>1. /\ failures < MaxFailures /\ failures' = failures + 1
        /\ UNCHANGED <<autoScroll, prevScrollHeight, anchors, event, changes>>
    BY <1>4, Zenon DEF Scrolling!LoadFails, Scrolling!refs
  <2>2. scrollCrossed' \in BOOLEAN
    <3>1. scrollCrossed' = (prevScrollHeight > 0)
      BY <1>4, Zenon DEF Scrolling!LoadFails
    <3>2. (prevScrollHeight > 0) \in BOOLEAN
      OBVIOUS
    <3> QED
      BY <3>1, <3>2, Zenon
  <2>3. ScrollMarks'
    BY <1>t, <2>1, <2>2, Zenon DEF ScrollMarks
  <2>4. ScrollCounts'
    BY <1>n, <2>1 DEF ScrollCounts
  <2> QED
    BY <2>3, <2>4
<1>5. ASSUME NEW m, Scrolling!UserScrolls(m) PROVE ScrollMarks' /\ ScrollCounts'
  <2>1. /\ event' = TRUE /\ scrollCrossed' = (scrollCrossed \/ isLoadingMore)
        /\ UNCHANGED <<autoScroll, prevScrollHeight, anchors, changes, failures>>
    BY <1>5, Zenon DEF Scrolling!UserScrolls, Scrolling!refs
  <2>2. ScrollMarks'
    BY <1>t, <2>1, Zenon DEF ScrollMarks
  <2>3. ScrollCounts'
    BY <1>n, <2>1 DEF ScrollCounts
  <2> QED
    BY <2>2, <2>3
<1>6. CASE Scrolling!OnScroll \/ Scrolling!HandleLoadMoreClick \/ UNCHANGED scrollVars
  <2>1. /\ autoScroll' = autoScroll \/ autoScroll' = (at = hi)
        /\ event' \in {event, FALSE} /\ scrollCrossed' \in {scrollCrossed, FALSE}
        /\ UNCHANGED <<anchors, changes, failures>>
    BY <1>6, Zenon DEF Scrolling!OnScroll, Scrolling!HandleLoadMoreClick, scrollVars
  <2>2. prevScrollHeight' \in {prevScrollHeight, Scrolling!Height(lo, hi)}
    BY <1>6, Zenon DEF Scrolling!OnScroll, Scrolling!HandleLoadMoreClick, Scrolling!LoadMore,
       scrollVars
  <2>3. ScrollMarks'
    BY <1>t, <2>1, Zenon DEF ScrollMarks
  <2>4. ScrollCounts'
    BY <1>h, <1>n, <2>1, <2>2 DEF ScrollCounts
  <2> QED
    BY <2>3, <2>4
<1> QED
  BY <1>2, <1>3, <1>4, <1>5, <1>6, Zenon DEF Scrolling!Next

\* The indicator, the switches and the marks have their types, and the tokens
\* keep the invariant of TokenRefreshProofs beside the other services.
TypesInv ==
  TypingInv /\ DiagMarks /\ DiagPlaces /\ ScrollInv /\ ScrollMarks /\ ScrollCounts /\ TInv

LEMMA TypeSteps == [ServicesNext]_servicesVars =>
  [Indicator!Next]_typingVars /\ [Events!Next]_diagVars /\ [Scrolling!Next]_scrollVars /\ [Next]_tokenVars
BY Zenon DEF ServicesNext, servicesVars, Others, typingVars, diagVars, scrollVars, tokenVars

LEMMA NextTokens == TInv /\ [Next]_tokenVars => TInv'
<1>1. UNCHANGED tokenVars => UNCHANGED vars
  BY DEF tokenVars, vars
<1> QED
  BY <1>1, TypeBounds, NextTInv

\* The invariant of what the other theorems leave open: the typing indicator, the
\* flags of the diagnostics and of the scroll hook, and the interceptor's queue.
THEOREM TypesInvariant == ServicesSpec => []TypesInv
<1>1. ServicesInit => TypesInv
  <2> SUFFICES ASSUME ServicesInit PROVE TypesInv
    OBVIOUS
  <2>1. Indicator!Init /\ Events!Init /\ Scrolling!Init /\ Init
    BY Zenon DEF ServicesInit
  <2>2. TInv
    BY <2>1, TypeBounds, InitTInv
  <2> QED
    BY <2>1, <2>2, InitTyping, InitMarks, InitScroll, InitScrollMarks, Zenon DEF TypesInv
<1>2. TypesInv /\ [ServicesNext]_servicesVars => TypesInv'
  BY TypeSteps, NextTyping, NextMarks, NextPlaces, NextScroll, NextScrollMarks, NextTokens,
     Zenon DEF TypesInv
<1> QED
  BY <1>1, <1>2, PTL DEF ServicesSpec

\* All variables of the services and of the conversation page keep their types,
\* in every state and whichever service runs.
THEOREM ServicesTypes == ServicesSpec => []ServicesTypeOK
<1>1. OtpInv => Codes!TypeOK
  BY Zenon DEF OtpInv
<1>2. ReminderInv => Reminding!TypeOK
  BY Zenon DEF ReminderInv
<1>3. PostsInv => Publishing!TypeOK
  BY Zenon DEF PostsInv
<1>4. PushInv => Pushing!TypeOK
  BY Zenon DEF PushInv
<1>5. TInv => TypeOK
  BY Zenon DEF TInv, Types, TypeOK, CallRecords
<1>6. TypesInv /\ DiagInv => Indicator!TypeOK /\ Events!TypeOK /\ Scrolling!TypeOK /\ TypeOK
  BY <1>5, TypingTypes, DiagTypes, ScrollTypes, Zenon DEF TypesInv
<1>7. PageInv => Input!TypeOK /\ Viewing!TypeOK /\ Playing!TypeOK /\ Picturing!TypeOK
  BY AvatarFits, MediaFits, ViewerFits, InputFits, Zenon DEF PageInv
<1>8. ASSUME OtpInv, ReminderInv, PostsInv, PushInv, DiagInv, PageInv, TypesInv, ScreenTypes
      PROVE  ServicesTypeOK
  <2>1. Codes!TypeOK /\ Reminding!TypeOK /\ Publishing!TypeOK /\ Pushing!TypeOK
    BY <1>1, <1>2, <1>3, <1>4, <1>8, Zenon
  <2>2. Indicator!TypeOK /\ Events!TypeOK /\ Scrolling!TypeOK /\ TypeOK
    BY <1>6, <1>8, Zenon
  <2>3. Input!TypeOK /\ Viewing!TypeOK /\ Playing!TypeOK /\ Picturing!TypeOK
    BY <1>7, <1>8, Zenon
  <2>4. /\ Routing!TypeOK /\ Updating!TypeOK /\ Logging!TypeOK /\ Ringing!TypeOK /\ Counts!TypeOK
        /\ Listing!TypeOK /\ Managing!TypeOK /\ Editing!TypeOK /\ Browsing!TypeOK
    BY <1>8, Zenon DEF ScreenTypes
  <2> QED
    BY <2>1, <2>2, <2>3, <2>4, Zenon DEF ServicesTypeOK
<1> QED
  BY <1>8, OtpInvariant, ReminderInvariant, PostsInvariant, PushInvariant, DiagInvariant,
     PageInvariant, TypesInvariant, ScreensKeepTheirTypes, PTL

\* The tokens beside the other services: the access token in sessionStorage is of
\* the user in the auth store, unless a login or a logout overtook a refresh
\* (api-client.ts:79 and 110).
THEOREM TokensOfTheUser == ServicesSpec => []AccessIsOfTheUser
<1>1. TypesInv => AccessIsOfTheUser
  BY DEF TypesInv, TInv, SessionInv, AccessIsOfTheUser
<1> QED
  BY <1>1, TypesInvariant, PTL
=============================================================================
