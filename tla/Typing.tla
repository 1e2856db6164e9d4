------------------------------ MODULE Typing ------------------------------
(***************************************************************************)
(* The typing indicator: MessageInput of the writer, the gateway's relay   *)
(* and typingUsers of the reader.                                          *)
(*                                                                         *)
(* `typing` and `timer` are the state of MessageInput; a signal emitted    *)
(* while the writer is offline waits in the socket's buffer and is sent    *)
(* after the reconnect, unless the socket was replaced meanwhile.  Signals  *)
(* are relayed in any order: WsJwtGuard reads the user before each.        *)
(***************************************************************************)
EXTENDS Integers, Sequences

CONSTANTS
  MaxKeys,       \* changes of the text (a bound)
  MaxCuts        \* drops of the writer's connection (a bound)

VARIABLES
  open,     \* the writer's MessageInput is mounted
  typing,   \* isTyping
  timer,    \* typingTimerRef: the 2 s timer runs
  online,   \* the writer's socket is connected
  buffer,   \* signals emitted while it was not
  wire,     \* signals on their way to the reader
  shown,    \* typingUsers holds the writer
  reading,  \* the reader's page is open and in the room
  keys, cuts,
  lost,     \* history: a signal was lost or refused, or the reader was not there
  overtaken \* history: a STOP was relayed before a START sent earlier

vars == <<open, typing, timer, online, buffer, wire, shown, reading, keys, cuts,
          lost, overtaken>>
history == <<lost, overtaken>>
link == <<online, reading, cuts>>

TypeOK ==
  /\ open \in BOOLEAN /\ typing \in BOOLEAN /\ timer \in BOOLEAN
  /\ online \in BOOLEAN /\ reading \in BOOLEAN /\ shown \in BOOLEAN
  /\ buffer \in Seq(BOOLEAN) /\ wire \in Seq(BOOLEAN)
  /\ keys \in 0..MaxKeys /\ cuts \in 0..MaxCuts
  /\ lost \in BOOLEAN /\ overtaken \in BOOLEAN

Init ==
  /\ open = TRUE /\ typing = FALSE /\ timer = FALSE
  /\ online = TRUE /\ reading = TRUE
  /\ buffer = <<>> /\ wire = <<>> /\ shown = FALSE
  /\ keys = 0 /\ cuts = 0 /\ lost = FALSE /\ overtaken = FALSE

-----------------------------------------------------------------------------
\* socketRef.current.emit: TRUE is CHAT_TYPING_START, FALSE is CHAT_TYPING_STOP.
Emit(signals) ==
  IF online THEN wire' = wire \o signals /\ UNCHANGED buffer
            ELSE buffer' = buffer \o signals /\ UNCHANGED wire

\* Mutant: the timer is armed by the first key only.
HandleTypingArmingOnce(on) ==
  /\ open /\ keys < MaxKeys /\ keys' = keys + 1
  /\ typing' = on
  /\ timer' = (on /\ ~typing /\ keys = 0)
  /\ Emit(IF on # typing THEN <<on>> ELSE <<>>)
  /\ UNCHANGED <<open, shown, link, history>>

\* handleTyping: a key (on), an emptied field, a blur or a sent message (off).
HandleTyping(on) ==
  /\ open /\ keys < MaxKeys /\ keys' = keys + 1
  /\ typing' = on
  /\ timer' = on
  /\ Emit(IF on # typing THEN <<on>> ELSE <<>>)
  /\ UNCHANGED <<open, shown, link, history>>

\* The 2 s timer of the last key.
TimerFires ==
  /\ timer /\ timer' = FALSE
  /\ typing' = FALSE
  /\ Emit(<<FALSE>>)
  /\ UNCHANGED <<open, shown, link, keys, history>>

\* The cleanup on unmount or when the conversation changes.
Leave ==
  /\ open /\ open' = FALSE
  /\ timer' = FALSE
  /\ Emit(<<FALSE>>)
  /\ UNCHANGED <<typing, shown, link, keys, history>>

Without(i) == [j \in 1..(Len(wire) - 1) |-> IF j < i THEN wire[j] ELSE wire[j + 1]]

\* handleTypingStart and handleTypingStop relay to the room, each once its guard
\* has read the user; onTyping of the reader sets typingUsers.
Relay(i) ==
  /\ wire' = Without(i)
  /\ shown' = IF reading THEN wire[i] ELSE shown
  /\ lost' = (lost \/ ~reading)
  /\ overtaken' = (overtaken \/ (~wire[i] /\ \E j \in 1..(i - 1) : wire[j]))
  /\ UNCHANGED <<open, typing, timer, buffer, link, keys>>

\* The guard throws: the token has expired since the handshake, or the read fails.
Refuse(i) ==
  /\ wire' = Without(i) /\ lost' = TRUE
  /\ UNCHANGED <<open, typing, timer, buffer, shown, link, keys, overtaken>>

Handled == \E i \in 1..Len(wire) : Relay(i) \/ Refuse(i)

\* Takes the signals of this connection with it.
CutOff ==
  /\ online /\ cuts < MaxCuts
  /\ online' = FALSE /\ cuts' = cuts + 1
  /\ lost' = (lost \/ wire # <<>>)
  /\ wire' = <<>>
  /\ UNCHANGED <<open, typing, timer, buffer, shown, reading, keys, overtaken>>

\* Socket.IO sends its buffer when the same socket is back; a rebuilt socket
\* has none.
Reconnect(rebuilt) ==
  /\ ~online /\ online' = TRUE
  /\ wire' = IF rebuilt THEN wire ELSE wire \o buffer
  /\ buffer' = <<>>
  /\ lost' = (lost \/ (rebuilt /\ buffer # <<>>))
  /\ UNCHANGED <<open, typing, timer, shown, reading, keys, cuts, overtaken>>

ReaderLeaves ==
  /\ reading /\ reading' = FALSE
  /\ UNCHANGED <<open, typing, timer, online, buffer, wire, shown, keys, cuts, history>>

Next ==
  \/ \E on \in BOOLEAN : HandleTyping(on)
  \/ TimerFires \/ Leave \/ CutOff
  \/ \E i \in 1..Len(wire) : Relay(i) \/ Refuse(i)
  \/ \E rebuilt \in BOOLEAN : Reconnect(rebuilt)
  \/ ReaderLeaves

\* setTimeout fires, a socket that lost its connection comes back, and the
\* guard of a signal that arrived comes to its end.
Fairness ==
  /\ WF_vars(TimerFires)
  /\ WF_vars(Handled)
  /\ WF_vars(\E rebuilt \in BOOLEAN : Reconnect(rebuilt))

Spec == Init /\ [][Next]_vars
FairSpec == Spec /\ Fairness

-----------------------------------------------------------------------------
\* An indicator that is shown goes out again by the timer, the blur, the send or
\* the unmount, and also across a reconnect (MessageInput.tsx:63-69), unless one
\* of the writer's signals was lost or refused, or a STOP overtook its START in
\* the guard (ws-jwt.guard.ts:33).  A START that overtakes a STOP does no harm.
IndicatorGoesOut == shown ~> (~shown \/ lost \/ overtaken)
=============================================================================
