----------------------------- MODULE SendPromise -----------------------------
(***************************************************************************)
(* What the API promises about CHAT_SEND, with no word about how.          *)
(*                                                                         *)
(* A call asks for a message (a key: who sends it and the sender's own id  *)
(* for it).  Several calls may ask for the same message: a client that got *)
(* no answer asks again.  The promise is that a message gets at most one   *)
(* row however often it is asked for, that every success answer names the  *)
(* row of the message that was asked for, and that a row is announced to   *)
(* the room at most once, and only after it is durable.                    *)
(*                                                                         *)
(* A row is identified by the call that stored it.  ChatServer.tla is      *)
(* shown to implement this specification.                                  *)
(***************************************************************************)
EXTENDS Naturals

CONSTANTS
  Calls,    \* the handler invocations
  Keys,     \* the messages that can be asked for
  None      \* no key, no answer

VARIABLES
  asked,      \* asked[c]: the message call c asks for
  rows,       \* the calls whose row is durable
  answer,     \* answer[c]: None, "failed", or the row c was told about
  announced   \* announced[c]: how often the row of c went out to the room

vars == <<asked, rows, answer, announced>>

Init ==
  /\ asked = [c \in Calls |-> None]
  /\ rows = {}
  /\ answer = [c \in Calls |-> None]
  /\ announced = [c \in Calls |-> 0]

\* A request arrives.  A malformed one may be refused on the spot.
Ask(c) ==
  /\ asked[c] = None
  /\ \E k \in Keys : asked' = [asked EXCEPT ![c] = k]
  /\ answer' \in {answer, [answer EXCEPT ![c] = "failed"]}
  /\ UNCHANGED <<rows, announced>>

\* The message becomes durable, once, and the call may be answered with it.
\* "failed" in the same step is an answer that lost track of the commit.
Store(c) ==
  /\ asked[c] # None
  /\ answer[c] = None
  /\ \A r \in rows : asked[r] # asked[c]
  /\ rows' = rows \cup {c}
  /\ answer' \in {answer, [answer EXCEPT ![c] = "failed"], [answer EXCEPT ![c] = c]}
  /\ UNCHANGED <<asked, announced>>

\* Success: the answer names the durable row of the message asked for.
Confirm(c) ==
  /\ asked[c] # None
  /\ answer[c] = None
  /\ \E r \in rows :
       /\ asked[r] = asked[c]
       /\ answer' = [answer EXCEPT ![c] = r]
  /\ UNCHANGED <<asked, rows, announced>>

Refuse(c) ==
  /\ asked[c] # None
  /\ answer[c] = None
  /\ answer' = [answer EXCEPT ![c] = "failed"]
  /\ UNCHANGED <<asked, rows, announced>>

Announce(c) ==
  /\ c \in rows
  /\ announced[c] = 0
  /\ announced' = [announced EXCEPT ![c] = 1]
  /\ UNCHANGED <<asked, rows, answer>>

Next == \E c \in Calls : Ask(c) \/ Store(c) \/ Confirm(c) \/ Refuse(c) \/ Announce(c)

Spec == Init /\ [][Next]_vars

=============================================================================
