----------------------------- MODULE MCChatSync -----------------------------
(***************************************************************************)
(* The messages of a conversation page and its bar of pinned ones on small *)
(* instances.  They share no variable: the first state picks the one that  *)
(* runs (focus), so that the state space is the sum of theirs and not the  *)
(* product.                                                                *)
(***************************************************************************)
EXTENDS ChatSync

CONSTANTS PinMsgs, Mine, PinCalls

ASSUME PinsAssumption == PinMsgs # {}

VARIABLES
  focus,
  pinnedBy, gone, tap, bar, room, fetch, overlapped

Pinning == INSTANCE Pins

listVars == vars
pinVars == <<pinnedBy, gone, tap, bar, room, fetch, overlapped>>

PageInit ==
  /\ focus \in {"messages", "pins"}
  /\ Init
  /\ Pinning!Init

PageNext ==
  \/ focus = "messages" /\ Next /\ UNCHANGED <<focus, pinVars>>
  \/ focus = "pins" /\ Pinning!Next /\ UNCHANGED <<focus, listVars>>

PageSpec == PageInit /\ [][PageNext]_<<focus, listVars, pinVars>>

\* Of the part that runs: the other is in its initial state.
PageTypeOK ==
  /\ focus = "messages" => TypeOK
  /\ focus = "pins" => Pinning!TypeOK

OneTraineePin == Pinning!OneTraineePin
=============================================================================
