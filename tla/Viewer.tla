------------------------------- MODULE Viewer -------------------------------
(***************************************************************************)
(* The full-screen image viewer: pinch, pan, double tap and wheel over a   *)
(* transform that is kept outside React's state, while the image behind it *)
(* may be replaced (an optimistic picture by its stored copy).             *)
(*                                                                         *)
(* The scale is a number of steps, Fit for the whole image; the two        *)
(* offsets are one flag, whether the image is moved away from the centre.  *)
(***************************************************************************)
EXTENDS Integers

CONSTANTS
  Zoomed,     \* scales above Fit that are told apart
  MaxTouches, \* fingers at once (a bound)
  MaxSwaps    \* replacements of the image (a bound)

Fit == 1
Scales == Fit .. (Fit + Zoomed)
Clamp(s) == IF s < Fit THEN Fit ELSE IF s > Fit + Zoomed THEN Fit + Zoomed ELSE s

VARIABLES
  open, swaps, \* the viewer is mounted; images shown before
  scale, off,  \* tf
  zoomed,      \* what React knows: the cursor
  gesture,     \* the ref: its mode, where it began, whether it moved
  touches,     \* fingers on the image
  tapped,      \* lastTap is less than 300 ms ago
  hidden,      \* body.style.overflow is 'hidden'
  broken       \* history: in the middle of a gesture the system took the fingers
               \* away, the image was replaced or the mouse was used

vars == <<open, swaps, scale, off, zoomed, gesture, touches, tapped, hidden, broken>>

None == [mode |-> "none", scale |-> Fit, off |-> FALSE, moved |-> FALSE]

TypeOK ==
  /\ open \in BOOLEAN /\ swaps \in 0..MaxSwaps
  /\ scale \in Scales /\ off \in BOOLEAN /\ zoomed \in BOOLEAN
  /\ gesture \in [mode : {"none", "idle", "pan", "pinch"}, scale : Scales,
                  off : BOOLEAN, moved : BOOLEAN]
  /\ touches \in 0..MaxTouches /\ tapped \in BOOLEAN /\ hidden \in BOOLEAN
  /\ broken \in BOOLEAN

Init ==
  /\ open = FALSE /\ swaps = 0 /\ scale = Fit /\ off = FALSE /\ zoomed = FALSE
  /\ gesture = None /\ touches = 0 /\ tapped = FALSE /\ hidden = FALSE /\ broken = FALSE

SetScale(s) ==
  /\ scale' = Clamp(s) /\ zoomed' = (scale' > Fit)
  /\ off' = (off /\ scale' # Fit)

-----------------------------------------------------------------------------
\* A tap on the picture of a bubble mounts the viewer.
Opens ==
  /\ ~open /\ open' = TRUE /\ hidden' = TRUE
  /\ scale' = Fit /\ off' = FALSE /\ zoomed' = FALSE
  /\ gesture' = None /\ touches' = 0 /\ tapped' = FALSE /\ broken' = FALSE
  /\ UNCHANGED swaps

\* The cross, a click beside the image, or Escape.
Closes ==
  /\ open /\ open' = FALSE /\ hidden' = FALSE
  /\ UNCHANGED <<swaps, scale, off, zoomed, gesture, touches, tapped, broken>>

\* Another src: the effect resets the transform and not the gesture.
Replaced ==
  /\ open /\ swaps < MaxSwaps /\ swaps' = swaps + 1
  /\ scale' = Fit /\ off' = FALSE /\ zoomed' = FALSE
  /\ broken' = (broken \/ gesture.mode # "none")
  /\ UNCHANGED <<open, gesture, touches, tapped, hidden>>

-----------------------------------------------------------------------------
TouchStart ==
  /\ open /\ touches < MaxTouches /\ touches' = touches + 1
  /\ gesture' = CASE touches' = 2 -> [mode |-> "pinch", scale |-> scale, off |-> off,
                                      moved |-> FALSE]
                  [] touches' = 1 -> [mode |-> IF scale > Fit THEN "pan" ELSE "idle",
                                      scale |-> scale, off |-> off, moved |-> FALSE]
                  [] OTHER -> gesture
  /\ UNCHANGED <<open, swaps, scale, off, zoomed, tapped, hidden, broken>>

\* Two fingers scale from where they began; one finger pans, or may still be a tap.
TouchMove ==
  /\ open /\ gesture.mode # "none"
  /\ \/ /\ gesture.mode = "pinch" /\ touches = 2
        /\ scale' \in Scales /\ UNCHANGED <<off, gesture>>
     \/ /\ touches = 1 /\ gesture' = [gesture EXCEPT !.moved = TRUE]
        /\ IF gesture.mode = "pan" THEN off' \in BOOLEAN ELSE UNCHANGED off
        /\ UNCHANGED scale
  /\ UNCHANGED <<open, swaps, zoomed, touches, tapped, hidden, broken>>

\* Mutant: a pinch leaves the image where it was.
PinchEndsWithoutSnap ==
  /\ gesture.mode = "pinch" /\ zoomed' = (scale > Fit) /\ UNCHANGED <<scale, off, tapped>>

\* A finger goes: the gesture is over.  A pinch snaps back to fit; a second
\* short tap toggles the zoom.
PinchEnds ==
  /\ gesture.mode = "pinch"
  /\ IF scale <= Fit THEN SetScale(Fit) ELSE zoomed' = TRUE /\ UNCHANGED <<scale, off>>
  /\ UNCHANGED tapped
Tap ==
  /\ gesture.mode \in {"idle", "pan"} /\ ~gesture.moved /\ touches = 1
  /\ tapped' = ~tapped
  /\ IF tapped THEN SetScale(IF scale > Fit THEN Fit ELSE Fit + 1)
               ELSE UNCHANGED <<scale, off, zoomed>>
NoTap == gesture.mode # "pinch" /\ UNCHANGED <<scale, off, zoomed, tapped>>
TouchEnd ==
  /\ open /\ touches > 0 /\ touches' = touches - 1 /\ gesture' = None
  /\ PinchEnds \/ Tap \/ NoTap
  /\ UNCHANGED <<open, swaps, hidden, broken>>

\* The system takes all fingers away (touchcancel): there is no handler.
TouchCancel ==
  /\ open /\ touches > 0 /\ touches' = 0 /\ broken' = TRUE
  /\ UNCHANGED <<open, swaps, scale, off, zoomed, gesture, tapped, hidden>>

\* 300 ms pass.
TapForgotten ==
  /\ tapped /\ tapped' = FALSE
  /\ UNCHANGED <<open, swaps, scale, off, zoomed, gesture, touches, hidden, broken>>

\* The wheel and the double click of a desktop.
Mouse ==
  /\ open /\ broken' = (broken \/ gesture.mode # "none")
  /\ UNCHANGED <<open, swaps, gesture, touches, tapped, hidden>>
Wheel == Mouse /\ \E by \in {-1, 1} : SetScale(scale + by)
DoubleClick == Mouse /\ SetScale(IF scale > Fit THEN Fit ELSE Fit + 1)

Next ==
  \/ Opens \/ Closes \/ Replaced \/ TouchStart \/ TouchMove \/ TouchEnd
  \/ TouchCancel \/ TapForgotten \/ Wheel \/ DoubleClick

Spec == Init /\ [][Next]_vars

-----------------------------------------------------------------------------
\* Between gestures a fitted image stands in the centre and the cursor tells
\* whether it is zoomed, unless a gesture was broken off; and the page behind
\* scrolls again when the viewer is closed.
FittedIsCentred ==
  /\ hidden = open
  /\ open /\ ~broken /\ gesture.mode = "none" =>
       (scale = Fit => ~off) /\ zoomed = (scale > Fit)
=============================================================================
