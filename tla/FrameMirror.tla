---------------------------- MODULE FrameMirror ----------------------------
(***************************************************************************)
(* What the USB HAL promises of the picture: the panel shows a whole frame *)
(* that was taken from the desktop, the last one taken when it was shown,  *)
(* or nothing anyone may rely on (before the first whole frame, and after  *)
(* a failed transfer).                                                     *)
(***************************************************************************)
CONSTANTS Frames, NoPicture

VARIABLES frame,  \* what the desktop looks like
          taken,  \* the frame the sender took last
          screen  \* what the panel shows
vars == <<frame, taken, screen>>

Init == frame \in Frames /\ taken \in Frames /\ screen = NoPicture

Draw  == frame' \in Frames /\ UNCHANGED <<taken, screen>>
Take  == taken' = frame /\ UNCHANGED <<frame, screen>>
Show  == screen' = taken /\ UNCHANGED <<frame, taken>>
Spoil == screen' = NoPicture /\ UNCHANGED <<frame, taken>>

Next == Draw \/ Take \/ Show \/ Spoil
Spec == Init /\ [][Next]_vars
=============================================================================
