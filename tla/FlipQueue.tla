----------------------------- MODULE FlipQueue -----------------------------
(***************************************************************************)
(* What a CRTC promises to those who wait for its page flips: each commit  *)
(* is answered once and in order, up to the removal of the device; what is *)
(* answered after it is still in order and answered once.                  *)
(***************************************************************************)
EXTENDS Naturals

VARIABLES asked,    \* number of the last commit
          answered, \* number of the last commit answered
          answers,  \* how many answers were given
          gone      \* the device is being removed
vars == <<asked, answered, answers, gone>>

Init == asked = 0 /\ answered = 0 /\ answers = 0 /\ gone = FALSE

Ask == asked' = asked + 1 /\ UNCHANGED <<answered, answers, gone>>

Answer ==
    /\ answered' \in answered + 1..asked
    /\ gone \/ answered' = answered + 1
    /\ answers' = answers + 1
    /\ UNCHANGED <<asked, gone>>

Leave == gone' = TRUE /\ UNCHANGED <<asked, answered, answers>>

Next == Ask \/ Answer \/ Leave
Spec == Init /\ [][Next]_vars
=============================================================================
