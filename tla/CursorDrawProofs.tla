-------------------------- MODULE CursorDrawProofs --------------------------
(* What CursorDraw promises, for every display, cursor and framebuffer, and *)
(* CursorBox, for every side of a cursor, every image and every place.     *)
EXTENDS MCCursorDraw, FiniteSetTheorems, WellFoundedInduction, TLAPS

USE CursorAssumption

LEMMA InitIInv == Init => IInv
PROOF BY DEF Init, IInv, TypeOK, CleanDesktop, Copying, Drawn, PointerUpToDate, Settled,
             Covered, Overlay, Picture

\* Putting back what the cursor covers leaves the frame, while no copy disturbs it.
LEMMA RestoredFrame ==
    ASSUME IInv, upd \in {"idle", "posting"}, ~mixed, sender # "paint"
    PROVE  Restored = frame
PROOF BY DEF IInv, TypeOK, CleanDesktop, Restored, Overlay, Picture

LEMMA StepTypeOK == IInv /\ [Next]_vars => TypeOK'
<1> SUFFICES ASSUME IInv, [Next]_vars PROVE TypeOK'
  OBVIOUS
<1> USE DEF IInv, TypeOK
<1>1. CASE UpdateBegin
  BY <1>1 DEF UpdateBegin, cursorVars, askVars, Picture
<1>2. CASE Copy
  BY <1>2 DEF Copy, cursorVars, askVars, Picture
<1>3. CASE Invalidate
  BY <1>3 DEF Invalidate, cursorVars, askVars
<1>4. CASE Post
  BY <1>4 DEF Post, cursorVars
<1>5. CASE \E p \in Positions : CursorMove(p)
  BY <1>5 DEF CursorMove, frameVars
<1>6. CASE CursorShow \/ CursorHide \/ CursorPost
  BY ZenonT(30), <1>6 DEF CursorShow, CursorHide, CursorPost, frameVars, askVars
<1>7. CASE TakeEvent \/ TakeMouse \/ Refresh
  BY <1>7 DEF TakeEvent, TakeMouse, Refresh, frameVars, cursorVars, askVars
<1>8. CASE Restore
  BY <1>8 DEF Restore, Restored, Mixing, cursorVars, askVars
<1>9. CASE Paint
  BY <1>9 DEF Paint, Covered, Overlay, Mixing, cursorVars, askVars
<1>10. CASE Capture
  BY <1>10 DEF Capture, frameVars, cursorVars, askVars
<1>11. CASE UNCHANGED vars
  BY <1>11 DEF vars, frameVars, cursorVars, askVars
<1> QED
  BY <1>1, <1>2, <1>3, <1>4, <1>5, <1>6, <1>7, <1>8, <1>9, <1>10, <1>11
  DEF Next, UpdateEnd, Cursor, Sender, Draw

\* A frame copied undisturbed is all there; the cursor goes on and off it whole.
LEMMA StepPicture == IInv /\ [Next]_vars => (CleanDesktop /\ Copying)'
<1> SUFFICES ASSUME IInv, [Next]_vars PROVE (CleanDesktop /\ Copying)'
  OBVIOUS
<1> USE DEF IInv, CleanDesktop, Copying
<1>1. CASE UpdateBegin
  BY <1>1 DEF UpdateBegin
<1>2. CASE Copy
  <2>1. ASSUME ~mixed
        PROVE  \A c \in Cells \ todo' : desktop'[c] = frame'[c]
    BY <1>2, <2>1 DEF Copy, TypeOK
  <2>2. ASSUME ~mixed, todo' = {}
        PROVE  desktop' = frame'
    BY <1>2, <2>1, <2>2 DEF Copy, TypeOK, Picture
  <2> QED
    BY <1>2, <2>1, <2>2 DEF Copy, cursorVars, askVars
<1>3. CASE Invalidate
  BY <1>3 DEF Invalidate, Overlay, TypeOK, Picture
<1>4. CASE Post
  BY <1>4 DEF Post, Overlay
<1>5. CASE \E p \in Positions : CursorMove(p)
  BY <1>5 DEF CursorMove, frameVars, Overlay
<1>6. CASE CursorShow \/ CursorHide \/ CursorPost
  BY <1>6 DEF CursorShow, CursorHide, CursorPost, frameVars, askVars, Overlay
<1>7. CASE TakeEvent \/ TakeMouse \/ Refresh
  BY <1>7 DEF TakeEvent, TakeMouse, Refresh, frameVars, cursorVars, askVars, Overlay
<1>8. CASE Restore
  <2>1. ASSUME upd \in {"idle", "posting"}, ~mixed
        PROVE  desktop' = frame
    BY <1>8, <2>1, RestoredFrame DEF Restore
  <2>2. frame = [c \in Cells |-> frame[c]]
    BY DEF TypeOK, Picture
  <2> QED
    BY <1>8, <2>1, <2>2 DEF Restore, Mixing, Overlay, TypeOK
<1>9. CASE Paint
  <2>1. ASSUME upd \in {"idle", "posting"}, ~mixed
        PROVE  desktop = frame
    BY <1>9, <2>1 DEF Paint, Overlay, TypeOK, Picture
  <2>2. DOMAIN under' = Covered /\ Covered \subseteq Cells
    BY <1>9 DEF Paint, Covered, TypeOK
  <2> QED
    BY <1>9, <2>1, <2>2 DEF Paint, Mixing, Overlay, TypeOK
<1>10. CASE Capture
  BY <1>10 DEF Capture, frameVars, Overlay
<1>11. CASE UNCHANGED vars
  BY <1>11 DEF vars, frameVars, Overlay
<1> QED
  BY <1>1, <1>2, <1>3, <1>4, <1>5, <1>6, <1>7, <1>8, <1>9, <1>10, <1>11
  DEF Next, UpdateEnd, Cursor, Sender, Draw

\* What is drawn is what is asked for, unless a reason to draw is left.
LEMMA StepPointer == IInv /\ [Next]_vars => (Drawn /\ PointerUpToDate)'
<1> SUFFICES ASSUME IInv, [Next]_vars PROVE (Drawn /\ PointerUpToDate)'
  OBVIOUS
<1> USE DEF IInv, Drawn, PointerUpToDate, Settled, Covered, Overlay
<1>1. CASE UpdateBegin
  BY <1>1 DEF UpdateBegin
<1>2. CASE Copy
  BY <1>2 DEF Copy
<1>3. CASE Invalidate
  BY <1>3 DEF Invalidate
<1>4. CASE Post
  BY <1>4 DEF Post
<1>5. CASE \E p \in Positions : CursorMove(p)
  BY <1>5 DEF CursorMove
<1>6. CASE CursorShow \/ CursorHide
  BY <1>6 DEF CursorShow, CursorHide
<1>7. CASE CursorPost
  BY <1>7 DEF CursorPost
<1>8. CASE TakeEvent \/ TakeMouse \/ Refresh
  BY <1>8 DEF TakeEvent, TakeMouse, Refresh
<1>9. CASE Restore
  BY <1>9 DEF Restore
<1>10. CASE Paint
  BY <1>10 DEF Paint, cursorVars
<1>11. CASE Capture
  <2>1. ASSUME Settled, ~hidden
        PROVE  panel' = Overlay(frame, Covered)
    BY <1>11, <2>1 DEF Capture, CleanDesktop
  <2> QED
    BY <1>11, <2>1 DEF Capture, frameVars, cursorVars, askVars
<1>12. CASE UNCHANGED vars
  BY <1>12 DEF vars, frameVars, cursorVars, askVars
<1> QED
  BY <1>1, <1>2, <1>3, <1>4, <1>5, <1>6, <1>7, <1>8, <1>9, <1>10, <1>11, <1>12
  DEF Next, UpdateEnd, Cursor, Sender, Draw

\* The inductive invariant holds always.
THEOREM Invariance == Spec => []IInv
<1>1. IInv /\ [Next]_vars => IInv'
  BY StepTypeOK, StepPicture, StepPointer DEF IInv
<1> QED
  BY InitIInv, <1>1, PTL DEF Spec

\* The variables keep their types, and nothing is left to copy when update_frame
\* releases usb_buf.mutex.
THEOREM TypeCorrect == Spec => []TypeOK
PROOF BY Invariance, PTL DEF IInv

\* Unless the sender drew into a half-copied frame, desktop_buf is the last frame
\* with at most one cursor on it, and old_cursor_buf is what that one covers.
THEOREM DesktopIsClean == Spec => []CleanDesktop
PROOF BY Invariance, PTL DEF IInv

\* No move and no new shape is forgotten by the sender.
THEOREM PointerIsUpToDate == Spec => []PointerUpToDate
PROOF BY Invariance, PTL DEF IInv

\* What goes out is one frame with the cursor on it, never parts of two.
THEOREM WholeFrames == Spec => SendsWholeFrames
<1> DEFINE OneFrame == sender = "capture" /\ sender' # "capture" /\ ~mixed
                          => \A c \in Cells : panel'[c] \in {frame[c], Pointer}
<1>1. IInv /\ [Next]_vars => [OneFrame]_vars
  <2> SUFFICES ASSUME IInv, Next, sender = "capture", sender' # "capture", ~mixed
               PROVE  \A c \in Cells : panel'[c] \in {frame[c], Pointer}
    OBVIOUS
  <2>1. Capture
    BY DEF Next, UpdateBegin, UpdateEnd, Copy, Invalidate, Post, Cursor, CursorMove, CursorShow,
           CursorHide, CursorPost, Sender, TakeEvent, TakeMouse, Refresh, Draw, Restore, Paint
  <2>2. upd \in {"idle", "copied", "posting"}
    BY <2>1 DEF Capture, IInv, TypeOK
  <2> QED
    BY <2>1, <2>2 DEF Capture, IInv, CleanDesktop, Copying, Overlay
<1> QED
  BY Invariance, <1>1, PTL DEF Spec, SendsWholeFrames

-----------------------------------------------------------------------------
(* The shape of the cursor (CursorBox).                                    *)

USE CursorBoxAssumption

\* A pixel's number, row and column.
LEMMA RowAndColumn ==
    ASSUME NEW k \in Int
    PROVE  /\ Row(k) \in Int /\ Column(k) \in 0..(Side - 1)
           /\ k = (Row(k) * Side) + Column(k)
BY DEF Row, Column

LEMMA NextRow ==
    ASSUME NEW a \in Int, NEW b \in Int
    PROVE  /\ a * Side \in Int
           /\ a < b => (a * Side) + Side <= b * Side
           /\ a <= b => a * Side <= b * Side
OBVIOUS

LEMMA NumberOf ==
    ASSUME NEW a \in Int, NEW b \in 0..(Side - 1)
    PROVE  Row((a * Side) + b) = a /\ Column((a * Side) + b) = b
<1> DEFINE k == (a * Side) + b
<1>1. k \in Int
  OBVIOUS
<1>2. k = (a * Side) + b
  OBVIOUS
<1> HIDE DEF k
<1>3. Row(k) \in Int /\ Column(k) \in 0..(Side - 1) /\ k = (Row(k) * Side) + Column(k)
  BY <1>1, RowAndColumn
<1> HIDE DEF Row, Column
<1>4. ~(Row(k) < a)
  <2> SUFFICES ASSUME Row(k) < a PROVE FALSE
    OBVIOUS
  <2>1. (Row(k) * Side) + Side <= a * Side
    BY <1>3, NextRow
  <2> QED
    BY <2>1, <1>2, <1>3, NextRow
<1>5. ~(a < Row(k))
  <2> SUFFICES ASSUME a < Row(k) PROVE FALSE
    OBVIOUS
  <2>1. (a * Side) + Side <= Row(k) * Side
    BY <1>3, NextRow
  <2> QED
    BY <2>1, <1>2, <1>3, NextRow
<1>6. Row(k) = a
  BY <1>3, <1>4, <1>5
<1>7. Column(k) = b
  <2> DEFINE start == a * Side
  <2>1. k = start + Column(k) /\ k = start + b /\ start \in Int
    BY <1>2, <1>3, <1>6, NextRow
  <2> HIDE DEF start
  <2> QED
    BY <2>1, <1>3
<1> QED
  BY <1>6, <1>7 DEF k

LEMMA InNumbers ==
    ASSUME NEW a \in Edges, NEW b \in Edges
    PROVE  (a * Side) + b \in Numbers
<1>1. (a * Side) + Side <= Side * Side /\ a * Side >= 0 /\ a * Side \in Int
  BY DEF Edges
<1> QED
  BY <1>1 DEF Edges, Numbers

LEMMA EdgesOf ==
    ASSUME NEW k \in Numbers
    PROVE  Row(k) \in Edges /\ Column(k) \in Edges /\ k = (Row(k) * Side) + Column(k)
<1>1. Row(k) \in Int /\ Column(k) \in 0..(Side - 1) /\ k = (Row(k) * Side) + Column(k)
  BY RowAndColumn DEF Numbers
<1>2. Row(k) >= 0
  <2> SUFFICES ASSUME Row(k) < 0 PROVE FALSE
    BY <1>1
  <2>1. (Row(k) * Side) + Side <= 0
    BY <1>1
  <2> QED
    BY <1>1, <2>1 DEF Numbers
<1>3. Row(k) < Side
  <2> SUFFICES ASSUME Row(k) >= Side PROVE FALSE
    BY <1>1
  <2>1. Row(k) * Side >= Side * Side
    BY <1>1
  <2> QED
    BY <1>1, <2>1 DEF Numbers
<1> QED
  BY <1>1, <1>2, <1>3 DEF Edges

\* The first and the last of some edges are among them and bound the others.
LEMMA FirstEdge ==
    ASSUME NEW S, S \subseteq Nat, S # {}
    PROVE  Min(S) \in S /\ \A y \in S : Min(S) <= y
<1> DEFINE Less == {xy \in Nat \X Nat : xy[1] < xy[2]}
<1>1. IsWellFoundedOn(Less, Nat)
  BY NatLessThanWellFounded DEF OpToRel
<1> HIDE DEF Less
<1>2. PICK x \in S : \A y \in S : <<y, x>> \notin Less
  BY <1>1, WFMin
<1>3. ASSUME NEW y \in S PROVE x <= y
  <2>1. <<y, x>> \in Nat \X Nat /\ <<y, x>>[1] = y /\ <<y, x>>[2] = x
    OBVIOUS
  <2> QED
    BY <1>2, <2>1 DEF Less
<1> QED
  BY <1>3 DEF Min

LEMMA LastEdge ==
    ASSUME NEW n \in Nat, NEW S, S \subseteq 0..n, S # {}
    PROVE  Max(S) \in S /\ \A y \in S : Max(S) >= y
<1> DEFINE T == {n - x : x \in S}
<1>0. \A x \in S : x \in Int /\ 0 <= x /\ x <= n
  OBVIOUS
<1>1. T \subseteq Nat /\ T # {}
  <2>1. \A x \in S : n - x \in Nat
    BY <1>0
  <2> QED
    BY <2>1
<1>2. Min(T) \in T /\ \A y \in T : Min(T) <= y
  <2> HIDE DEF T
  <2> QED
    BY <1>1, FirstEdge
<1>3. PICK x \in S : Min(T) = n - x
  BY <1>2
<1>4. ASSUME NEW y \in S PROVE x >= y
  <2>1. n - y \in T
    OBVIOUS
  <2>2. n - x <= n - y
    BY <1>2, <1>3, <2>1
  <2> QED
    BY <1>0, <2>2
<1> QED
  BY <1>4 DEF Max

\* The box: every visible pixel is inside it, and it begins at an edge.
LEMMA AcrossImage ==
    ASSUME NEW img \in Images
    PROVE  LET b == Across(img)
           IN /\ b.x1 \in Edges /\ b.x2 \in Int /\ b.x1 < b.x2
              /\ \A k \in img : b.x1 <= Column(k) /\ Column(k) < b.x2
              /\ Margin(img) => b.x2 <= Side
<1> DEFINE some == {x \in Edges : Seen(img, ColumnPixels(x))}
<1>1. Across(img) = [x1 |-> IF some = {} THEN 0 ELSE Min(some),
                     x2 |-> IF some = {} THEN Side ELSE Max(some) + 2]
  BY DEF Across
<1>2. some \subseteq 0..(Side - 1) /\ some \subseteq Nat /\ Side - 1 \in Nat
  BY DEF Edges
<1>3. ASSUME NEW k \in img PROVE Column(k) \in some
  <2>1. Row(k) \in Edges /\ Column(k) \in Edges /\ k = (Row(k) * Side) + Column(k)
    BY EdgesOf DEF Images
  <2>2. k = Column(k) + Row(k) * Side
    BY <2>1 DEF Edges
  <2>3. k \in ColumnPixels(Column(k))
    BY <2>1, <2>2 DEF ColumnPixels, Line, Edges
  <2> QED
    BY <2>1, <2>3 DEF Seen
<1>4. ASSUME Margin(img), NEW x \in some PROVE x < Side - 1
  <2>1. PICK i \in 0..(Side - 1) : x + i * Side \in img
    BY DEF Seen, ColumnPixels, Line
  <2>2. Column((i * Side) + x) = x
    <3>1. i \in Int /\ x \in 0..(Side - 1)
      BY <1>2
    <3> QED
      BY <3>1, NumberOf
  <2>3. x + i * Side = (i * Side) + x
    BY <1>2
  <2> QED
    BY <1>4, <2>1, <2>2, <2>3 DEF Margin
<1> HIDE DEF some
<1>5. CASE some = {}
  BY <1>1, <1>3, <1>5 DEF Edges
<1>6. CASE some # {}
  <2>1. Min(some) \in some /\ \A y \in some : Min(some) <= y
    BY <1>2, <1>6, FirstEdge
  <2>2. Max(some) \in some /\ \A y \in some : Max(some) >= y
    BY <1>2, <1>6, LastEdge
  <2> DEFINE mn == Min(some)
             mx == Max(some)
  <2>3. Across(img).x1 = mn /\ Across(img).x2 = mx + 2
    BY <1>1, <1>6
  <2>4. mn \in 0..(Side - 1) /\ mx \in 0..(Side - 1) /\ mn <= mx
    BY <1>2, <2>1, <2>2
  <2>5. \A k \in img : mn <= Column(k) /\ Column(k) <= mx /\ Column(k) \in Int
    <3>1. \A y \in some : y \in Int
      BY <1>2
    <3> QED
      BY <1>3, <2>1, <2>2, <3>1
  <2>6. Margin(img) => mx < Side - 1
    BY <1>4, <2>2
  <2> HIDE DEF mn, mx
  <2> QED
    BY <2>3, <2>4, <2>5, <2>6 DEF Edges
<1> QED
  BY <1>5, <1>6

LEMMA BoxOf ==
    ASSUME NEW img \in Images
    PROVE  LET b == Box(img)
           IN /\ b.x1 \in Edges /\ b.x2 \in Int /\ b.x1 < b.x2
              /\ b.y1 \in Edges /\ b.y2 \in Int /\ b.y1 < b.y2
              /\ \A k \in img : /\ b.x1 <= Column(k) /\ Column(k) < b.x2
                                /\ b.y1 <= Row(k) /\ Row(k) < b.y2
              /\ Margin(img) => b.x2 <= Side /\ b.y2 <= Side
<1> DEFINE a == Across(img)
           some == {y \in Edges : Seen(img, RowPixels(a, y))}
<1>1. Box(img) = [x1 |-> a.x1, x2 |-> a.x2, y1 |-> IF some = {} THEN 0 ELSE Min(some),
                  y2 |-> IF some = {} THEN Side ELSE Max(some) + 2]
  BY DEF Box
<1>2. /\ a.x1 \in Edges /\ a.x2 \in Int /\ a.x1 < a.x2
      /\ \A k \in img : a.x1 <= Column(k) /\ Column(k) < a.x2
      /\ Margin(img) => a.x2 <= Side
  BY AcrossImage
<1> HIDE DEF a
<1>3. some \subseteq 0..(Side - 1) /\ some \subseteq Nat /\ Side - 1 \in Nat
  BY DEF Edges
<1>4. ASSUME NEW k \in img PROVE Row(k) \in some
  <2>1. Row(k) \in Edges /\ Column(k) \in Edges /\ k = (Row(k) * Side) + Column(k)
    BY EdgesOf DEF Images
  <2> DEFINE start == Row(k) * Side
             i == Column(k) - a.x1
  <2>2. start \in Int
    BY <2>1, NextRow DEF Edges
  <2>3. i \in 0..(a.x2 - a.x1 - 1) /\ k = (start + a.x1) + i
    <3>1. k = start + Column(k)
      BY <2>1
    <3> HIDE DEF start
    <3> QED
      BY <1>2, <2>1, <2>2, <3>1 DEF Edges
  <2>4. (start + a.x1) + i * 1 = (start + a.x1) + i
    BY <1>2, <2>3
  <2>5. k \in RowPixels(a, Row(k))
    BY <2>3, <2>4 DEF RowPixels, Line
  <2> QED
    BY <2>1, <2>5 DEF Seen
<1>5. ASSUME Margin(img), NEW y \in some PROVE y < Side - 1
  <2>1. PICK i \in 0..((a.x2 - a.x1) - 1) : ((y * Side) + a.x1) + i * 1 \in img
    BY DEF Seen, RowPixels, Line
  <2> DEFINE b == a.x1 + i
             start == y * Side
  <2>2. b \in 0..(Side - 1) /\ y \in Int
    BY <1>2, <1>3, <1>5, <2>1 DEF Edges
  <2>3. start \in Int
    BY <2>2, NextRow
  <2>4. (start + a.x1) + i * 1 = start + b
    <3> HIDE DEF start
    <3> QED
      BY <1>2, <2>1, <2>3 DEF Edges
  <2>5. start + b \in img
    BY <2>1, <2>4
  <2> HIDE DEF b
  <2>6. Row(start + b) = y
    BY <2>2, NumberOf
  <2> HIDE DEF start
  <2> QED
    BY <1>5, <2>5, <2>6 DEF Margin
<1> HIDE DEF some
<1>6. CASE some = {}
  BY <1>1, <1>2, <1>3, <1>4, <1>6 DEF Edges
<1>7. CASE some # {}
  <2>1. Min(some) \in some /\ \A y \in some : Min(some) <= y
    BY <1>3, <1>7, FirstEdge
  <2>2. Max(some) \in some /\ \A y \in some : Max(some) >= y
    BY <1>3, <1>7, LastEdge
  <2> DEFINE mn == Min(some)
             mx == Max(some)
  <2>3. Box(img).x1 = a.x1 /\ Box(img).x2 = a.x2 /\ Box(img).y1 = mn /\ Box(img).y2 = mx + 2
    BY <1>1, <1>7
  <2>4. mn \in 0..(Side - 1) /\ mx \in 0..(Side - 1) /\ mn <= mx
    BY <1>3, <2>1, <2>2
  <2>5. \A k \in img : mn <= Row(k) /\ Row(k) <= mx /\ Row(k) \in Int
    <3>1. \A y \in some : y \in Int
      BY <1>3
    <3> QED
      BY <1>4, <2>1, <2>2, <3>1
  <2>6. Margin(img) => mx < Side - 1
    BY <1>5, <2>2
  <2> HIDE DEF mn, mx
  <2> QED
    BY <1>2, <2>3, <2>4, <2>5, <2>6 DEF Edges
<1> QED
  BY <1>6, <1>7

\* A cell that is drawn or saved, and the pixel looked at for it.
LEMMA SavedCell ==
    ASSUME NEW img \in Images, NEW display \in Displays, NEW x \in Places, NEW y \in Places
    PROVE  \A c : c \in Saved(img, x, y, display) <=>
             /\ c \in ((0..(display[1] - 1)) \X (0..(display[2] - 1)))
             /\ c[1] - x >= Box(img).x1 /\ c[1] - x < Box(img).x2
             /\ c[2] - y >= Box(img).y1 /\ c[2] - y < Box(img).y2
<1> DEFINE b == Box(img)
<1>1. b.x1 \in Int /\ b.x2 \in Int /\ b.y1 \in Int /\ b.y2 \in Int
  BY BoxOf DEF Edges
<1>2. x \in Int /\ y \in Int /\ display[1] \in Nat /\ display[2] \in Nat
  OBVIOUS
<1> HIDE DEF b
<1>3. Saved(img, x, y, display) =
        (From(0, x + b.x1)..(Upto(display[1], x + b.x2) - 1))
          \X (From(0, y + b.y1)..(Upto(display[2], y + b.y2) - 1))
  BY DEF Saved, Clipped, CellsOf, b
<1>4. ASSUME NEW u \in Int, NEW n \in Nat, NEW p \in Int, NEW e1 \in Int, NEW e2 \in Int
      PROVE  u \in From(0, p + e1)..(Upto(n, p + e2) - 1)
               <=> u \in 0..(n - 1) /\ u - p >= e1 /\ u - p < e2
  BY DEF From, Upto
<1>5. /\ \A u \in Int : u \in From(0, x + b.x1)..(Upto(display[1], x + b.x2) - 1)
                          <=> u \in 0..(display[1] - 1) /\ u - x >= b.x1 /\ u - x < b.x2
      /\ \A v \in Int : v \in From(0, y + b.y1)..(Upto(display[2], y + b.y2) - 1)
                          <=> v \in 0..(display[2] - 1) /\ v - y >= b.y1 /\ v - y < b.y2
  BY <1>1, <1>2, <1>4
<1>6. From(0, x + b.x1) \in Int /\ Upto(display[1], x + b.x2) \in Int
      /\ From(0, y + b.y1) \in Int /\ Upto(display[2], y + b.y2) \in Int
  BY <1>1, <1>2 DEF From, Upto
<1> QED
  BY <1>2, <1>3, <1>5, <1>6 DEF b

\* The cell a pixel belongs to, with the cursor at x, y.
LEMMA CellOfPixel ==
    ASSUME NEW k \in Numbers, NEW x \in Places, NEW y \in Places
    PROVE  LET c == <<x + Column(k), y + Row(k)>>
           IN c[1] - x = Column(k) /\ c[2] - y = Row(k) /\ PixelFor(c, x, y) = k
<1>1. Row(k) \in Int /\ Column(k) \in Int /\ k = (Row(k) * Side) + Column(k)
  BY EdgesOf DEF Edges
<1>2. x \in Int /\ y \in Int
  OBVIOUS
<1> DEFINE c == <<x + Column(k), y + Row(k)>>
<1>3. c[1] = x + Column(k) /\ c[2] - y = Row(k) /\ c[1] - x = Column(k)
  BY <1>1, <1>2
<1>4. PixelFor(c, x, y) = (Row(k) * Side) + (c[1] - x)
  <2>1. PixelFor(c, x, y) = ((c[2] - y) * Side) + (c[1] - x)
    BY DEF PixelFor
  <2> HIDE DEF c
  <2> QED
    BY <1>3, <2>1, Zenon
<1> DEFINE start == Row(k) * Side
<1>5. start \in Int
  BY <1>1, NextRow
<1> HIDE DEF start
<1>6. k = start + Column(k) /\ PixelFor(c, x, y) = start + (c[1] - x)
  BY <1>1, <1>4 DEF start
<1> HIDE DEF c
<1>7. PixelFor(c, x, y) = k
  BY <1>1, <1>2, <1>3, <1>5, <1>6
<1> QED
  BY <1>3, <1>7 DEF c

\* All visible pixels that are on the display are drawn, at their places.
LEMMA AllDrawn == \A img \in Images : Whole(img)
<1> SUFFICES ASSUME NEW img \in Images, NEW display \in Displays, NEW x \in Places, NEW y \in Places,
                    NEW c \in Shape(img, x, y, display)
             PROVE  c \in Changed(img, x, y, display)
  BY DEF Whole
<1>1. PICK k \in img : c = <<x + Column(k), y + Row(k)>>
  BY DEF Shape
<1>2. k \in Numbers
  BY DEF Images
<1>3. c[1] - x = Column(k) /\ c[2] - y = Row(k) /\ PixelFor(c, x, y) = k
  BY <1>1, <1>2, CellOfPixel
<1>4. Column(k) \in Int /\ Row(k) \in Int
  BY <1>2, EdgesOf DEF Edges
<1>5. c \in Saved(img, x, y, display)
  <2>1. /\ Box(img).x1 <= Column(k) /\ Column(k) < Box(img).x2
        /\ Box(img).y1 <= Row(k) /\ Row(k) < Box(img).y2
        /\ Box(img).x1 \in Int /\ Box(img).y1 \in Int
    BY BoxOf DEF Edges
  <2>2. c \in (0..(display[1] - 1)) \X (0..(display[2] - 1))
    BY DEF Shape
  <2>3. c[1] - x >= Box(img).x1 /\ c[2] - y >= Box(img).y1
    BY <1>3, <1>4, <2>1
  <2> QED
    BY <1>3, <2>1, <2>2, <2>3, SavedCell
<1> QED
  BY <1>3, <1>5 DEF Changed

\* With the last column and the last row free, what is looked at is in the image.
LEMMA SavedOfSquare ==
    ASSUME NEW img \in Images, Margin(img), NEW display \in Displays,
           NEW x \in Places, NEW y \in Places, NEW c \in Saved(img, x, y, display)
    PROVE  /\ c[1] - x \in Edges /\ c[2] - y \in Edges
           /\ c = <<x + (c[1] - x), y + (c[2] - y)>>
           /\ PixelFor(c, x, y) \in Numbers
           /\ Column(PixelFor(c, x, y)) = c[1] - x /\ Row(PixelFor(c, x, y)) = c[2] - y
<1> DEFINE a == c[2] - y
           b == c[1] - x
<1>1. /\ c \in ((0..(display[1] - 1)) \X (0..(display[2] - 1)))
      /\ b >= Box(img).x1 /\ b < Box(img).x2
      /\ a >= Box(img).y1 /\ a < Box(img).y2
  BY SavedCell
<1>2. /\ Box(img).x1 \in Edges /\ Box(img).y1 \in Edges
      /\ Box(img).x2 \in Int /\ Box(img).y2 \in Int
      /\ Box(img).x2 <= Side /\ Box(img).y2 <= Side
  BY BoxOf
<1>3. x \in Int /\ y \in Int /\ c[1] \in Int /\ c[2] \in Int /\ c = <<c[1], c[2]>>
  <2>1. display[1] \in Nat /\ display[2] \in Nat
    OBVIOUS
  <2> QED
    BY <1>1, <2>1
<1>4. a \in Int /\ b \in Int /\ c[1] = x + b /\ c[2] = y + a
  BY <1>3
<1>5. PixelFor(c, x, y) = (a * Side) + b
  BY DEF PixelFor
<1> HIDE DEF a, b
<1>6. a \in Edges /\ b \in Edges
  BY <1>1, <1>2, <1>4 DEF Edges
<1>7. Row((a * Side) + b) = a /\ Column((a * Side) + b) = b /\ (a * Side) + b \in Numbers
  BY <1>4, <1>6, NumberOf, InNumbers DEF Edges
<1>8. c = <<x + b, y + a>>
  BY <1>3, <1>4
<1> QED
  BY <1>5, <1>6, <1>7, <1>8 DEF a, b

LEMMA SquareOfCells ==
    ASSUME NEW w \in Nat, NEW h \in Nat, w <= Side, h <= Side
    PROVE  w * h <= Side * Side
<1>1. w * h <= w * Side
  OBVIOUS
<1>2. w * Side <= Side * Side
  BY NextRow
<1>3. w * h \in Int /\ w * Side \in Int /\ Side * Side \in Int
  OBVIOUS
<1> QED
  BY <1>1, <1>2, <1>3

\* Then what is saved fits old_cursor_buf.
LEMMA SavedFits ==
    ASSUME NEW img \in Images, Margin(img), NEW display \in Displays,
           NEW x \in Places, NEW y \in Places
    PROVE  Cardinality(Saved(img, x, y, display)) <= Side * Side
<1> DEFINE b == Box(img)
           S == (x + b.x1)..(x + b.x2 - 1)
           T == (y + b.y1)..(y + b.y2 - 1)
<1>1. /\ b.x1 \in Edges /\ b.x2 \in Int /\ b.x1 < b.x2 /\ b.x2 <= Side
      /\ b.y1 \in Edges /\ b.y2 \in Int /\ b.y1 < b.y2 /\ b.y2 <= Side
  BY BoxOf
<1>2. x \in Int /\ y \in Int
  OBVIOUS
<1>3. Saved(img, x, y, display) \subseteq S \X T
  <2> SUFFICES ASSUME NEW c \in Saved(img, x, y, display) PROVE c \in S \X T
    OBVIOUS
  <2>1. /\ c \in ((0..(display[1] - 1)) \X (0..(display[2] - 1)))
        /\ c[1] - x >= b.x1 /\ c[1] - x < b.x2
        /\ c[2] - y >= b.y1 /\ c[2] - y < b.y2
    BY SavedCell
  <2> HIDE DEF b
  <2>2. c[1] \in Int /\ c[2] \in Int /\ c = <<c[1], c[2]>>
    <3>1. display[1] \in Nat /\ display[2] \in Nat
      OBVIOUS
    <3> QED
      BY <2>1, <3>1
  <2>3. c[1] \in S /\ c[2] \in T
    BY <1>1, <1>2, <2>1, <2>2 DEF Edges
  <2> QED
    BY <2>2, <2>3
<1> HIDE DEF b
<1>4. x + b.x1 \in Int /\ x + b.x2 - 1 \in Int /\ y + b.y1 \in Int /\ y + b.y2 - 1 \in Int
  BY <1>1, <1>2 DEF Edges
<1>5. IsFiniteSet(S) /\ Cardinality(S) = b.x2 - b.x1
  <2>1. IsFiniteSet(S) /\ Cardinality(S) = IF x + b.x1 > x + b.x2 - 1 THEN 0
                                           ELSE (x + b.x2 - 1) - (x + b.x1) + 1
    BY <1>4, FS_Interval
  <2> QED
    BY SMTT(30), <1>1, <1>2, <2>1 DEF Edges
<1>6. IsFiniteSet(T) /\ Cardinality(T) = b.y2 - b.y1
  <2>1. IsFiniteSet(T) /\ Cardinality(T) = IF y + b.y1 > y + b.y2 - 1 THEN 0
                                           ELSE (y + b.y2 - 1) - (y + b.y1) + 1
    BY <1>4, FS_Interval
  <2> QED
    BY SMTT(30), <1>1, <1>2, <2>1 DEF Edges
<1> HIDE DEF S, T
<1>7. IsFiniteSet(S \X T) /\ Cardinality(S \X T) = (b.x2 - b.x1) * (b.y2 - b.y1)
  BY <1>5, <1>6, FS_Product
<1> DEFINE w == b.x2 - b.x1
           h == b.y2 - b.y1
<1>8. w \in Nat /\ h \in Nat /\ w <= Side /\ h <= Side
  BY <1>1 DEF Edges
<1>9. IsFiniteSet(Saved(img, x, y, display))
      /\ Cardinality(Saved(img, x, y, display)) <= Cardinality(S \X T)
  BY <1>3, <1>7, FS_Subset
<1>10. Cardinality(Saved(img, x, y, display)) \in Nat
  BY <1>9, FS_CardinalityType
<1>11. Cardinality(S \X T) = w * h
  BY <1>7
<1> HIDE DEF w, h
<1>12. w * h <= Side * Side /\ w * h \in Int /\ Side * Side \in Int
  BY <1>8, SquareOfCells
<1> QED
  BY <1>9, <1>10, <1>11, <1>12

\* An image with its last column and row free is drawn exactly.
LEMMA DrawnExactly == \A img \in Images : Margin(img) => Exact(img) /\ RowsInside(img)
<1> SUFFICES ASSUME NEW img \in Images, Margin(img) PROVE Exact(img) /\ RowsInside(img)
  OBVIOUS
<1>1. ASSUME NEW display \in Displays, NEW x \in Places, NEW y \in Places
      PROVE  Changed(img, x, y, display) \subseteq Shape(img, x, y, display)
  <2> SUFFICES ASSUME NEW c \in Changed(img, x, y, display)
               PROVE  c \in Shape(img, x, y, display)
    OBVIOUS
  <2>1. c \in Saved(img, x, y, display) /\ PixelFor(c, x, y) \in img
    BY DEF Changed
  <2>2. c = <<x + Column(PixelFor(c, x, y)), y + Row(PixelFor(c, x, y))>>
    BY <2>1, SavedOfSquare
  <2>3. c \in ((0..(display[1] - 1)) \X (0..(display[2] - 1)))
    BY <2>1, SavedCell
  <2> QED
    BY <2>1, <2>2, <2>3 DEF Shape
<1>2. ASSUME NEW display \in Displays, NEW x \in Places, NEW y \in Places
      PROVE  Shape(img, x, y, display) \subseteq Changed(img, x, y, display)
  BY AllDrawn DEF Whole
<1>3. ASSUME NEW display \in Displays, NEW x \in Places, NEW y \in Places
      PROVE  PixelsRead(img, x, y, display) \subseteq Numbers
  BY SavedOfSquare DEF PixelsRead
<1>4. Exact(img)
  BY <1>1, <1>2, <1>3, SavedFits DEF Exact
<1>5. ASSUME NEW row \in Edges, NEW k \in RowPixels(Across(img), row)
      PROVE  k \in Numbers
  <2> DEFINE a == Across(img)
             start == row * Side
  <2>1. a.x1 \in Edges /\ a.x2 \in Int /\ a.x2 <= Side
    BY AcrossImage
  <2> HIDE DEF a
  <2>2. PICK i \in 0..((a.x2 - a.x1) - 1) : k = (start + a.x1) + i * 1
    BY DEF RowPixels, Line, a
  <2>3. start \in Int
    BY NextRow DEF Edges
  <2> HIDE DEF start
  <2>4. a.x1 + i \in Edges /\ k = start + (a.x1 + i)
    BY <2>1, <2>2, <2>3 DEF Edges
  <2> QED
    BY <2>4, InNumbers DEF start
<1>6. RowsInside(img)
  BY <1>5 DEF RowsInside
<1> QED
  BY <1>4, <1>6

\* The cursor that is shown is drawn whole, and, with its last column and row free,
\* exactly, out of the image and into a buffer of its size: for a cursor of any side,
\* any image, display and place.
THEOREM CursorIsDrawn == Spec => []CursorDrawn
<1>1. CursorDrawn
  BY AllDrawn, DrawnExactly DEF CursorDrawn, WholeShapes, MarginShapes
<1> QED
  BY <1>1, PTL
=============================================================================
