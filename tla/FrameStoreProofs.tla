-------------------------- MODULE FrameStoreProofs --------------------------
(* Proofs about FrameStore, for every height, every set of pixels and every *)
(* number of failing transfers, and about ScreenBlocks, for every size of  *)
(* a picture, every change and any table of modes up to 1920x1080.         *)
EXTENDS MCFrameStore, WellFoundedInduction, TLAPS

-----------------------------------------------------------------------------
(* Rectangles.                                                             *)

\* The hull covers the rectangle and the change, is not empty, and stays within
\* the rounded height.
LEMMA CombineCovers ==
    ASSUME NEW r \in Rect, NEW top \in Rows, NEW bottom \in 1..Height,
           top < bottom
    PROVE  /\ Combine(r, top, bottom) \in Rect
           /\ Span(r) \subseteq Span(Combine(r, top, bottom))
           /\ \A i \in Rows : top <= i /\ i < bottom
                                => i \in Span(Combine(r, top, bottom))
           /\ ~IsEmpty(Combine(r, top, bottom))
<1> DEFINE t == Lower(r.top, top)
           b == Higher(r.bottom, bottom)
           c == [top |-> t - (t % 2), bottom |-> b + (b % 2)]
<1>1. /\ t \in 0..Height /\ t <= r.top /\ t <= top
      /\ b \in 1..Height + (Height % 2) /\ b >= r.bottom /\ b >= bottom
  BY FrameAssumption DEF Lower, Higher, Rect, Rows
<1> HIDE DEF t, b
<1>2. /\ t - (t % 2) \in 0..Height /\ t - (t % 2) <= t
      /\ b + (b % 2) \in 0..Height + (Height % 2) /\ b + (b % 2) >= b
  BY <1>1, FrameAssumption
<1>3. Combine(r, top, bottom) = c
  BY DEF Combine, t, b
<1>4. /\ r.top \in Int /\ r.bottom \in Int /\ top \in Int /\ bottom \in Int
      /\ \A i \in Rows : i \in Int
  BY FrameAssumption DEF Rect, Rows
<1>5. /\ c.top <= r.top /\ c.top <= top /\ c.bottom >= r.bottom
      /\ c.bottom >= bottom /\ c.top \in Int /\ c.bottom \in Int
      /\ c \in Rect
  BY <1>1, <1>2, <1>4 DEF Rect
<1> HIDE DEF c
<1>6. \A i \in Rows : r.top <= i /\ i < r.bottom => c.top <= i /\ i < c.bottom
  BY <1>4, <1>5
<1>7. \A i \in Rows : top <= i /\ i < bottom => c.top <= i /\ i < c.bottom
  BY <1>4, <1>5
<1>8. ~(c.top >= c.bottom)
  BY <1>4, <1>5
<1> QED
  BY <1>3, <1>5, <1>6, <1>7, <1>8 DEF Span, IsEmpty

\* A full rectangle has every row and a cleared one none.
LEMMA FullAndClear ==
    /\ FullRect \in Rect /\ ClearRect \in Rect /\ ZeroRect \in Rect
    /\ Span(FullRect) = Rows
    /\ Span(ClearRect) = {}
    /\ ~IsEmpty(FullRect)
    /\ IsEmpty(ClearRect)
BY FrameAssumption DEF FullRect, ClearRect, ZeroRect, Rect, Span, Rows, IsEmpty

\* The indices and the rows.
LEMMA Indices ==
    /\ \A b \in Index : 1 - b \in Index /\ 1 - (1 - b) = b /\ 1 - b # b
    /\ \A b, c \in Index : b # c => b = 1 - c
    /\ 0 \in Index
BY DEF Index

\* A buffer that is packed is not an idle one.
LEMMA NotIdle ==
    ASSUME NEW r, NEW rows, ~IsEmpty(r)
    PROVE  [rect |-> r, rows |-> rows] # NoBlock
BY FullAndClear DEF NoBlock
-----------------------------------------------------------------------------
(* Capture.                                                                *)

\* What Capture does to rectangles that cover what the chip's buffers lack.
LEMMA CaptureEffect ==
    ASSUME TypeOK, Idle, NEW rs \in [Index -> Rect], Capture(rs)
    PROVE  /\ image' = desktop
           /\ rect' \in [Index -> Rect]
           /\ block' \in [rect : Rect, rows : Picture]
           /\ \A b \in Index : IsEmpty(rs[b]) \/ b # fi \/ block' # NoBlock
           /\ block' = NoBlock => image' = image
           /\ block' # NoBlock => block'.rows = image' /\ rect'[fi] = ClearRect
           /\ \A i \in Rows :
                 /\ i \in Span(rs[1 - fi]) \/ image'[i] # image[i]
                      => i \in Span(rect'[1 - fi])
                 /\ i \in Span(rs[fi]) \/ image'[i] # image[i]
                      => i \in Span(rect'[fi]) \cup Span(block'.rect)
<1> USE DEF Picture
<1>1. /\ fi \in Index /\ 1 - fi \in Index /\ 1 - fi # fi
      /\ desktop \in Picture /\ image \in Picture
  BY Indices DEF TypeOK, ValuesOK
<1>2. ASSUME NEW r2 \in [Index -> Rect], Pack(r2)
      PROVE  /\ rect' \in [Index -> Rect]
             /\ block' \in [rect : Rect, rows : Picture]
             /\ IsEmpty(r2[fi]) \/ block' # NoBlock
             /\ block' = NoBlock => IsEmpty(r2[fi])
             /\ block' # NoBlock => block'.rows = desktop /\ rect'[fi] = ClearRect
             /\ Span(r2[1 - fi]) = Span(rect'[1 - fi])
             /\ Span(r2[fi]) \subseteq Span(rect'[fi]) \cup Span(block'.rect)
  <2>1. CASE IsEmpty(r2[fi])
    <3>1. rect' = r2 /\ block' = block /\ block = NoBlock
      BY <1>2, <2>1 DEF Pack, Idle
    <3> QED
      BY <3>1, <2>1 DEF TypeOK, ValuesOK
  <2>2. CASE ~IsEmpty(r2[fi])
    <3>1. /\ rect' = [r2 EXCEPT ![fi] = ClearRect]
          /\ block' = [rect |-> r2[fi], rows |-> desktop]
      BY <1>2, <2>2 DEF Pack
    <3>2. block' # NoBlock
      BY <3>1, <2>2, NotIdle
    <3>3. rect'[1 - fi] = r2[1 - fi] /\ rect'[fi] = ClearRect /\ rect' \in [Index -> Rect]
      BY <3>1, <1>1, FullAndClear
    <3>4. block'.rect = r2[fi] /\ block'.rows = desktop
          /\ block' \in [rect : Rect, rows : Picture]
      BY <3>1, <1>1
    <3> QED
      BY <3>2, <3>3, <3>4
  <2> QED
    BY <2>1, <2>2
<1>3. ASSUME NEW top \in Rows, NEW bottom \in 1..Height, IsChange(top, bottom),
             image' = [i \in Rows |-> IF top <= i /\ i < bottom
                                      THEN desktop[i] ELSE image[i]],
             Pack([b \in Index |-> Combine(rs[b], top, bottom)])
      PROVE  /\ image' = desktop
             /\ rect' \in [Index -> Rect]
             /\ block' \in [rect : Rect, rows : Picture]
             /\ block' # NoBlock
             /\ block'.rows = image' /\ rect'[fi] = ClearRect
             /\ \A i \in Rows :
                 /\ i \in Span(rs[1 - fi]) \/ image'[i] # image[i]
                      => i \in Span(rect'[1 - fi])
                 /\ i \in Span(rs[fi]) \/ image'[i] # image[i]
                      => i \in Span(rect'[fi]) \cup Span(block'.rect)
  <2> DEFINE r2 == [b \in Index |-> Combine(rs[b], top, bottom)]
  <2>1. top < bottom
    BY <1>3 DEF IsChange, Rows
  <2>2. \A b \in Index : /\ r2[b] \in Rect
                         /\ Span(rs[b]) \subseteq Span(r2[b])
                         /\ \A i \in Rows : top <= i /\ i < bottom => i \in Span(r2[b])
                         /\ ~IsEmpty(r2[b])
    BY <2>1, CombineCovers
  <2>3. r2 \in [Index -> Rect]
    BY <2>2
  <2>4. image' = desktop
    BY <1>1, <1>3 DEF IsChange
  <2>5. \A i \in Rows : image'[i] # image[i] => top <= i /\ i < bottom
    BY <1>3
  <2>6. Pack(r2)
    BY <1>3
  <2> HIDE DEF r2
  <2>7. /\ rect' \in [Index -> Rect]
        /\ block' \in [rect : Rect, rows : Picture]
        /\ block' # NoBlock /\ block'.rows = desktop /\ rect'[fi] = ClearRect
        /\ Span(r2[1 - fi]) = Span(rect'[1 - fi])
        /\ Span(r2[fi]) \subseteq Span(rect'[fi]) \cup Span(block'.rect)
    BY <2>6, <2>3, <2>2, <1>1, <1>2
  <2> QED
    BY <2>2, <2>4, <2>5, <2>7, <1>1
<1>4. CASE desktop = image /\ image' = image /\ Pack(rs)
  BY <1>4, <1>1, <1>2
<1> QED
  BY <1>3, <1>4 DEF Capture
-----------------------------------------------------------------------------
(* Type correctness.                                                       *)

LEMMA WrittenTyped ==
    ASSUME TypeOK, NEW k
    PROVE  /\ Written(k) \in [Index -> Picture]
           /\ Written(k)[1 - next] = chip[1 - next]
           /\ \A i \in Rows : i \in Span(block.rect) /\ i < k =>
                 Written(k)[next][i] = block.rows[i]
           /\ \A i \in Rows : i \notin Span(block.rect) =>
                 Written(k)[next][i] = chip[next][i]
<1> DEFINE w == [i \in Rows |-> IF i \in Span(block.rect) /\ i < k
                                THEN block.rows[i] ELSE chip[next][i]]
<1>1. /\ next \in Index /\ 1 - next # next /\ 1 - next \in Index
      /\ chip \in [Index -> Picture]
      /\ block.rows \in Picture
  BY Indices DEF TypeOK, ValuesOK
<1>2. w \in Picture
  BY <1>1 DEF Picture
<1>3. Written(k) = [chip EXCEPT ![next] = w]
  BY DEF Written
<1>4. \A i \in Rows : w[i] = IF i \in Span(block.rect) /\ i < k
                             THEN block.rows[i] ELSE chip[next][i]
  OBVIOUS
<1> HIDE DEF w
<1> QED
  BY <1>1, <1>2, <1>3, <1>4

LEMMA InitTyped == Init => TypeOK
<1>1. Init => FlagsOK
  BY Zenon DEF Init, FlagsOK
<1>2. Init => ValuesOK
  BY FrameAssumption, FullAndClear DEF Init, ValuesOK, Picture, Index, NoBlock
<1> QED
  BY <1>1, <1>2 DEF TypeOK

LEMMA FlagsStep ==
    ASSUME FlagsOK, [Next]_vars
    PROVE  FlagsOK'
<1> USE DEF FlagsOK, hostVars, chipVars, histVars
<1>1. CASE Draw \/ PostUpdate
  BY <1>1, Zenon DEF Draw, PostUpdate
<1>2. CASE Update \/ Refresh
  BY <1>2, Zenon DEF Update, Refresh, Capture
<1>3. ASSUME Sent PROVE /\ first' \in BOOLEAN
                        /\ UNCHANGED <<on, posting, pending>>
  BY <1>3, Zenon DEF Sent
<1>4. CASE SendOk
  <2>1. Sent /\ synced' \in BOOLEAN /\ clean' \in BOOLEAN
    BY <1>4, Zenon DEF SendOk
  <2> QED
    BY <1>3, <2>1
<1>5. CASE SendUnfinished
  <2>1. Sent /\ synced' \in BOOLEAN /\ clean' \in BOOLEAN
    BY <1>5, Zenon DEF SendUnfinished
  <2> QED
    BY <1>3, <2>1
<1>6. CASE SendFail
  BY <1>6, Zenon DEF SendFail
<1>7. CASE Enable \/ Disable
  BY <1>7, Zenon DEF Enable, Disable
<1>8. CASE UNCHANGED vars
  BY <1>8, Zenon DEF vars
<1> QED
  BY <1>1, <1>2, <1>4, <1>5, <1>6, <1>7, <1>8 DEF Next, Sender, Send

LEMMA ValuesStep ==
    ASSUME TypeOK, [Next]_vars
    PROVE  ValuesOK'
<1> USE FrameAssumption DEF hostVars, chipVars, histVars
<1>0. /\ ValuesOK
      /\ fi \in Index /\ 1 - fi \in Index /\ next \in Index /\ 1 - next \in Index
      /\ [b \in Index |-> FullRect] \in [Index -> Rect]
      /\ NoBlock \in [rect : Rect, rows : Picture]
  BY Indices, FullAndClear DEF TypeOK, ValuesOK, NoBlock, Picture
<1>1. CASE Draw \/ PostUpdate
  BY <1>0, <1>1 DEF Draw, PostUpdate, ValuesOK, Picture, Rows
<1>2. ASSUME Idle, NEW rs \in [Index -> Rect], Capture(rs)
      PROVE  ValuesOK'
  <2>1. /\ image' = desktop /\ rect' \in [Index -> Rect]
        /\ block' \in [rect : Rect, rows : Picture]
    BY <1>2, CaptureEffect
  <2>2. UNCHANGED <<desktop, fi, chip, next, shown, faults>>
    BY <1>2 DEF Capture
  <2> QED
    BY <1>0, <2>1, <2>2 DEF ValuesOK
<1>3. CASE Update \/ Refresh
  BY <1>0, <1>2, <1>3 DEF Update, Refresh, ValuesOK
<1>4. ASSUME chip' \in [Index -> Picture],
             \/ Switch
             \/ UNCHANGED <<next, shown>>,
             faults' \in 0..MaxFaults,
             block' = NoBlock /\ fi' = 1 - fi,
             rect' \in [Index -> Rect],
             UNCHANGED <<desktop, image>>
      PROVE  ValuesOK'
  BY <1>0, <1>4 DEF ValuesOK, Switch
<1>5. ASSUME Sent PROVE /\ rect' \in [Index -> Rect]
                        /\ block' = NoBlock /\ fi' = 1 - fi
                        /\ UNCHANGED <<desktop, image>>
  <2>1. rect' = rect \/ rect' = [b \in Index |-> FullRect]
    BY <1>5 DEF Sent
  <2> QED
    BY <1>0, <1>5, <2>1 DEF Sent, ValuesOK
<1>6. CASE SendOk
  <2>1. chip' \in [Index -> Picture]
    BY <1>6, WrittenTyped DEF SendOk
  <2>2. Sent /\ Switch /\ faults' \in 0..MaxFaults
    BY <1>0, <1>6 DEF SendOk, ValuesOK
  <2> QED
    BY <1>4, <1>5, <2>1, <2>2
<1>7. CASE SendUnfinished
  <2>1. chip' \in [Index -> Picture]
    BY <1>7, WrittenTyped DEF SendUnfinished
  <2>2. Sent /\ (Switch \/ UNCHANGED <<next, shown>>)
    BY <1>7 DEF SendUnfinished
  <2>3. faults' \in 0..MaxFaults
    BY <1>0, <1>7 DEF SendUnfinished, ValuesOK
  <2> QED
    BY <1>4, <1>5, <2>1, <2>2, <2>3
<1>8. CASE SendFail
  <2>1. chip' \in [Index -> Picture]
    BY <1>8, WrittenTyped DEF SendFail
  <2>2. Switch \/ UNCHANGED <<next, shown>>
    BY <1>8 DEF SendFail
  <2>3. faults' \in 0..MaxFaults
    BY <1>0, <1>8 DEF SendFail, ValuesOK
  <2>4. block' = NoBlock /\ fi' = 1 - fi /\ rect' = rect
        /\ UNCHANGED <<desktop, image>>
    BY <1>8 DEF SendFail
  <2> QED
    BY <1>0, <1>4, <2>1, <2>2, <2>3, <2>4 DEF ValuesOK
<1>9. CASE Enable
  <2>1. chip' \in [Index -> Picture]
    BY <1>0, <1>9 DEF Enable, ValuesOK, Picture, Rows
  <2>2. next' \in Index /\ shown' \in Index /\ fi' \in Index
    BY <1>9, Indices DEF Enable
  <2>3. UNCHANGED <<desktop, image, rect, block, faults>>
    BY <1>9 DEF Enable
  <2> QED
    BY <1>0, <2>1, <2>2, <2>3 DEF ValuesOK
<1>10. CASE Disable
  BY <1>0, <1>10 DEF Disable, ValuesOK
<1>11. CASE UNCHANGED vars
  BY <1>0, <1>11 DEF vars, ValuesOK
<1> QED
  BY <1>1, <1>3, <1>6, <1>7, <1>8, <1>9, <1>10, <1>11
     DEF Next, Sender, Send

\* Every variable keeps its type, and no rectangle passes the rounded height.
THEOREM TypeCorrect == Spec => []TypeOK
<1>1. TypeOK /\ [Next]_vars => TypeOK'
  BY FlagsStep, ValuesStep DEF TypeOK
<1> QED
  BY <1>1, InitTyped, PTL DEF Spec
-----------------------------------------------------------------------------
(* The rectangles cover what the chip lacks.                               *)

\* A capture from rectangles that cover what the chip's buffers lack.
LEMMA CaptureOwed ==
    ASSUME TypeOK, Idle, NEW rs \in [Index -> Rect], Capture(rs),
           \A i \in Rows : /\ chip[next][i] # image[i] => i \in Span(rs[fi])
                           /\ chip[1 - next][i] # image[i] => i \in Span(rs[1 - fi])
    PROVE  Owed'
<1>1. /\ chip' = chip /\ next' = next /\ fi' = fi
  BY DEF Capture, chipVars
<1> QED
  BY <1>1, CaptureEffect DEF Owed

LEMMA IdleOwed ==
    ASSUME TypeOK, Idle, Owed, synced, NEW i \in Rows
    PROVE  /\ chip[next][i] # image[i] => i \in Span(rect[fi])
           /\ chip[1 - next][i] # image[i] => i \in Span(rect[1 - fi])
<1>1. Span(block.rect) = {}
  BY FullAndClear DEF Idle, NoBlock
<1> QED
  BY <1>1 DEF Owed

LEMMA OwedStep ==
    ASSUME IInv, [Next]_vars
    PROVE  Owed'
<1> USE DEF hostVars, chipVars, histVars
<1>0. TypeOK /\ Owed /\ InFlight
      /\ fi \in Index /\ 1 - fi \in Index /\ next \in Index /\ 1 - next \in Index
      /\ 1 - (1 - next) = next /\ 1 - (1 - fi) = fi
  BY Indices DEF IInv, TypeOK, ValuesOK
<1>1. CASE Draw \/ PostUpdate
  BY <1>0, <1>1 DEF Draw, PostUpdate, Owed
<1>2. CASE Update
  <2>1. Capture(rect) /\ Idle /\ rect \in [Index -> Rect] /\ synced' = synced
    BY <1>0, <1>2 DEF Update, TypeOK, ValuesOK
  <2>2. CASE synced
    BY <2>1, <2>2, <1>0, IdleOwed, CaptureOwed
  <2>3. CASE ~synced
    BY <2>1, <2>3 DEF Owed
  <2> QED
    BY <2>2, <2>3
<1>3. CASE Refresh
  <2> DEFINE full == [b \in Index |-> FullRect]
  <2>1. Capture(full) /\ Idle
    BY <1>3 DEF Refresh
  <2>2. full \in [Index -> Rect] /\ Span(full[fi]) = Rows
        /\ Span(full[1 - fi]) = Rows
    BY <1>0, FullAndClear
  <2> HIDE DEF full
  <2> QED
    BY <2>1, <2>2, <1>0, CaptureOwed
\* The rectangles after a block that went out.
<1>4. ASSUME Sent
      PROVE  /\ image' = image /\ fi' = 1 - fi
             /\ first => rect' = rect
             /\ ~first => \A b \in Index : Span(rect'[b]) = Rows
  BY <1>4, FullAndClear DEF Sent
<1>5. ASSUME Sent, ~first, next' \in Index PROVE Owed'
  <2>1. Span(rect'[fi']) = Rows /\ Span(rect'[1 - fi']) = Rows
    BY <1>0, <1>4, <1>5
  <2> QED
    BY <2>1 DEF Owed
<1>6. CASE SendOk
  <2>1. Sent /\ chip' = Written(Height) /\ next' = 1 - next /\ ~Idle
        /\ synced' = (synced \/ ~first)
    BY <1>6 DEF SendOk, Switch
  <2>2. CASE ~first
    BY <2>1, <2>2, <1>0, <1>5
  <2>3. CASE first /\ ~synced
    BY <2>1, <2>3 DEF Owed
  <2>4. CASE first /\ synced
    <3>1. block.rows = image /\ \A i \in Rows : i < Height
      BY <2>1, <1>0, FrameAssumption DEF InFlight, Rows
    <3>2. chip'[1 - next] = chip[1 - next]
      BY <2>1, <1>0, WrittenTyped
    <3>3. \A i \in Rows : chip'[next][i] # image[i] => i \in Span(rect[fi])
      BY <2>1, <2>4, <3>1, <1>0, WrittenTyped DEF Owed
    <3>4. \A i \in Rows : chip[1 - next][i] # image[i] => i \in Span(rect[1 - fi])
      BY <2>4, <1>0 DEF Owed
    <3>5. rect' = rect /\ image' = image /\ fi' = 1 - fi /\ 1 - fi' = fi
          /\ next' = 1 - next /\ 1 - next' = next
      BY <2>1, <2>4, <1>0, <1>4
    <3> QED
      BY <3>2, <3>3, <3>4, <3>5 DEF Owed
  <2> QED
    BY <2>2, <2>3, <2>4
<1>7. CASE SendUnfinished
  <2>1. Sent /\ next' \in Index /\ synced' = ~first
    BY <1>0, <1>7 DEF SendUnfinished, Switch
  <2>2. CASE ~first
    BY <2>1, <2>2, <1>5
  <2>3. CASE first
    BY <2>1, <2>3 DEF Owed
  <2> QED
    BY <2>2, <2>3
<1>8. CASE SendFail \/ Enable \/ Disable
  BY <1>8 DEF SendFail, Enable, Disable, Owed
<1>9. CASE UNCHANGED vars
  BY <1>9, <1>0 DEF vars, Owed
<1> QED
  BY <1>1, <1>2, <1>3, <1>6, <1>7, <1>8, <1>9 DEF Next, Sender, Send
-----------------------------------------------------------------------------
(* The block on its way, the panel, and what is left to take.              *)

LEMMA InFlightStep ==
    ASSUME IInv, [Next]_vars
    PROVE  InFlight'
<1> USE DEF hostVars, chipVars, histVars
<1>0. TypeOK /\ InFlight /\ rect \in [Index -> Rect]
      /\ [b \in Index |-> FullRect] \in [Index -> Rect]
  BY FullAndClear DEF IInv, TypeOK, ValuesOK
<1>1. CASE Draw
  BY <1>0, <1>1 DEF Draw, InFlight, Idle
<1>2. CASE PostUpdate
  BY <1>0, <1>2 DEF PostUpdate, InFlight, Idle
<1>3. ASSUME Idle, NEW rs \in [Index -> Rect], Capture(rs) PROVE InFlight'
  <2>1. image' = desktop /\ desktop' = desktop /\ fi' = fi
        /\ (block' # NoBlock => block'.rows = image' /\ rect'[fi] = ClearRect)
    BY <1>0, <1>3, CaptureEffect DEF Capture
  <2> QED
    BY <2>1 DEF InFlight, Idle
<1>4. CASE Update \/ Refresh
  BY <1>0, <1>3, <1>4 DEF Update, Refresh
<1>5. CASE Send
  BY <1>5 DEF Send, SendOk, SendUnfinished, SendFail, Sent, InFlight, Idle
<1>6. CASE Enable \/ Disable
  BY <1>6 DEF Enable, Disable, InFlight, Idle
<1>7. CASE UNCHANGED vars
  BY <1>0, <1>7 DEF vars, InFlight, Idle
<1> QED
  BY <1>1, <1>2, <1>4, <1>5, <1>6, <1>7 DEF Next, Sender

LEMMA TakenStep ==
    ASSUME IInv, [Next]_vars
    PROVE  Taken'
<1> USE DEF hostVars, chipVars, histVars
<1>0. TypeOK /\ InFlight /\ Taken /\ rect \in [Index -> Rect]
      /\ [b \in Index |-> FullRect] \in [Index -> Rect]
  BY FullAndClear DEF IInv, TypeOK, ValuesOK
<1>1. CASE Draw \/ PostUpdate
  BY <1>1 DEF Draw, PostUpdate, Taken
<1>2. ASSUME Idle, NEW rs \in [Index -> Rect], Capture(rs) PROVE Taken'
  <2>1. image' = desktop /\ desktop' = desktop
    BY <1>0, <1>2, CaptureEffect DEF Capture
  <2> QED
    BY <2>1 DEF Taken
<1>3. CASE Update \/ Refresh
  BY <1>0, <1>2, <1>3 DEF Update, Refresh
<1>4. CASE Send
  <2>1. ~Idle
    BY <1>4 DEF Send, SendOk, SendUnfinished, SendFail
  <2>2. UNCHANGED <<desktop, image, posting, pending>>
    BY <1>4 DEF Send, SendOk, SendUnfinished, SendFail, Sent
  <2> QED
    BY <1>0, <2>1, <2>2 DEF InFlight, Taken
<1>5. CASE Enable \/ Disable
  BY <1>5 DEF Enable, Disable, Taken
<1>6. CASE UNCHANGED vars
  BY <1>0, <1>6 DEF vars, Taken
<1> QED
  BY <1>1, <1>3, <1>4, <1>5, <1>6 DEF Next, Sender

\* A block that goes out while synced leaves the image in the buffer it completes.
LEMMA SendOkShows ==
    ASSUME IInv, SendOk, synced
    PROVE  chip'[next] = image /\ image' = image
<1>1. /\ TypeOK /\ Owed /\ block.rows = image /\ chip' = Written(Height)
      /\ Span(rect[fi]) = {}
      /\ image' = image
      /\ next \in Index /\ image \in Picture
  BY FullAndClear DEF IInv, SendOk, Sent, InFlight, TypeOK, ValuesOK
<1>2. \A i \in Rows : chip'[next][i] = image[i]
  <2> SUFFICES ASSUME NEW i \in Rows PROVE chip'[next][i] = image[i]
    OBVIOUS
  <2>1. i < Height
    BY FrameAssumption DEF Rows
  <2>2. CASE i \in Span(block.rect)
    BY <1>1, <2>1, <2>2, WrittenTyped
  <2>3. CASE i \notin Span(block.rect)
    <3>1. chip'[next][i] = chip[next][i]
      BY <1>1, <2>3, WrittenTyped
    <3>2. chip[next][i] = image[i]
      BY <1>1, <2>3 DEF Owed
    <3> QED
      BY <3>1, <3>2
  <2> QED
    BY <2>2, <2>3
<1>3. chip'[next] \in Picture
  BY <1>1, WrittenTyped
<1> QED
  BY <1>1, <1>2, <1>3 DEF Picture

LEMMA PanelStep ==
    ASSUME IInv, [Next]_vars
    PROVE  Panel'
<1> USE DEF hostVars, chipVars, histVars
<1>0. TypeOK /\ Panel /\ rect \in [Index -> Rect]
      /\ next \in Index /\ 1 - (1 - next) = next
  BY Indices DEF IInv, TypeOK, ValuesOK
<1>1. CASE Draw \/ PostUpdate
  BY <1>0, <1>1 DEF Draw, PostUpdate, Panel, Idle
<1>2. CASE Update
  <2>1. Capture(rect) /\ Idle /\ synced' = synced
    BY <1>2 DEF Update
  <2>2. block' = NoBlock => image' = image
    BY <1>0, <2>1, CaptureEffect
  <2>3. UNCHANGED <<chip, next, shown, first, clean>>
    BY <2>1 DEF Capture
  <2> QED
    BY <1>0, <2>1, <2>2, <2>3 DEF Panel, Idle
<1>3. CASE Refresh
  <2> DEFINE full == [b \in Index |-> FullRect]
  <2>1. Capture(full) /\ Idle
    BY <1>3 DEF Refresh
  <2>2. full \in [Index -> Rect] /\ ~IsEmpty(full[fi]) /\ fi \in Index
    BY <1>0, FullAndClear DEF TypeOK, ValuesOK
  <2>3. UNCHANGED <<chip, next, shown, first, clean>>
    BY <2>1 DEF Capture
  <2> HIDE DEF full
  <2>4. block' # NoBlock
    BY <1>0, <2>1, <2>2, CaptureEffect
  <2> QED
    BY <1>0, <2>3, <2>4 DEF Panel, Idle
<1>4. CASE SendOk
  <2>1. shown' = next /\ next' = 1 - next /\ first' = TRUE /\ clean' = synced
    BY <1>4 DEF SendOk, Switch, Sent
  <2>2. synced => chip'[next] = image /\ image' = image
    BY <1>4, SendOkShows
  <2> QED
    BY <1>0, <2>1, <2>2 DEF Panel
\* A failed block that does not reach the panel leaves it synced no longer.
<1>5. CASE SendUnfinished
  <2>1. synced' = ~first /\ first' = TRUE
    BY <1>5 DEF SendUnfinished, Sent
  <2>2. clean' = FALSE \/ UNCHANGED <<next, shown, clean>>
    BY <1>5 DEF SendUnfinished
  <2>3. CASE clean' = FALSE
    BY <2>3 DEF Panel
  <2>4. CASE UNCHANGED <<next, shown, clean>> /\ ~clean
    BY <2>4 DEF Panel
  <2>5. CASE UNCHANGED <<next, shown, clean>> /\ clean
    <3>1. first /\ shown = 1 - next
      BY <1>0, <2>5 DEF Panel
    <3>2. synced' = FALSE
      BY <2>1, <3>1
    <3> QED
      BY <2>1, <2>5, <3>1, <3>2 DEF Panel
  <2> QED
    BY <2>2, <2>3, <2>4, <2>5
<1>6. CASE SendFail
  <2>1. synced' = FALSE /\ first' = first
    BY <1>6 DEF SendFail
  <2>2. clean' = FALSE \/ UNCHANGED <<next, shown, clean>>
    BY <1>6 DEF SendFail
  <2> QED
    BY <1>0, <2>1, <2>2 DEF Panel
<1>7. CASE Enable \/ Disable
  BY <1>7 DEF Enable, Disable, Panel
<1>8. CASE UNCHANGED vars
  BY <1>0, <1>8 DEF vars, Panel, Idle
<1> QED
  BY <1>1, <1>2, <1>3, <1>4, <1>5, <1>6, <1>7, <1>8 DEF Next, Sender, Send
-----------------------------------------------------------------------------
(* The theorems.                                                           *)

LEMMA InitInductive == Init => IInv
<1> SUFFICES ASSUME Init PROVE IInv
  OBVIOUS
<1>1. TypeOK
  BY InitTyped
<1>2. ~synced /\ ~clean /\ ~on /\ Idle
  BY DEF Init, Idle
<1> QED
  BY <1>1, <1>2 DEF IInv, Owed, InFlight, Panel, Taken

\* The strengthening the properties rest on is inductive.
THEOREM Inductive == Spec => []IInv
<1>1. IInv /\ [Next]_vars => IInv'
  <2> SUFFICES ASSUME IInv, [Next]_vars PROVE IInv'
    OBVIOUS
  <2>1. TypeOK'
    BY FlagsStep, ValuesStep DEF IInv, TypeOK
  <2> QED
    BY <2>1, OwedStep, InFlightStep, PanelStep, TakenStep DEF IInv
<1> QED
  BY <1>1, InitInductive, PTL DEF Spec

\* No row is lost: as long as no transfer failed, each row in which a buffer of the
\* chip differs from what was captured is in that buffer's rectangle or on its way.
THEOREM NothingLost == Spec => []Owed
<1>1. IInv => Owed
  BY DEF IInv
<1> QED
  BY <1>1, Inductive, PTL

\* At rest and without failures the panel shows the desktop.
THEOREM PanelUpToDate == Spec => []UpToDate
<1>1. IInv => UpToDate
  BY DEF IInv, Panel, Taken, UpToDate
<1> QED
  BY <1>1, Inductive, PTL

\* A step of the store is a step of the mirror or leaves it alone.
LEMMA MirrorStep ==
    ASSUME IInv, [Next]_vars
    PROVE  [Mirror!Next]_(Mirror!vars)
<1> USE DEF hostVars, chipVars, histVars, Mirror!vars
<1>0. TypeOK /\ Panel /\ rect \in [Index -> Rect]
  BY DEF IInv, TypeOK, ValuesOK
<1>1. CASE Draw
  BY <1>1, FrameAssumption DEF Draw, Picture, Rows, Mirror!Next, Mirror!Draw
<1>2. CASE PostUpdate
  BY <1>2 DEF PostUpdate
<1>3. ASSUME Idle, NEW rs \in [Index -> Rect], Capture(rs) PROVE Mirror!Take
  <2>1. image' = desktop
    BY <1>0, <1>3, CaptureEffect
  <2>2. UNCHANGED <<desktop, chip, shown, clean>>
    BY <1>3 DEF Capture
  <2> QED
    BY <2>1, <2>2 DEF Mirror!Take
<1>4. CASE Update \/ Refresh
  <2>1. [b \in Index |-> FullRect] \in [Index -> Rect]
    BY FullAndClear
  <2>2. Mirror!Take
    BY <1>0, <1>3, <1>4, <2>1 DEF Update, Refresh
  <2> QED
    BY <2>2 DEF Mirror!Next
<1>5. CASE SendOk
  <2>1. UNCHANGED <<desktop, image>> /\ shown' = next /\ clean' = synced
    BY <1>5 DEF SendOk, Switch, Sent
  <2>2. CASE synced
    <3>1. chip'[next] = image
      BY <1>5, <2>2, SendOkShows
    <3> QED
      BY <2>1, <2>2, <3>1 DEF Mirror!Next, Mirror!Show
  <2>3. CASE ~synced
    BY <2>1, <2>3 DEF Mirror!Next, Mirror!Spoil
  <2> QED
    BY <2>2, <2>3
\* A failed block, complete or not, goes to the buffer that is not on the panel.
<1>6. ASSUME NEW k, chip' = Written(k), UNCHANGED <<desktop, image>>,
             clean' = FALSE \/ UNCHANGED <<next, shown, clean>>
      PROVE  [Mirror!Next]_(Mirror!vars)
  <2>1. CASE clean' = FALSE
    BY <1>6, <2>1 DEF Mirror!Next, Mirror!Spoil
  <2>2. CASE UNCHANGED <<next, shown, clean>> /\ clean
    <3>1. chip'[shown] = chip[shown]
      BY <1>0, <1>6, <2>2, WrittenTyped DEF Panel
    <3> QED
      BY <1>6, <2>2, <3>1
  <2>3. CASE UNCHANGED <<next, shown, clean>> /\ ~clean
    BY <1>6, <2>3
  <2> QED
    BY <1>6, <2>1, <2>2, <2>3
<1>7. CASE SendUnfinished
  <2>1. chip' = Written(Height) /\ UNCHANGED <<desktop, image>>
    BY <1>7 DEF SendUnfinished, Sent
  <2>2. clean' = FALSE \/ UNCHANGED <<next, shown, clean>>
    BY <1>7 DEF SendUnfinished
  <2> QED
    BY <1>6, <2>1, <2>2
<1>8. CASE SendFail
  <2>1. PICK k \in 0..Height : chip' = Written(k)
    BY <1>8 DEF SendFail
  <2>2. UNCHANGED <<desktop, image>>
        /\ (clean' = FALSE \/ UNCHANGED <<next, shown, clean>>)
    BY <1>8 DEF SendFail
  <2> QED
    BY <1>6, <2>1, <2>2
<1>9. CASE Enable \/ Disable
  BY <1>9 DEF Enable, Disable, Mirror!Next, Mirror!Spoil
<1>10. CASE UNCHANGED vars
  BY <1>10 DEF vars
<1> QED
  BY <1>1, <1>2, <1>4, <1>5, <1>7, <1>8, <1>9, <1>10 DEF Next, Sender, Send

\* The two buffers, the two rectangles and the turns implement the mirror: the
\* panel shows whole frames, in the order they were taken, or nothing to rely on.
THEOREM Mirrors == Spec => MirrorSpec
<1>1. Init => Mirror!Init
  <2> SUFFICES ASSUME Init PROVE Mirror!Init
    OBVIOUS
  <2>1. desktop \in Picture /\ image \in Picture
    BY InitTyped DEF TypeOK, ValuesOK
  <2>2. clean = FALSE
    BY DEF Init
  <2> QED
    BY <2>1, <2>2 DEF Mirror!Init
<1>2. IInv /\ [Next]_vars => [Mirror!Next]_(Mirror!vars)
  BY MirrorStep
<1> QED
  BY <1>1, <1>2, Inductive, PTL DEF Spec, MirrorSpec, Mirror!Spec

-----------------------------------------------------------------------------
(* Rectangles of both dimensions, and blocks (ScreenBlocks).               *)

\* The smallest and the largest of some coordinates.
LEMMA Smallest ==
    ASSUME NEW S, S \subseteq Nat, S # {}
    PROVE  Min(S) \in S /\ \A y \in S : Min(S) <= y
<1> DEFINE Less == {xy \in Nat \X Nat : xy[1] < xy[2]}
<1>1. IsWellFoundedOn(Less, Nat)
  BY NatLessThanWellFounded DEF OpToRel
<1> HIDE DEF Less
<1>2. PICK x \in S : \A y \in S : <<y, x>> \notin Less
  BY <1>1, WFMin
<1>3. ASSUME NEW y \in S PROVE x <= y
  <2>1. <<y, x>> \in Nat \X Nat /\ <<y, x>>[1] = y /\ <<y, x>>[2] = x
    OBVIOUS
  <2> QED
    BY <1>2, <2>1 DEF Less
<1> QED
  BY <1>3 DEF Min

LEMMA Largest ==
    ASSUME NEW n \in Nat, NEW S, S \subseteq 0..n, S # {}
    PROVE  Max(S) \in S /\ \A y \in S : Max(S) >= y
<1> DEFINE T == {n - x : x \in S}
<1>1. \A x \in S : x \in Int /\ 0 <= x /\ x <= n
  OBVIOUS
<1>2. T \subseteq Nat /\ T # {}
  <2>1. \A x \in S : n - x \in Nat
    BY <1>1
  <2> QED
    BY <2>1
<1>3. Min(T) \in T /\ \A y \in T : Min(T) <= y
  <2> HIDE DEF T
  <2> QED
    BY <1>2, Smallest
<1>4. PICK x \in S : Min(T) = n - x
  BY <1>3
<1>5. ASSUME NEW y \in S PROVE x >= y
  <2>1. n - x <= n - y
    BY <1>3, <1>4
  <2> QED
    BY <1>1, <2>1
<1> QED
  BY <1>5 DEF Max

LEMMA OfTwo ==
    \A a, b \in Int : /\ Min({a, b}) = (IF a <= b THEN a ELSE b)
                      /\ Max({a, b}) = (IF a >= b THEN a ELSE b)
BY DEF Min, Max

\* The ends of some coordinates below a bound.
LEMMA Ends ==
    ASSUME NEW n \in Nat, NEW S, S \subseteq 0..n, S # {}
    PROVE  /\ Min(S) \in 0..n /\ Max(S) \in 0..n /\ Min(S) <= Max(S)
           /\ \A y \in S : Min(S) <= y /\ y <= Max(S)
<1>1. S \subseteq Nat
  OBVIOUS
<1>2. Min(S) \in S /\ \A y \in S : Min(S) <= y
  BY <1>1, Smallest
<1>3. Max(S) \in S /\ \A y \in S : Max(S) >= y
  BY Largest
<1> DEFINE a == Min(S)
           b == Max(S)
<1>4. a \in 0..n /\ b \in 0..n /\ a <= b
  BY <1>2, <1>3
<1>5. ASSUME NEW y \in S PROVE a <= y /\ y <= b
  <2>1. y \in 0..n /\ a <= y /\ b >= y
    BY <1>2, <1>3
  <2> HIDE DEF a, b
  <2> QED
    BY <1>4, <2>1
<1> QED
  BY <1>4, <1>5

\* Where rectangles of a picture, and those put together from them, have their edges.
Across == 4092
Down   == 4094
Bits   == 4096
Sizes == {s \in Nat \X Nat : 0 < s[1] /\ s[1] <= Across /\ 0 < s[2] /\ s[2] <= Down}
Placed(width, height) ==
    {r \in [left : Nat, top : Nat, right : Nat, bottom : Nat] :
        r.left <= width /\ r.top <= height /\ r.right <= width /\ r.bottom <= height}

\* The rectangle that is found holds every change, and lies in the picture.
LEMMA ChangeFound ==
    ASSUME NEW size \in Sizes, NEW diff \in SUBSET Cells(size), diff # {}
    PROVE  LET r == ChangedRect(diff)
           IN /\ r \in Placed(size[1], size[2]) /\ r.left < r.right /\ r.top < r.bottom
              /\ diff \subseteq Inside(r)
<1> DEFINE rows    == {c[2] : c \in diff}
           lines   == {d \in diff : d[2] >= Min(rows) /\ d[2] <= Max(rows)}
           columns == {c[1] : c \in lines}
           w == size[1] - 1
           h == size[2] - 1
<1>0. w \in Nat /\ h \in Nat /\ size[1] = w + 1 /\ size[2] = h + 1
  BY DEF Sizes
<1>1. \A c \in diff : c[1] \in 0..w /\ c[2] \in 0..h /\ c = <<c[1], c[2]>>
  BY DEF Cells
<1> HIDE DEF w, h
<1>2. rows \subseteq 0..h /\ rows # {} /\ \A c \in diff : c[2] \in rows
  BY <1>1
<1> DEFINE y1 == Min(rows)
           y2 == Max(rows)
<1>3. /\ y1 \in 0..h /\ y2 \in 0..h /\ y1 <= y2
      /\ \A y \in rows : y1 <= y /\ y <= y2
  <2> HIDE DEF rows
  <2> QED
    BY <1>0, <1>2, Ends
<1>5. lines = diff
  <2> HIDE DEF rows
  <2>1. ASSUME NEW d \in diff PROVE d[2] >= Min(rows) /\ d[2] <= Max(rows)
    <3>1. d[2] \in 0..h /\ y1 <= d[2] /\ d[2] <= y2
      BY <1>1, <1>2, <1>3
    <3> HIDE DEF y1, y2
    <3>2. d[2] >= y1 /\ d[2] <= y2
      BY <1>3, <3>1
    <3> QED
      BY <3>2 DEF y1, y2
  <2> QED
    BY <2>1
<1>6. columns \subseteq 0..w /\ columns # {} /\ \A c \in diff : c[1] \in columns
  <2> HIDE DEF lines
  <2> QED
    BY <1>1, <1>5
<1> DEFINE x1 == Min(columns)
           x2 == Max(columns)
<1>8. /\ x1 \in 0..w /\ x2 \in 0..w /\ x1 <= x2
      /\ \A x \in columns : x1 <= x /\ x <= x2
  <2> HIDE DEF columns
  <2> QED
    BY <1>0, <1>6, Ends
<1>11. ChangedRect(diff) = [left |-> x1, right |-> x2 + 1, top |-> y1, bottom |-> y2 + 1]
  BY DEF ChangedRect
<1> HIDE DEF rows, lines, columns, x1, x2, y1, y2
<1>12. \A c \in diff : c[1] \in x1..x2 /\ c[2] \in y1..y2
  BY <1>1, <1>2, <1>3, <1>6, <1>8
<1>13. x1..x2 = x1..((x2 + 1) - 1) /\ y1..y2 = y1..((y2 + 1) - 1)
  BY <1>0, <1>3, <1>8
<1>14. diff \subseteq (x1..x2) \X (y1..y2)
  BY <1>1, <1>12
<1>15. diff \subseteq Inside(ChangedRect(diff))
  <2>1. Inside(ChangedRect(diff)) = (x1..((x2 + 1) - 1)) \X (y1..((y2 + 1) - 1))
    BY <1>11 DEF Inside
  <2> QED
    BY <1>13, <1>14, <2>1
<1>16. /\ x1 \in 0..(w + 1) /\ x2 + 1 \in 0..(w + 1) /\ x1 < x2 + 1
       /\ y1 \in 0..(h + 1) /\ y2 + 1 \in 0..(h + 1) /\ y1 < y2 + 1
  BY <1>0, <1>3, <1>8
<1> QED
  BY <1>0, <1>11, <1>15, <1>16 DEF Placed

\* Rounding, below the bits the masks keep.
LEMMA Rounded ==
    \A x \in Nat : x < Bits =>
        /\ Fours(x) \in Nat /\ Fours(x) <= x /\ Fours(x) % 4 = 0 /\ x < Fours(x) + 4
        /\ Twos(x) \in Nat /\ Twos(x) <= x /\ Twos(x) % 2 = 0 /\ x < Twos(x) + 2
<1> SUFFICES ASSUME NEW x \in Nat, x < Bits
             PROVE  /\ Fours(x) \in Nat /\ Fours(x) <= x /\ Fours(x) % 4 = 0
                    /\ x < Fours(x) + 4
                    /\ Twos(x) \in Nat /\ Twos(x) <= x /\ Twos(x) % 2 = 0
                    /\ x < Twos(x) + 2
  OBVIOUS
<1>1. Fours(x) = x - (x % 4) /\ Twos(x) = x - (x % 2)
  <2>1. x % 4096 = x
    BY DEF Bits
  <2> QED
    BY <2>1 DEF Fours, Twos
<1>2. x % 4 \in Nat /\ x % 4 < 4 /\ x % 4 <= x /\ (x - (x % 4)) % 4 = 0
  OBVIOUS
<1>3. x % 2 \in Nat /\ x % 2 < 2 /\ x % 2 <= x /\ (x - (x % 2)) % 2 = 0
  OBVIOUS
<1> QED
  BY <1>1, <1>2, <1>3

LEMMA CombinedHolds ==
    ASSUME NEW a \in Placed(Across, Down), NEW b \in Placed(Across, Down)
    PROVE  LET r == Combined(a, b)
           IN /\ r \in Placed(Across, Down)
              /\ r.left <= a.left /\ r.left <= b.left /\ r.top <= a.top /\ r.top <= b.top
              /\ a.right <= r.right /\ b.right <= r.right
              /\ a.bottom <= r.bottom /\ b.bottom <= r.bottom
              /\ r.right % 4 = 0 /\ r.bottom % 2 = 0
              /\ (r.right < a.right + 4 \/ r.right < b.right + 4)
              /\ (r.bottom < a.bottom + 2 \/ r.bottom < b.bottom + 2)
<1>1. /\ a.left \in Nat /\ a.top \in Nat /\ a.right \in Nat /\ a.bottom \in Nat
      /\ a.left <= Across /\ a.top <= Down /\ a.right <= Across /\ a.bottom <= Down
  BY DEF Placed
<1>2. /\ b.left \in Nat /\ b.top \in Nat /\ b.right \in Nat /\ b.bottom \in Nat
      /\ b.left <= Across /\ b.top <= Down /\ b.right <= Across /\ b.bottom <= Down
  BY DEF Placed
<1> DEFINE x1 == Min({a.left, b.left})
           y1 == Min({a.top, b.top})
           x2 == Max({a.right, b.right})
           y2 == Max({a.bottom, b.bottom})
<1>3. /\ x1 \in Nat /\ x1 <= a.left /\ x1 <= b.left /\ x1 <= Across
      /\ y1 \in Nat /\ y1 <= a.top /\ y1 <= b.top /\ y1 <= Down
  <2>1. /\ x1 = (IF a.left <= b.left THEN a.left ELSE b.left)
        /\ y1 = (IF a.top <= b.top THEN a.top ELSE b.top)
    BY <1>1, <1>2, OfTwo
  <2> HIDE DEF x1, y1
  <2> QED
    BY <1>1, <1>2, <2>1
<1>4. /\ x2 \in Nat /\ a.right <= x2 /\ b.right <= x2 /\ x2 <= Across
      /\ y2 \in Nat /\ a.bottom <= y2 /\ b.bottom <= y2 /\ y2 <= Down
      /\ (x2 = a.right \/ x2 = b.right) /\ (y2 = a.bottom \/ y2 = b.bottom)
  <2>1. /\ x2 = (IF a.right >= b.right THEN a.right ELSE b.right)
        /\ y2 = (IF a.bottom >= b.bottom THEN a.bottom ELSE b.bottom)
    <3>1. /\ a.right \in Int /\ b.right \in Int /\ a.bottom \in Int /\ b.bottom \in Int
      BY <1>1, <1>2
    <3>2. x2 = (IF a.right >= b.right THEN a.right ELSE b.right)
      BY <3>1, OfTwo
    <3>3. y2 = (IF a.bottom >= b.bottom THEN a.bottom ELSE b.bottom)
      BY <3>1, OfTwo
    <3> QED
      BY <3>2, <3>3
  <2> HIDE DEF x2, y2
  <2> QED
    BY <1>1, <1>2, <2>1
<1>5. Combined(a, b) = [left |-> Fours(x1), top |-> Twos(y1),
                        right |-> Fours(x2 + 3), bottom |-> Twos(y2 + 1)]
  BY DEF Combined
<1> HIDE DEF x1, x2, y1, y2
<1> DEFINE c == Fours(x1)
           d == Twos(y1)
           e == Fours(x2 + 3)
           f == Twos(y2 + 1)
<1>6. c \in Nat /\ c <= x1 /\ d \in Nat /\ d <= y1
  <2>1. x1 \in Nat /\ x1 < Bits /\ y1 \in Nat /\ y1 < Bits
    BY <1>1, <1>3 DEF Across, Down, Bits
  <2>2. c \in Nat /\ c <= x1
    BY <2>1, Rounded
  <2>3. d \in Nat /\ d <= y1
    BY <2>1, Rounded
  <2> QED
    BY <2>2, <2>3
<1>7. x2 + 3 \in Nat /\ x2 + 3 < Bits /\ y2 + 1 \in Nat /\ y2 + 1 < Bits
  BY <1>4 DEF Across, Down, Bits
<1>8. /\ e \in Nat /\ e <= x2 + 3 /\ e % 4 = 0 /\ x2 + 3 < e + 4
      /\ f \in Nat /\ f <= y2 + 1 /\ f % 2 = 0 /\ y2 + 1 < f + 2
  BY <1>7, Rounded
<1> HIDE DEF c, d, e, f
<1>9. /\ e <= Across /\ x2 <= e /\ e < x2 + 4
      /\ f <= Down /\ y2 <= f /\ f < y2 + 2
  <2>1. \A x \in Nat : x % 4 = 0 /\ x <= Across + 3 => x <= Across
    BY DEF Across
  <2>2. \A x \in Nat : x % 2 = 0 /\ x <= Down + 1 => x <= Down
    BY DEF Down
  <2>3. e <= Across + 3 /\ f <= Down + 1
    BY <1>4, <1>8 DEF Across, Down
  <2> QED
    BY <1>4, <1>8, <2>1, <2>2, <2>3
<1>10. /\ c <= a.left /\ c <= b.left /\ c <= Across
       /\ d <= a.top /\ d <= b.top /\ d <= Down
       /\ a.right <= e /\ b.right <= e /\ a.bottom <= f /\ b.bottom <= f
       /\ (e < a.right + 4 \/ e < b.right + 4) /\ (f < a.bottom + 2 \/ f < b.bottom + 2)
  BY <1>1, <1>2, <1>3, <1>4, <1>6, <1>8, <1>9 DEF Across, Down
<1>11. Combined(a, b) = [left |-> c, top |-> d, right |-> e, bottom |-> f]
  BY <1>5 DEF c, d, e, f
<1> QED
  BY <1>6, <1>8, <1>9, <1>10, <1>11 DEF Placed

\* A rectangle with its edges further out holds all that the other holds.
LEMMA InsideGrows ==
    ASSUME NEW a \in Placed(Across, Down), NEW r \in Placed(Across, Down),
           r.left <= a.left, r.top <= a.top, a.right <= r.right, a.bottom <= r.bottom
    PROVE  Inside(a) \subseteq Inside(r)
<1>1. /\ a.left \in Int /\ a.top \in Int /\ a.right \in Int /\ a.bottom \in Int
      /\ r.left \in Int /\ r.top \in Int /\ r.right \in Int /\ r.bottom \in Int
  BY DEF Placed
<1>2. /\ (a.left..(a.right - 1)) \subseteq (r.left..(r.right - 1))
      /\ (a.top..(a.bottom - 1)) \subseteq (r.top..(r.bottom - 1))
  BY <1>1
<1> QED
  BY <1>2 DEF Inside

LEMMA PlacedWider ==
    \A size \in Sizes : Placed(size[1], size[2]) \subseteq Placed(Across, Down)
<1> SUFFICES ASSUME NEW size \in Sizes, NEW r \in Placed(size[1], size[2])
             PROVE  r \in Placed(Across, Down)
  OBVIOUS
<1> QED
  BY DEF Sizes, Placed, Across, Down

LEMMA WholeAndNothing ==
    \A size \in Sizes : /\ Full(size) \in Placed(size[1], size[2])
                        /\ Clear(size) \in Placed(size[1], size[2])
BY DEF Sizes, Placed, Full, Clear

\* All the rectangles a change can be put together with have coordinates of 12 bits.
LEMMA EarlierPlaced ==
    ASSUME NEW size \in Sizes
    PROVE  Earlier(size) \subseteq Placed(Across, Down)
<1>1. Full(size) \in Placed(Across, Down) /\ Clear(size) \in Placed(Across, Down)
  BY WholeAndNothing, PlacedWider
<1>2. ASSUME NEW c \in Cells(size)
      PROVE  Combined(Clear(size), ChangedRect({c})) \in Placed(Across, Down)
  <2>1. {c} \in SUBSET Cells(size) /\ {c} # {}
    OBVIOUS
  <2>2. ChangedRect({c}) \in Placed(Across, Down)
    BY <2>1, ChangeFound, PlacedWider
  <2> QED
    BY <1>1, <2>2, CombinedHolds
<1> QED
  BY <1>1, <1>2 DEF Earlier

\* Every change is found, and what the rectangle held before stays in it.
LEMMA ChangesAreTaken == Screen \in Sizes => ChangesTaken
<1> SUFFICES ASSUME Screen \in Sizes, NEW diff \in (SUBSET Cells(Screen)) \ {{}}
             PROVE  /\ Differs(diff) = {}
                    /\ \A r \in Earlier(Screen) :
                          diff \cup Inside(r) \subseteq Inside(Combined(r, ChangedRect(diff)))
  BY DEF ChangesTaken
<1> DEFINE b == ChangedRect(diff)
<1>1. diff \in SUBSET Cells(Screen) /\ diff # {}
  OBVIOUS
<1>2. b \in Placed(Across, Down) /\ diff \subseteq Inside(b)
  BY <1>1, ChangeFound, PlacedWider
<1> HIDE DEF b
<1>3. Differs(diff) = {}
  BY <1>2 DEF Differs, b
<1>4. ASSUME NEW r \in Earlier(Screen)
      PROVE  diff \cup Inside(r) \subseteq Inside(Combined(r, b))
  <2>1. r \in Placed(Across, Down)
    BY EarlierPlaced
  <2>2. /\ Combined(r, b) \in Placed(Across, Down)
        /\ Combined(r, b).left <= r.left /\ Combined(r, b).left <= b.left
        /\ Combined(r, b).top <= r.top /\ Combined(r, b).top <= b.top
        /\ r.right <= Combined(r, b).right /\ b.right <= Combined(r, b).right
        /\ r.bottom <= Combined(r, b).bottom /\ b.bottom <= Combined(r, b).bottom
    BY <1>2, <2>1, CombinedHolds
  <2>3. Inside(r) \subseteq Inside(Combined(r, b))
    BY <2>1, <2>2, InsideGrows
  <2>4. Inside(b) \subseteq Inside(Combined(r, b))
    BY <1>2, <2>2, InsideGrows
  <2> QED
    BY <1>2, <2>3, <2>4
<1> QED
  BY <1>3, <1>4 DEF b

\* A change of a mode's picture, put together with a rectangle that lies in a larger
\* picture with a width that is a multiple of four and an even height, stays in that one.
LEMMA BlockPlaced ==
    ASSUME NEW other \in Sizes, NEW size \in Sizes,
           size[1] > 1, size[2] > 1,
           NEW w \in Nat, w <= Across, other[1] <= w, size[1] <= w, w % 4 = 0,
           NEW h \in Nat, h <= Down, other[2] <= h, size[2] <= h, h % 2 = 0,
           NEW r \in BlocksSince(other, size)
    PROVE  r \in Placed(w, h) /\ r.left <= r.right /\ r.top <= r.bottom
<1>1. CASE r = Full(other)
  BY <1>1 DEF Sizes, Placed, Full
<1>2. ASSUME NEW a \in {Full(other), Clear(other)}, NEW c \in Corners(size), NEW d \in Corners(size),
             r = Combined(a, ChangedRect({c, d}))
      PROVE  r \in Placed(w, h) /\ r.left <= r.right /\ r.top <= r.bottom
  <2> DEFINE b == ChangedRect({c, d})
  <2>1. Corners(size) \subseteq Cells(size)
    <3> DEFINE x == size[1]
               y == size[2]
    <3>1. x \in Nat /\ y \in Nat /\ x > 1 /\ y > 1
      BY DEF Sizes
    <3>2. /\ 0 \in 0..(x - 1) /\ x - 1 \in 0..(x - 1) /\ x \div 2 \in 0..(x - 1)
          /\ x \div 3 \in 0..(x - 1)
          /\ 0 \in 0..(y - 1) /\ y - 1 \in 0..(y - 1) /\ y \div 2 \in 0..(y - 1)
          /\ y - 2 \in 0..(y - 1)
      <4> HIDE DEF x, y
      <4> QED
        BY <3>1
    <3>3. Corners(size) = {<<0, 0>>, <<x - 1, y - 1>>, <<x - 1, 0>>,
                           <<x \div 2, y \div 2>>, <<x \div 3, y - 2>>}
      BY DEF Corners
    <3>4. Cells(size) = (0..(x - 1)) \X (0..(y - 1))
      BY DEF Cells
    <3> HIDE DEF x, y
    <3> QED
      BY <3>2, <3>3, <3>4
  <2>2. {c, d} \in SUBSET Cells(size) /\ {c, d} # {}
    BY <2>1
  <2>3. b \in Placed(size[1], size[2]) /\ b.left < b.right /\ b.top < b.bottom
    BY <2>2, ChangeFound
  <2>4. a \in Placed(other[1], other[2])
    BY WholeAndNothing
  <2>5. a \in Placed(Across, Down) /\ b \in Placed(Across, Down)
    BY <2>3, <2>4, PlacedWider
  <2> HIDE DEF b
  <2>6. /\ r \in Placed(Across, Down)
        /\ r.left <= b.left /\ r.top <= b.top /\ b.right <= r.right /\ b.bottom <= r.bottom
        /\ r.right % 4 = 0 /\ r.bottom % 2 = 0
        /\ (r.right < a.right + 4 \/ r.right < b.right + 4)
        /\ (r.bottom < a.bottom + 2 \/ r.bottom < b.bottom + 2)
    <3>1. r = Combined(a, b)
      BY <1>2 DEF b
    <3> QED
      BY <2>5, <3>1, CombinedHolds
  <2>7. /\ a.right \in Nat /\ a.right <= w /\ b.right \in Nat /\ b.right <= w
        /\ a.bottom \in Nat /\ a.bottom <= h /\ b.bottom \in Nat /\ b.bottom <= h
        /\ b.left \in Nat /\ b.top \in Nat
    BY <2>3, <2>4 DEF Placed, Sizes
  <2>8. r.left \in Nat /\ r.top \in Nat /\ r.right \in Nat /\ r.bottom \in Nat
        /\ r \in [left : Nat, top : Nat, right : Nat, bottom : Nat]
    BY <2>6 DEF Placed
  <2>9. r.right < w + 4 /\ r.bottom < h + 2
    BY <2>6, <2>7, <2>8
  <2>10. r.right <= w /\ r.bottom <= h
    BY <2>6, <2>8, <2>9
  <2>11. r.left < r.right /\ r.top < r.bottom
    BY <2>3, <2>6, <2>7, <2>8
  <2>12. r.left <= w /\ r.top <= h /\ r.left <= r.right /\ r.top <= r.bottom
    BY <2>8, <2>10, <2>11
  <2> QED
    BY <2>8, <2>10, <2>12 DEF Placed
<1>3. r # Full(other) =>
        \E a \in {Full(other), Clear(other)}, c, d \in Corners(size) :
            r = Combined(a, ChangedRect({c, d}))
  <2> DEFINE A == {Full(other), Clear(other)}
             C == Corners(size)
             F(a, c, d) == Combined(a, ChangedRect({c, d}))
  <2>1. BlocksSince(other, size) = {Full(other)} \cup {F(a, c, d) : a \in A, c, d \in C}
    BY DEF BlocksSince
  <2> HIDE DEF A, C, F
  <2>2. r # Full(other) => \E a \in A, c, d \in C : r = F(a, c, d)
    BY <2>1
  <2> QED
    BY <2>2 DEF A, C, F
<1> QED
  BY <1>1, <1>2, <1>3

\* What the eight bytes say is read back, for coordinates of 12 bits.
LEMMA HeaderRead ==
    ASSUME NEW r \in Placed(Across, Down), r.left <= r.right, r.top <= r.bottom
    PROVE  HeaderRect(Header(r)) = r
<1> DEFINE x == r.left
           y == r.top
           w == r.right - r.left
           h == r.bottom - r.top
<1>1. /\ x \in Nat /\ y \in Nat /\ w \in Nat /\ h \in Nat
      /\ x < Bits /\ y < Bits /\ w < Bits /\ h < Bits
      /\ x + w = r.right /\ y + h = r.bottom
      /\ r = [left |-> x, top |-> y, right |-> r.right, bottom |-> r.bottom]
  BY DEF Placed, Across, Down, Bits
<1> DEFINE b == Header(r)
<1>2. /\ b[3] = (x % 4096) \div 16 /\ b[4] = 16 * (x % 16) + ((y % 4096) \div 256)
      /\ b[5] = y % 256
      /\ b[6] = (w % 4096) \div 16 /\ b[7] = 16 * (w % 16) + ((h % 4096) \div 256)
      /\ b[8] = h % 256
  BY DEF Header, Width, Lines
<1> HIDE DEF x, y, w, h, b
<1>3. x % 4096 = x /\ y % 4096 = y /\ w % 4096 = w /\ h % 4096 = h
  BY <1>1 DEF Bits
<1>4. y \div 256 \in Nat /\ y \div 256 < 16 /\ h \div 256 \in Nat /\ h \div 256 < 16
  BY <1>1 DEF Bits
<1>5. \A u, v \in Nat : v < 16 => (16 * u + v) \div 16 = u /\ (16 * u + v) % 16 = v
  OBVIOUS
<1>6. x % 16 \in Nat /\ w % 16 \in Nat
  BY <1>1
<1>7. b[4] \div 16 = x % 16 /\ b[4] % 16 = y \div 256
  BY <1>2, <1>3, <1>4, <1>5, <1>6
<1>8. b[7] \div 16 = w % 16 /\ b[7] % 16 = h \div 256
  BY <1>2, <1>3, <1>4, <1>5, <1>6
<1>9. /\ 16 * (x \div 16) + (x % 16) = x /\ 256 * (y \div 256) + (y % 256) = y
      /\ 16 * (w \div 16) + (w % 16) = w /\ 256 * (h \div 256) + (h % 256) = h
  BY <1>1
<1>10. /\ 16 * b[3] + (b[4] \div 16) = x /\ 256 * (b[4] % 16) + b[5] = y
       /\ 16 * b[6] + (b[7] \div 16) = w /\ 256 * (b[7] % 16) + b[8] = h
  BY <1>2, <1>3, <1>7, <1>8, <1>9
<1>11. /\ (x + (16 * b[6])) + (b[7] \div 16) = x + w
       /\ (y + (256 * (b[7] % 16))) + b[8] = y + h
  <2>1. /\ b[6] \in Int /\ b[8] \in Int /\ b[7] \div 16 \in Int /\ b[7] % 16 \in Int
    BY <1>1, <1>2, <1>3, <1>4, <1>6, <1>8
  <2> QED
    BY <1>1, <1>10, <2>1
<1>12. HeaderRect(b) = [left |-> x, top |-> y, right |-> x + w, bottom |-> y + h]
  BY <1>10, <1>11 DEF HeaderRect
<1> QED
  BY <1>1, <1>12 DEF b

\* A product is no larger than the product of the bounds of what it is made of.
LEMMA Product ==
    \A a, b, m, n \in Nat : a <= m /\ b <= n => a * b <= m * n
<1> SUFFICES ASSUME NEW a \in Nat, NEW b \in Nat, NEW m \in Nat, NEW n \in Nat,
                    a <= m, b <= n
             PROVE  a * b <= m * n
  OBVIOUS
<1>1. a * b <= a * n
  OBVIOUS
<1>2. a * n <= m * n
  OBVIOUS
<1>3. a * b \in Int /\ a * n \in Int /\ m * n \in Int
  OBVIOUS
<1> QED
  BY <1>1, <1>2, <1>3

LEMMA ModeSizes ==
    \A m \in Modes : /\ m \in Sizes /\ m[1] > 1 /\ m[2] > 1
                     /\ m[1] \in Nat /\ m[1] <= 1920 /\ m[2] \in Nat /\ m[2] <= 1080
                     /\ (m[1] # 1366 => m[1] % 4 = 0) /\ m[2] % 2 = 0
<1> SUFFICES ASSUME NEW m \in Modes
             PROVE  /\ m \in Sizes /\ m[1] > 1 /\ m[2] > 1
                    /\ m[1] \in Nat /\ m[1] <= 1920 /\ m[2] \in Nat /\ m[2] <= 1080
                    /\ (m[1] # 1366 => m[1] % 4 = 0) /\ m[2] % 2 = 0
  OBVIOUS
<1>1. /\ m \in Nat \X Nat
      /\ 0 < m[1] /\ m[1] <= 1920 /\ (m[1] % 4 = 0 \/ m[1] = 1366)
      /\ 0 < m[2] /\ m[2] <= 1080 /\ m[2] % 2 = 0
  BY ScreenAssumption
<1>2. m[1] \in Nat /\ m[2] \in Nat
  BY <1>1
<1>3. m[1] > 1 /\ m[2] > 1
  BY <1>1, <1>2
<1> QED
  BY <1>1, <1>2, <1>3 DEF Sizes, Across, Down

LEMMA ScreenSize == Screen \in Sizes
BY ScreenAssumption DEF Sizes, Across, Down

\* Any block the chip is sent, of a mode that may have followed another, keeps within
\* the largest mode: its header says where it is, and it fits both buffers.
LEMMA BlocksDoFit == BlocksFit
<1> SUFFICES ASSUME NEW other \in Modes, NEW size \in Modes, NEW r \in BlocksSince(other, size)
             PROVE  /\ HeaderRect(Header(r)) = r
                    /\ BlockLength(r) <= BufferSize
                    /\ \A stride \in {other, size} : 4 * (LastRead(stride, r) + 1) <= BufferSize
  BY DEF BlocksFit
<1>1. r \in Placed(1920, 1080) /\ r.left <= r.right /\ r.top <= r.bottom
  <2> DEFINE W == 1920
             H == 1080
  <2>1. /\ W \in Nat /\ W <= Across /\ W % 4 = 0 /\ H \in Nat /\ H <= Down /\ H % 2 = 0
    BY DEF Across, Down
  <2>2. /\ other \in Sizes /\ size \in Sizes /\ size[1] > 1 /\ size[2] > 1
        /\ other[1] <= W /\ size[1] <= W /\ other[2] <= H /\ size[2] <= H
    BY ModeSizes
  <2> HIDE DEF W, H
  <2>3. r \in Placed(W, H) /\ r.left <= r.right /\ r.top <= r.bottom
    BY <2>1, <2>2, BlockPlaced
  <2> QED
    BY <2>3 DEF W, H
<1>2. /\ r.left \in Nat /\ r.top \in Nat /\ r.right \in Nat /\ r.bottom \in Nat
      /\ r.right <= 1920 /\ r.bottom <= 1080
      /\ r \in Placed(Across, Down)
  BY <1>1 DEF Placed, Across, Down
<1>3. HeaderRect(Header(r)) = r
  BY <1>1, <1>2, HeaderRead
<1>4. BlockLength(r) <= BufferSize
  <2> DEFINE w == r.right - r.left
             h == r.bottom - r.top
  <2>1. w \in Nat /\ h \in Nat /\ w <= 1920 /\ h <= 1080
    BY <1>1, <1>2
  <2>2. BlockLength(r) = w * h * 2 + 16
    BY DEF BlockLength, Width, Lines
  <2> HIDE DEF w, h
  <2>3. w * h <= 1920 * 1080 /\ w * h \in Int
    BY <2>1, Product
  <2> QED
    BY <2>2, <2>3 DEF BufferSize
<1>5. ASSUME NEW stride \in {other, size}
      PROVE  4 * (LastRead(stride, r) + 1) <= BufferSize
  <2> DEFINE s == stride[1]
             b == r.bottom
             e == r.right
  <2>1. s \in Nat /\ s <= 1920
    BY ModeSizes
  <2>2. LastRead(stride, r) = ((b - 1) * s) + (e - 1)
    BY DEF LastRead
  <2>3. b \in Nat /\ b <= 1080 /\ e \in Nat /\ e <= 1920
    BY <1>2
  <2> HIDE DEF s, b, e
  <2>4. (b - 1) * s <= 1079 * 1920 /\ (b - 1) * s \in Int
    <3>1. CASE b = 0
      BY <2>1, <3>1
    <3>2. CASE b # 0
      <4>1. b - 1 \in Nat /\ b - 1 <= 1079
        BY <2>3, <3>2
      <4> QED
        BY <2>1, <4>1, Product
    <3> QED
      BY <3>1, <3>2
  <2> DEFINE p == (b - 1) * s
  <2> HIDE DEF p
  <2>5. LastRead(stride, r) = p + (e - 1) /\ p <= 1079 * 1920 /\ p \in Int
    BY <2>2, <2>4 DEF p
  <2> QED
    BY <2>3, <2>5 DEF BufferSize
<1> QED
  BY <1>3, <1>4, <1>5

\* With one mode a block leaves the picture only on the right, and only of 1366 pixels.
LEMMA BlocksStay == BlocksInPicture
<1> SUFFICES ASSUME NEW size \in Modes, NEW r \in BlocksSince(size, size)
             PROVE  r.bottom <= size[2] /\ (size[1] # 1366 => r.right <= size[1])
  BY DEF BlocksInPicture
<1> DEFINE w == size[1]
           h == size[2]
<1>1. /\ size \in Sizes /\ w > 1 /\ h > 1
      /\ w \in Nat /\ w <= 1920 /\ h \in Nat /\ h <= 1080
      /\ (w # 1366 => w % 4 = 0) /\ h % 2 = 0
  BY ModeSizes
<1>2. w <= Across /\ h <= Down
  BY <1>1 DEF Across, Down
<1>3. ASSUME NEW x \in Nat, x <= Across, w <= x, x % 4 = 0
      PROVE  r \in Placed(x, h)
  <2>1. h <= h
    BY <1>1
  <2> QED
    BY <1>1, <1>2, <1>3, <2>1, BlockPlaced
<1>4. r.bottom <= h
  <2> DEFINE W == 1920
  <2>1. W \in Nat /\ W <= Across /\ w <= W /\ W % 4 = 0
    BY <1>1 DEF Across
  <2> HIDE DEF W
  <2>2. r \in Placed(W, h)
    BY <1>3, <2>1
  <2> QED
    BY <2>2 DEF Placed
<1>5. ASSUME w # 1366 PROVE r.right <= w
  <2>1. w \in Nat /\ w <= Across /\ w <= w /\ w % 4 = 0
    BY <1>1, <1>2, <1>5
  <2>2. r \in Placed(w, h)
    BY <1>3, <2>1
  <2> QED
    BY <2>2 DEF Placed
<1> QED
  BY <1>4, <1>5

\* Whatever is on its way to the chip, every pixel that changed is in the rectangle its
\* buffer keeps, the header says which pixels the block holds, and packing the block
\* leaves neither buffer: for a picture of any size the masks leave room for, and for
\* any modes not larger than 1920x1080.
THEOREM BlocksAreRight == Spec => []BlocksRight
<1>1. BlocksRight
  BY ScreenSize, ChangesAreTaken, BlocksDoFit, BlocksStay DEF BlocksRight
<1> QED
  BY <1>1, PTL
=============================================================================
