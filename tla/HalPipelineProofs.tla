------------------------- MODULE HalPipelineProofs -------------------------
(* Proofs about HalPipeline, for every set of modes and every bound. *)
EXTENDS HalPipeline, SequenceTheorems, TLAPS

-----------------------------------------------------------------------------
(* What appending to the fifo and reading its head do to the three            *)
(* characterisations of what the sender will come to.                      *)

\* What the code hands to kfifo_in: an event with its own parameters.
Whole == {e \in Event : e.type # "junk" /\ e.mode # JunkMode}

\* The events the code posts are whole, and all the fifo may hold are events.
LEMMA EventTyped ==
    /\ \A m \in Modes \cup {NoMode} : EnableEvent(m) \in Whole
    /\ DisableEvent \in Whole
    /\ UpdateEvent \in Whole
    /\ Whole \subseteq Event
    /\ \A e \in Whole : Fragment(e) \in Event /\ ~IsJunk(Fragment(e))
    /\ \A e \in Whole : ~IsFragment(e) /\ ~IsJunk(e)
    /\ Junk \in Event /\ IsJunk(Junk)
<1>1. /\ \A m \in Modes \cup {NoMode} : EnableEvent(m) \in Whole
      /\ DisableEvent \in Whole
      /\ UpdateEvent \in Whole
  BY PipelineAssumption DEF EnableEvent, DisableEvent, UpdateEvent, Whole, Event, EventTypes
<1>2. /\ \A e \in Whole : Fragment(e) \in Event /\ ~IsJunk(Fragment(e))
      /\ \A e \in Whole : ~IsFragment(e) /\ ~IsJunk(e)
  BY DEF Whole, Event, Fragment, IsFragment, IsJunk
<1>3. Junk \in Event /\ IsJunk(Junk)
  BY DEF Junk, Event, IsJunk
<1> QED
  BY <1>1, <1>2, <1>3 DEF Whole

\* A DISABLE at the end turns everything off.
LEMMA AppendDisableOff ==
    ASSUME NEW q \in Seq(Event), NEW on \in BOOLEAN
    PROVE  EndsOff(Append(q, DisableEvent), on)
<1> DEFINE r == Append(q, DisableEvent)
<1>1. /\ DOMAIN r = 1..Len(q) + 1
      /\ r[Len(q) + 1] = DisableEvent
      /\ DOMAIN q = 1..Len(q) /\ Len(q) \in Nat
      /\ \A i \in DOMAIN q : r[i] = q[i]
  BY EventTyped
<1>2. DisableEvent.type = "disable"
  BY DEF DisableEvent
<1>3. Len(q) + 1 \in DOMAIN r /\ r[Len(q) + 1].type = "disable"
  BY <1>1, <1>2
<1>4. ASSUME NEW i \in DOMAIN r, r[i].type = "enable"
      PROVE  \E j \in DOMAIN r : j > i /\ r[j].type = "disable"
  BY <1>1, <1>3, <1>4
<1> QED
  BY <1>3, <1>4 DEF EndsOff

\* An ENABLE at the end turns it on.
LEMMA AppendEnableOn ==
    ASSUME NEW q \in Seq(Event), NEW on \in BOOLEAN,
           NEW m \in Modes \cup {NoMode}
    PROVE  EndsOn(Append(q, EnableEvent(m)), on)
<1> DEFINE r == Append(q, EnableEvent(m))
<1>1. /\ DOMAIN r = 1..Len(q) + 1
      /\ r[Len(q) + 1] = EnableEvent(m)
      /\ DOMAIN q = 1..Len(q) /\ Len(q) \in Nat
      /\ \A i \in DOMAIN q : r[i] = q[i]
  BY EventTyped
<1>2. EnableEvent(m).type = "enable"
  BY DEF EnableEvent
<1>3. Len(q) + 1 \in DOMAIN r /\ r[Len(q) + 1].type = "enable"
  BY <1>1, <1>2
<1>4. ASSUME NEW i \in DOMAIN r, r[i].type = "disable"
      PROVE  \E j \in DOMAIN r : j > i /\ r[j].type = "enable"
  BY <1>1, <1>3, <1>4
<1> QED
  BY <1>3, <1>4 DEF EndsOn

\* ... and in mode m if everything pending already comes to m.
LEMMA AppendEnableIn ==
    ASSUME NEW q \in Seq(Event), NEW on \in BOOLEAN, NEW now,
           NEW m \in Modes \cup {NoMode},
           EndsIn(q, on, now, m)
    PROVE  EndsIn(Append(q, EnableEvent(m)), on, now, m)
<1> DEFINE r == Append(q, EnableEvent(m))
<1>1. /\ DOMAIN r = 1..Len(q) + 1
      /\ r[Len(q) + 1] = EnableEvent(m)
      /\ DOMAIN q = 1..Len(q) /\ Len(q) \in Nat
      /\ \A i \in DOMAIN q : r[i] = q[i]
  BY EventTyped
<1>2. EnableEvent(m).type = "enable" /\ EnableEvent(m).mode = m
  BY DEF EnableEvent
<1>3. ASSUME on, \A j \in DOMAIN r : r[j].type # "disable"
      PROVE  now = m
  <2>1. \A j \in DOMAIN q : q[j].type # "disable"
    BY <1>1, <1>3
  <2> QED
    BY <1>3, <2>1 DEF EndsIn
<1>4. ASSUME NEW i \in DOMAIN r, r[i].type = "enable",
             \A j \in DOMAIN r : j > i => r[j].type # "disable"
      PROVE  r[i].mode = m
  <2>1. CASE i = Len(q) + 1
    BY <2>1, <1>1, <1>2
  <2>2. CASE i \in DOMAIN q
    <3>1. q[i].type = "enable"
      BY <2>2, <1>1, <1>4
    <3>2. \A j \in DOMAIN q : j > i => q[j].type # "disable"
      BY <1>1, <1>4
    <3> QED
      BY <2>2, <3>1, <3>2, <1>1 DEF EndsIn
  <2> QED
    BY <2>1, <2>2, <1>1
<1> QED
  BY <1>3, <1>4 DEF EndsIn

\* What comes to off has no mode to come to.
LEMMA OffIn ==
    ASSUME NEW q, NEW on \in BOOLEAN, NEW now, NEW m, EndsOff(q, on)
    PROVE  EndsIn(q, on, now, m)
BY DEF EndsOff, EndsIn

\* UPDATE changes none of the three.
LEMMA AppendUpdate ==
    ASSUME NEW q \in Seq(Event), NEW on \in BOOLEAN, NEW now, NEW m
    PROVE  LET r == Append(q, UpdateEvent)
           IN  /\ EndsOff(q, on) => EndsOff(r, on)
               /\ EndsOn(q, on) => EndsOn(r, on)
               /\ EndsIn(q, on, now, m) => EndsIn(r, on, now, m)
               /\ (\A i \in DOMAIN q : q[i].type = "update")
                    => \A i \in DOMAIN r : r[i].type = "update"
<1> DEFINE r == Append(q, UpdateEvent)
<1>1. /\ DOMAIN r = 1..Len(q) + 1
      /\ r[Len(q) + 1] = UpdateEvent
      /\ DOMAIN q = 1..Len(q) /\ Len(q) \in Nat
      /\ \A i \in DOMAIN q : r[i] = q[i]
  BY EventTyped
<1>2. UpdateEvent.type = "update"
  BY DEF UpdateEvent
<1>3. /\ DOMAIN q \subseteq DOMAIN r
      /\ \A i \in DOMAIN r : i \in DOMAIN q \/ r[i].type = "update"
      /\ \A i \in DOMAIN q : r[i] = q[i]
  BY <1>1, <1>2
<1>4. EndsOff(q, on) => EndsOff(r, on)
  BY <1>3 DEF EndsOff
<1>5. EndsOn(q, on) => EndsOn(r, on)
  BY <1>3 DEF EndsOn
<1>6. EndsIn(q, on, now, m) => EndsIn(r, on, now, m)
  BY <1>3 DEF EndsIn
<1>7. (\A i \in DOMAIN q : q[i].type = "update")
        => \A i \in DOMAIN r : r[i].type = "update"
  BY <1>3
<1> QED
  BY <1>4, <1>5, <1>6, <1>7

\* Reading the head as the sender does keeps all three for the rest.
LEMMA ReadHead ==
    ASSUME NEW q \in Seq(Event), q # <<>>,
           NEW on \in BOOLEAN, NEW on2 \in BOOLEAN, NEW now, NEW now2, NEW m,
           Head(q).type \in EventTypes,
           Head(q).type = "update" => on2 = on,
           Head(q).type = "disable" => ~on2,
           Head(q).type = "enable" => on2,
           on /\ on2 => now2 = now,
           ~on /\ on2 => now2 = Head(q).mode
    PROVE  /\ EndsOff(q, on) => EndsOff(Tail(q), on2)
           /\ EndsOn(q, on) => EndsOn(Tail(q), on2)
           /\ EndsIn(q, on, now, m) => EndsIn(Tail(q), on2, now2, m)
           /\ (\A i \in DOMAIN q : q[i].type = "update")
                => \A i \in DOMAIN Tail(q) : Tail(q)[i].type = "update"
<1> DEFINE r == Tail(q)
<1>1. /\ DOMAIN q = 1..Len(q) /\ Len(q) \in Nat \ {0}
      /\ DOMAIN r = 1..Len(q) - 1
      /\ \A i \in DOMAIN r : r[i] = q[i + 1]
      /\ Head(q) = q[1]
      /\ q[1] \in Event
  OBVIOUS
<1>2. q[1].type \in {"enable", "disable", "update"}
  BY <1>1 DEF EventTypes
<1>3. /\ \A i \in DOMAIN r : i + 1 \in DOMAIN q /\ r[i] = q[i + 1]
      /\ \A i \in DOMAIN q : i # 1 => i - 1 \in DOMAIN r /\ r[i - 1] = q[i]
      /\ \A i \in DOMAIN q : i \in Nat /\ i >= 1
      /\ \A i \in DOMAIN r : i \in Nat
      /\ 1 \in DOMAIN q
  BY <1>1
<1> HIDE DEF r
<1>4. EndsOff(q, on) => EndsOff(r, on2)
  <2> SUFFICES ASSUME EndsOff(q, on) PROVE EndsOff(r, on2)
    OBVIOUS
  <2>1. ASSUME on2 PROVE \E j \in DOMAIN r : r[j].type = "disable"
    <3>1. PICK j \in DOMAIN q : q[j].type = "disable" /\ j # 1
      BY <2>1, <1>1, <1>2, <1>3 DEF EndsOff
    <3> QED
      BY <3>1, <1>3
  <2>2. ASSUME NEW i \in DOMAIN r, r[i].type = "enable"
        PROVE  \E j \in DOMAIN r : j > i /\ r[j].type = "disable"
    <3>1. PICK j \in DOMAIN q : j > i + 1 /\ q[j].type = "disable"
      BY <2>2, <1>3 DEF EndsOff
    <3>2. j - 1 \in DOMAIN r /\ j - 1 > i /\ r[j - 1].type = "disable"
      BY <3>1, <1>3
    <3> QED
      BY <3>2
  <2> QED
    BY <2>1, <2>2 DEF EndsOff
<1>5. EndsOn(q, on) => EndsOn(r, on2)
  <2> SUFFICES ASSUME EndsOn(q, on) PROVE EndsOn(r, on2)
    OBVIOUS
  <2>1. ASSUME ~on2 PROVE \E j \in DOMAIN r : r[j].type = "enable"
    <3>1. PICK j \in DOMAIN q : q[j].type = "enable" /\ j # 1
      BY <2>1, <1>1, <1>2, <1>3 DEF EndsOn
    <3> QED
      BY <3>1, <1>3
  <2>2. ASSUME NEW i \in DOMAIN r, r[i].type = "disable"
        PROVE  \E j \in DOMAIN r : j > i /\ r[j].type = "enable"
    <3>1. PICK j \in DOMAIN q : j > i + 1 /\ q[j].type = "enable"
      BY <2>2, <1>3 DEF EndsOn
    <3>2. j - 1 \in DOMAIN r /\ j - 1 > i /\ r[j - 1].type = "enable"
      BY <3>1, <1>3
    <3> QED
      BY <3>2
  <2> QED
    BY <2>1, <2>2 DEF EndsOn
<1>6. EndsIn(q, on, now, m) => EndsIn(r, on2, now2, m)
  <2> SUFFICES ASSUME EndsIn(q, on, now, m) PROVE EndsIn(r, on2, now2, m)
    OBVIOUS
  <2>1. ASSUME on2, \A j \in DOMAIN r : r[j].type # "disable"
        PROVE  now2 = m
    <3>1. \A j \in DOMAIN q : q[j].type # "disable"
      BY <2>1, <1>1, <1>3
    <3>2. CASE on
      BY <2>1, <3>1, <3>2 DEF EndsIn
    <3>3. CASE ~on
      <4>1. q[1].type = "enable"
        BY <3>1, <3>3, <2>1, <1>1, <1>2
      <4> QED
        BY <4>1, <3>1, <3>3, <2>1, <1>1, <1>3 DEF EndsIn
    <3> QED
      BY <3>2, <3>3
  <2>2. ASSUME NEW i \in DOMAIN r, r[i].type = "enable",
               \A j \in DOMAIN r : j > i => r[j].type # "disable"
        PROVE  r[i].mode = m
    <3>1. \A j \in DOMAIN q : j > i + 1 => q[j].type # "disable"
      <4> SUFFICES ASSUME NEW j \in DOMAIN q, j > i + 1
                   PROVE  q[j].type # "disable"
        OBVIOUS
      <4>1. j - 1 \in DOMAIN r /\ j - 1 > i /\ r[j - 1] = q[j]
        BY <1>3
      <4> QED
        BY <4>1, <2>2
    <3> QED
      BY <3>1, <2>2, <1>3 DEF EndsIn
  <2> QED
    BY <2>1, <2>2 DEF EndsIn
<1>7. (\A i \in DOMAIN q : q[i].type = "update")
        => \A i \in DOMAIN r : r[i].type = "update"
  BY <1>3
<1> QED
  BY <1>4, <1>5, <1>6, <1>7 DEF r
-----------------------------------------------------------------------------
(* Type correctness.                                                       *)

\* Posting an event keeps the fifo, the semaphore and the history in type.
LEMMA PostTyped ==
    ASSUME TypeOK, NEW e \in Whole, NEW extra \in SUBSET Mishaps, Post(e, extra)
    PROVE  /\ fifo' \in Seq(Event)
           /\ sema' \in Nat
           /\ mishap' \subseteq Mishaps
           /\ torn' \in BOOLEAN
<1>1. fifo \in Seq(Event) /\ sema \in Nat /\ torn \in BOOLEAN /\ mishap \subseteq Mishaps
  BY DEF TypeOK, FlagsOK, ValuesOK
<1>2. fifo' \in Seq(Event)
  BY <1>1, EventTyped DEF Post, KfifoIn
<1> QED
  BY <1>1, <1>2 DEF Post, Mishaps

\* What writers that meet leave: Junk alone,
LEMMA JunkAlone ==
    ASSUME NEW n \in Nat
    PROVE  /\ Junks(n) \in Seq(Event)
           /\ Len(Junks(n)) = n /\ DOMAIN Junks(n) = 1..n
           /\ \A i \in 1..n : Junks(n)[i] = Junk
BY EventTyped DEF Junks

\* or Junk behind the whole records and one more.
LEMMA JunkTail ==
    ASSUME NEW q \in Seq(Event), NEW x \in Event, NEW n \in Nat
    PROVE  /\ q \o <<x>> \o Junks(n) \in Seq(Event)
           /\ Len(q \o <<x>> \o Junks(n)) = Len(q) + 1 + n
           /\ \A i \in 1..Len(q) + 1 + n :
                 i > Len(q) + 1 => IsJunk((q \o <<x>> \o Junks(n))[i])
           /\ \A i \in 1..Len(q) : (q \o <<x>> \o Junks(n))[i] = q[i]
<1> DEFINE r == Junks(n)
           w == q \o <<x>>
<1>1. r \in Seq(Event) /\ Len(r) = n /\ \A i \in 1..n : r[i] = Junk
  BY JunkAlone
<1>2. w \in Seq(Event) /\ Len(w) = Len(q) + 1 /\ Len(q) \in Nat
  OBVIOUS
<1>3. \A i \in 1..Len(q) : w[i] = q[i]
  OBVIOUS
<1> SUFFICES /\ w \o r \in Seq(Event) /\ Len(w \o r) = Len(q) + 1 + n
             /\ \A i \in 1..Len(q) + 1 + n : i > Len(q) + 1 => IsJunk((w \o r)[i])
             /\ \A i \in 1..Len(q) : (w \o r)[i] = q[i]
  OBVIOUS
<1> HIDE DEF r, w
<1> DEFINE p == w \o r
<1>4. /\ p \in Seq(Event) /\ Len(p) = Len(w) + Len(r)
      /\ \A i \in 1..Len(w) + Len(r) : p[i] = IF i <= Len(w) THEN w[i] ELSE r[i - Len(w)]
  BY <1>1, <1>2, ConcatProperties
<1> HIDE DEF p
<1>5. \A i \in 1..Len(q) : p[i] = q[i]
  BY <1>1, <1>2, <1>3, <1>4
<1>6. ASSUME NEW i \in 1..Len(q) + 1 + n, i > Len(q) + 1 PROVE IsJunk(p[i])
  <2>1. i - (Len(q) + 1) \in 1..n
    BY <1>2, <1>6
  <2>2. p[i] = r[i - (Len(q) + 1)]
    BY <1>1, <1>2, <1>4, <1>6
  <2> QED
    BY <1>1, <2>1, <2>2, EventTyped
<1> QED
  BY <1>1, <1>2, <1>4, <1>5, <1>6 DEF p

\* What a clash may leave in the fifo.
LEMMA ClashLeaves ==
    ASSUME TypeOK, NEW es \in Seq(Whole), es # <<>>, Clash(es)
    PROVE  \/ \E n \in Nat : fifo' = Junks(n)
           \/ \E x \in Event, n \in Nat :
                 /\ fifo' = fifo \o <<x>> \o Junks(n)
                 /\ ~Garbled /\ Len(fifo) + 1 + n <= FifoRecords
<1>1. PICK k \in 1..Len(es) :
          IF Garbled \/ Shifted \/ Len(fifo) + k > FifoRecords
          THEN fifo' = Junks(Len(fifo) + k)
          ELSE \E x \in Mixed(es) : fifo' = fifo \o <<x>> \o Junks(k - 1)
  BY DEF Clash
<1>2. Len(fifo) \in Nat /\ FifoRecords \in Nat /\ k \in Nat /\ k - 1 \in Nat
  BY PipelineAssumption DEF TypeOK, ValuesOK
<1>3. Mixed(es) \subseteq Event
  <2>1. \A i \in DOMAIN es : es[i] \in Event
    BY EventTyped
  <2> QED
    BY <2>1 DEF Mixed, Event
<1>4. CASE Garbled \/ Shifted \/ Len(fifo) + k > FifoRecords
  BY <1>1, <1>2, <1>4
<1>5. CASE ~(Garbled \/ Shifted \/ Len(fifo) + k > FifoRecords)
  <2>1. PICK x \in Event : fifo' = fifo \o <<x>> \o Junks(k - 1)
    BY <1>1, <1>3, <1>5
  <2>2. ~Garbled /\ Len(fifo) + 1 + (k - 1) <= FifoRecords
    BY <1>2, <1>5
  <2> QED
    BY <1>2, <2>1, <2>2
<1> QED
  BY <1>4, <1>5

\* So do posts at once.
LEMMA ClashTyped ==
    ASSUME TypeOK, NEW es \in Seq(Whole), es # <<>>, Clash(es)
    PROVE  /\ fifo' \in Seq(Event)
           /\ sema' \in Nat /\ sema' > 0
           /\ mishap' \subseteq Mishaps
           /\ torn' \in BOOLEAN
<1>1. fifo \in Seq(Event) /\ sema \in Nat /\ mishap \subseteq Mishaps
  BY DEF TypeOK, ValuesOK
<1>2. fifo' \in Seq(Event)
  <2>1. CASE \E n \in Nat : fifo' = Junks(n)
    <3>1. PICK n \in Nat : fifo' = Junks(n)
      BY <2>1
    <3> QED
      BY <3>1, JunkAlone
  <2>2. CASE \E x \in Event, n \in Nat : fifo' = fifo \o <<x>> \o Junks(n)
    <3>1. PICK x \in Event, n \in Nat : fifo' = fifo \o <<x>> \o Junks(n)
      BY <2>2
    <3> QED
      BY <1>1, <3>1, JunkTail
  <2> QED
    BY <2>1, <2>2, ClashLeaves
<1>3. Len(es) \in Nat \ {0} /\ sema' = sema + Len(es)
  BY DEF Clash
<1>4. torn' \in BOOLEAN /\ mishap' \subseteq Mishaps
  BY <1>1 DEF Clash, Mishaps
<1>5. sema' \in Nat /\ sema' > 0
  BY <1>1, <1>3
<1> QED
  BY <1>2, <1>4, <1>5

\* Queueing with or without the cursor's event, and with the register call's.
LEMMA QueueIs ==
    ASSUME NEW e \in Whole, NEW r \in Whole, NEW extra
    PROVE  /\ Queue(e, extra) =>
                 \/ Post(e, extra) /\ cursor' = cursor
                 \/ (\E es \in Seq(Whole) : es # <<>> /\ Clash(es)) /\ cursor' = "idle"
           /\ QueueBoth(e, r) =>
                 /\ \E es \in Seq(Whole) : es # <<>> /\ Clash(es)
                 /\ cursor' \in {cursor, "idle"}
<1>1. /\ <<e, UpdateEvent>> \in Seq(Whole) /\ <<e, UpdateEvent>> # <<>>
      /\ <<e, r>> \in Seq(Whole) /\ <<e, r>> # <<>>
      /\ <<e, r, UpdateEvent>> \in Seq(Whole) /\ <<e, r, UpdateEvent>> # <<>>
  BY EventTyped
<1>2. Queue(e, extra) =>
          \/ Post(e, extra) /\ cursor' = cursor
          \/ (\E es \in Seq(Whole) : es # <<>> /\ Clash(es)) /\ cursor' = "idle"
  <2>1. ASSUME Clash(<<e, UpdateEvent>>)
        PROVE  \E es \in Seq(Whole) : es # <<>> /\ Clash(es)
    BY <1>1, <2>1
  <2> QED
    BY <2>1 DEF Queue
<1>3. QueueBoth(e, r) => /\ \E es \in Seq(Whole) : es # <<>> /\ Clash(es)
                         /\ cursor' \in {cursor, "idle"}
  <2>1. ASSUME Clash(<<e, r>>) \/ Clash(<<e, r, UpdateEvent>>)
        PROVE  \E es \in Seq(Whole) : es # <<>> /\ Clash(es)
    BY <1>1, <2>1
  <2> QED
    BY <2>1 DEF QueueBoth
<1> QED
  BY <1>2, <1>3

\* Both in type.
LEMMA QueueTyped ==
    ASSUME TypeOK, NEW e \in Whole, NEW r \in Whole, NEW extra \in SUBSET Mishaps,
           Queue(e, extra) \/ QueueBoth(e, r)
    PROVE  /\ fifo' \in Seq(Event)
           /\ sema' \in Nat
           /\ mishap' \subseteq Mishaps
           /\ torn' \in BOOLEAN
           /\ cursor' \in {"idle", "posting"}
<1>1. cursor \in {"idle", "posting"}
  BY DEF TypeOK, ValuesOK
<1>2. CASE \E es \in Seq(Whole) : es # <<>> /\ Clash(es)
  <2>1. cursor' \in {"idle", "posting"}
    BY <1>1, QueueIs
  <2> QED
    BY <1>2, <2>1, ClashTyped
<1>3. CASE Post(e, extra) /\ cursor' = cursor
  BY <1>1, <1>3, PostTyped
<1> QED
  BY <1>2, <1>3, QueueIs

\* So does reading one.
LEMMA ReadTyped ==
    ASSUME TypeOK, ReadEvent
    PROVE  /\ fifo' \in Seq(Event)
           /\ torn' \in BOOLEAN
           /\ \A e \in Reads : e.mode \in Modes \cup {NoMode, JunkMode}
<1>1. fifo \in Seq(Event) /\ fifo # <<>> /\ fifo' = Tail(fifo)
  BY DEF TypeOK, ValuesOK, ReadEvent
<1>2. fifo' \in Seq(Event) /\ Head(fifo) \in Event
  BY <1>1
<1>3. torn' \in BOOLEAN
  BY DEF ReadEvent, ReadTorn, TypeOK, FlagsOK
<1>4. \A e \in Reads : e.mode \in Modes \cup {NoMode, JunkMode}
  BY <1>2 DEF Reads, Event
<1> QED
  BY <1>2, <1>3, <1>4

LEMMA InitTyped == Init => TypeOK
<1>1. Init => FlagsOK
  BY Zenon DEF Init, FlagsOK
<1>2. Init => ValuesOK
  BY PipelineAssumption DEF Init, ValuesOK, Mishaps
<1>3. Init => FifoFits
  BY PipelineAssumption DEF Init, FifoFits
<1> QED
  BY <1>1, <1>2, <1>3 DEF TypeOK

LEMMA ValuesStep ==
    ASSUME TypeOK, [Next]_vars
    PROVE  FlagsOK' /\ ValuesOK'
<1> USE PipelineAssumption
        DEF drmVars, usbVars, fifoVars, devVars, chipVars, threadVars, cursorVars
<1>1. ASSUME NEW m \in Modes, AtomicEnable(m) PROVE FlagsOK' /\ ValuesOK'
  <2>1. EnableEvent(m) \in Whole /\ {} \in SUBSET Mishaps
    BY EventTyped
  <2>2. CASE usbHal /\ m \in accepts
    <3>1. Queue(EnableEvent(m), {}) /\ halMode' = m
      BY <1>1, <2>2 DEF AtomicEnable
    <3>2. /\ fifo' \in Seq(Event) /\ sema' \in Nat /\ mishap' \subseteq Mishaps
          /\ torn' \in BOOLEAN /\ cursor' \in {"idle", "posting"}
      BY <3>1, <2>1, QueueTyped
    <3> QED
      BY <1>1, <3>1, <3>2 DEF AtomicEnable, TypeOK, FlagsOK, ValuesOK
  <2>3. CASE ~(usbHal /\ m \in accepts)
    BY <1>1, <2>3 DEF AtomicEnable, TypeOK, FlagsOK, ValuesOK
  <2> QED
    BY <2>2, <2>3
<1>2. CASE AtomicDisableMark
  BY <1>2 DEF AtomicDisableMark, TypeOK, FlagsOK, ValuesOK
<1>3. CASE AtomicDisableNotify
  <2> DEFINE extra == IF usb = "resuming" THEN {"raced"} ELSE {}
  <2>1. DisableEvent \in Whole /\ extra \in SUBSET Mishaps
    BY EventTyped DEF Mishaps
  <2>2. CASE usbHal
    <3>1. Queue(DisableEvent, extra)
      BY <1>3, <2>2 DEF AtomicDisableNotify
    <3> HIDE DEF extra
    <3>2. /\ fifo' \in Seq(Event) /\ sema' \in Nat /\ mishap' \subseteq Mishaps
          /\ torn' \in BOOLEAN /\ cursor' \in {"idle", "posting"}
      BY <3>1, <2>1, QueueTyped
    <3> QED
      BY <1>3, <3>2 DEF AtomicDisableNotify, TypeOK, FlagsOK, ValuesOK
  <2>3. CASE ~usbHal
    BY <1>3, <2>3 DEF AtomicDisableNotify, TypeOK, FlagsOK, ValuesOK
  <2> QED
    BY <2>2, <2>3
<1>4. CASE UpdateBegin
  BY <1>4 DEF UpdateBegin, TypeOK, FlagsOK, ValuesOK
<1>5. CASE UpdatePost
  <2>1. UpdateEvent \in Whole /\ {} \in SUBSET Mishaps
    BY EventTyped
  <2>2. Queue(UpdateEvent, {})
    BY <1>5 DEF UpdatePost
  <2>3. /\ fifo' \in Seq(Event) /\ sema' \in Nat /\ mishap' \subseteq Mishaps
        /\ torn' \in BOOLEAN /\ cursor' \in {"idle", "posting"}
    BY <2>1, <2>2, QueueTyped
  <2> QED
    BY <1>5, <2>3 DEF UpdatePost, TypeOK, FlagsOK, ValuesOK
<1>6. CASE CursorBegin
  BY <1>6 DEF CursorBegin, TypeOK, FlagsOK, ValuesOK
<1>7. CASE CursorPost
  <2>1. UpdateEvent \in Whole /\ {} \in SUBSET Mishaps /\ Post(UpdateEvent, {})
    BY <1>7, EventTyped DEF CursorPost
  <2>2. /\ fifo' \in Seq(Event) /\ sema' \in Nat /\ mishap' \subseteq Mishaps
        /\ torn' \in BOOLEAN
    BY <2>1, PostTyped
  <2> QED
    BY <1>7, <2>2 DEF CursorPost, TypeOK, FlagsOK, ValuesOK
<1>8. CASE CursorMove
  BY <1>8 DEF CursorMove, TypeOK, FlagsOK, ValuesOK
<1>9. CASE Probe
  <2>1. FlagsOK'
    BY <1>9, Zenon DEF Probe, TypeOK, FlagsOK
  <2>2. ValuesOK'
    BY <1>9 DEF Probe, TypeOK, ValuesOK, Mishaps
  <2> QED
    BY <2>1, <2>2
<1>10. CASE RegisterSet
  BY <1>10 DEF RegisterSet, TypeOK, FlagsOK, ValuesOK
<1>11. CASE RegisterRead
  BY <1>11 DEF RegisterRead, TypeOK, FlagsOK, ValuesOK
<1>12. CASE RegisterResume
  <2>1. ASSUME NEW m \in ModesRead \cap accepts, halMode' = m,
               Queue(EnableEvent(m), {})
        PROVE  FlagsOK' /\ ValuesOK'
    <3>1. m \in Modes
      BY DEF TypeOK, ValuesOK
    <3>2. EnableEvent(m) \in Whole /\ {} \in SUBSET Mishaps
      BY <3>1, EventTyped
    <3>3. /\ fifo' \in Seq(Event) /\ sema' \in Nat /\ mishap' \subseteq Mishaps
          /\ torn' \in BOOLEAN /\ cursor' \in {"idle", "posting"}
      BY <2>1, <3>2, QueueTyped
    <3> QED
      BY <1>12, <2>1, <3>1, <3>3 DEF RegisterResume, TypeOK, FlagsOK, ValuesOK
  <2>2. CASE UNCHANGED <<halMode, fifoVars, cursor, mishap>>
    BY <1>12, <2>2 DEF RegisterResume, TypeOK, FlagsOK, ValuesOK
  <2> QED
    BY <1>12, <2>1, <2>2 DEF RegisterResume
<1>13. CASE Unregister
  <2>1. FlagsOK'
    BY <1>13, Zenon DEF Unregister, TypeOK, FlagsOK
  <2>2. ValuesOK'
    BY <1>13 DEF Unregister, TypeOK, ValuesOK
  <2> QED
    BY <2>1, <2>2
<1>14. CASE Destroy
  <2>1. FlagsOK'
    BY <1>14, Zenon DEF Destroy, TypeOK, FlagsOK
  <2>2. ValuesOK'
    BY <1>14 DEF Destroy, TypeOK, ValuesOK
  <2> QED
    BY <2>1, <2>2
<1>15. CASE ThreadExit
  BY <1>15 DEF ThreadExit, TypeOK, FlagsOK, ValuesOK
<1>16. CASE Wake
  BY <1>16 DEF Wake, TypeOK, FlagsOK, ValuesOK
<1>17. CASE WaitTimeout
  BY <1>17 DEF WaitTimeout, TypeOK, FlagsOK, ValuesOK
<1>18. CASE DrainEnable
  <2>1. torn' \in BOOLEAN
    BY <1>18, ReadTyped DEF DrainEnable
  <2>2. FlagsOK'
    BY <1>18, <2>1, Zenon DEF DrainEnable, ReadEvent, DoEnable, TypeOK, FlagsOK
  <2>3. ValuesOK'
    <3>1. \/ faults' = faults /\ mishap' = mishap
          \/ faults < MaxFaults /\ faults' = faults + 1
             /\ mishap' = mishap \cup {"fault"}
      BY <1>18, Zenon DEF DrainEnable, DoEnable
    <3>2. PICK e \in Reads : devState' = "enabled" /\ chipMode' \in {chipMode, e.mode}
      BY <1>18 DEF DrainEnable, DoEnable
    <3>3. UNCHANGED <<drmVars, usbVars, sema, thread, age, halMode, cursorVars>>
      BY <1>18 DEF DrainEnable, ReadEvent
    <3>4. /\ fifo' \in Seq(Event)
          /\ chipMode' \in Modes \cup {NoMode, JunkMode}
      BY <1>18, <3>2, ReadTyped DEF DrainEnable, TypeOK, ValuesOK
    <3>5. faults' \in 0..MaxFaults
      BY <3>1 DEF TypeOK, ValuesOK
    <3>6. mishap' \subseteq Mishaps
      BY <3>1 DEF TypeOK, ValuesOK, Mishaps
    <3> QED
      BY <3>2, <3>3, <3>4, <3>5, <3>6 DEF TypeOK, ValuesOK
  <2> QED
    BY <2>2, <2>3
<1>19. CASE DrainDisable
  <2>1. torn' \in BOOLEAN
    BY <1>19, ReadTyped DEF DrainDisable
  <2>2. FlagsOK'
    BY <1>19, <2>1, Zenon DEF DrainDisable, ReadEvent, DoDisable, TypeOK, FlagsOK
  <2>3. ValuesOK'
    <3>1. \/ faults' = faults /\ mishap' = mishap
          \/ faults < MaxFaults /\ faults' = faults + 1
             /\ mishap' = mishap \cup {"fault"}
      BY <1>19, Zenon DEF DrainDisable, DoDisable
    <3>2. devState' = "disabled" /\ chipMode' \in {chipMode, NoMode}
      BY <1>19 DEF DrainDisable, DoDisable
    <3>3. UNCHANGED <<drmVars, usbVars, sema, thread, age, halMode, cursorVars>>
      BY <1>19 DEF DrainDisable, ReadEvent
    <3>4. fifo' \in Seq(Event)
      BY <1>19, ReadTyped DEF DrainDisable
    <3>5. faults' \in 0..MaxFaults
      BY <3>1 DEF TypeOK, ValuesOK
    <3>6. mishap' \subseteq Mishaps
      BY <3>1 DEF TypeOK, ValuesOK, Mishaps
    <3> QED
      BY <3>2, <3>3, <3>4, <3>5, <3>6 DEF TypeOK, ValuesOK
  <2> QED
    BY <2>2, <2>3
<1>20. CASE DrainUpdate
  <2>1. torn' \in BOOLEAN
    BY <1>20, ReadTyped DEF DrainUpdate
  <2>2. FlagsOK'
    BY <1>20, <2>1, Zenon DEF DrainUpdate, ReadEvent, TypeOK, FlagsOK
  <2>3. ValuesOK'
    BY <1>20, ReadTyped
       DEF DrainUpdate, ReadEvent, TypeOK, ValuesOK, Mishaps
  <2> QED
    BY <2>2, <2>3
<1>21. CASE DrainIgnore
  BY <1>21, ReadTyped DEF DrainIgnore, ReadEvent, TypeOK, FlagsOK, ValuesOK
<1>22. CASE DrainDone
  BY <1>22 DEF DrainDone, TypeOK, FlagsOK, ValuesOK
<1>23. CASE Decide
  <2>1. FlagsOK'
    BY <1>23, Zenon DEF Decide, TypeOK, FlagsOK
  <2>2. ValuesOK'
    BY <1>23 DEF Decide, TypeOK, ValuesOK
  <2> QED
    BY <2>1, <2>2
<1>24. CASE SendOk
  <2>1. FlagsOK'
    BY <1>24, Zenon DEF SendOk, TypeOK, FlagsOK
  <2>2. ValuesOK'
    <3>1. \/ faults' = faults /\ mishap' = mishap
          \/ faults < MaxFaults /\ faults' = faults + 1
             /\ mishap' = mishap \cup {"fault"}
      BY <1>24, Zenon DEF SendOk
    <3>2. /\ thread' = "wait" /\ age' = 0
          /\ UNCHANGED <<drmVars, usbVars, fifoVars, devState, chipMode, halMode,
                       cursorVars>>
      BY <1>24, Zenon DEF SendOk
    <3>3. faults' \in 0..MaxFaults
      BY <3>1 DEF TypeOK, ValuesOK
    <3>4. mishap' \subseteq Mishaps
      BY <3>1 DEF TypeOK, ValuesOK, Mishaps
    <3> QED
      BY <3>2, <3>3, <3>4 DEF TypeOK, ValuesOK
  <2> QED
    BY <2>1, <2>2
<1>25. CASE SendFail
  BY <1>25 DEF SendFail, TypeOK, FlagsOK, ValuesOK
<1>26. CASE SendUnchanged
  BY <1>26 DEF SendUnchanged, TypeOK, FlagsOK, ValuesOK
<1>27. CASE Tick
  BY <1>27 DEF Tick, TypeOK, FlagsOK, ValuesOK
<1>28. CASE UNCHANGED vars
  BY <1>28 DEF vars, TypeOK, FlagsOK, ValuesOK
<1>29. ASSUME NEW m \in Modes, OverlapEnable(m) PROVE FlagsOK' /\ ValuesOK'
  <2>1. PICK r \in accepts : halMode' \in {m, r} /\ QueueBoth(EnableEvent(m), EnableEvent(r))
    BY <1>29 DEF OverlapEnable
  <2>2. r \in Modes
    BY DEF TypeOK, ValuesOK
  <2>3. EnableEvent(m) \in Whole /\ EnableEvent(r) \in Whole /\ {} \in SUBSET Mishaps
    BY <2>2, EventTyped
  <2>4. /\ fifo' \in Seq(Event) /\ sema' \in Nat /\ mishap' \subseteq Mishaps
        /\ torn' \in BOOLEAN /\ cursor' \in {"idle", "posting"}
    BY <2>1, <2>3, QueueTyped
  <2> QED
    BY <1>29, <2>1, <2>2, <2>4 DEF OverlapEnable, TypeOK, FlagsOK, ValuesOK
<1>30. CASE OverlapEvent
  <2>1. PICK m \in ModesRead \cap accepts :
           /\ halMode' = m
           /\ QueueBoth(DisableEvent, EnableEvent(m)) \/ QueueBoth(UpdateEvent, EnableEvent(m))
    BY <1>30 DEF OverlapEvent
  <2>2. m \in Modes
    BY DEF TypeOK, ValuesOK
  <2>3. /\ EnableEvent(m) \in Whole /\ DisableEvent \in Whole /\ UpdateEvent \in Whole
        /\ {} \in SUBSET Mishaps
    BY <2>2, EventTyped
  <2>4. /\ fifo' \in Seq(Event) /\ sema' \in Nat /\ mishap' \subseteq Mishaps
        /\ torn' \in BOOLEAN /\ cursor' \in {"idle", "posting"}
    BY <2>1, <2>3, QueueTyped
  <2> QED
    BY <1>30, <2>1, <2>2, <2>4 DEF OverlapEvent, TypeOK, FlagsOK, ValuesOK
<1> QED
  BY <1>1, <1>2, <1>3, <1>4, <1>5, <1>8, <1>9, <1>10, <1>11, <1>12, <1>13,
     <1>14, <1>15, <1>16, <1>17, <1>18, <1>19, <1>20, <1>21, <1>22, <1>23,
     <1>24, <1>25, <1>26, <1>27, <1>28, <1>29, <1>30, <1>6, <1>7
     DEF Next, Commit, CommitEnd, Cursor, Register, Overlap, Sender

\* What any step may do to the fifo: nothing, one post, several at once, or a read.
LEMMA FifoStep ==
    ASSUME TypeOK, [Next]_vars
    PROVE  \/ UNCHANGED <<fifo, torn>>
           \/ \E e \in Whole, extra \in SUBSET Mishaps : Post(e, extra)
           \/ \E es \in Seq(Whole) : es # <<>> /\ Clash(es)
           \/ ReadEvent
<1> DEFINE Posts == \E e \in Whole, extra \in SUBSET Mishaps : Post(e, extra)
           Clashes == \E es \in Seq(Whole) : es # <<>> /\ Clash(es)
<1> USE DEF fifoVars
<1>1. ASSUME NEW e \in Whole, NEW r \in Whole, NEW extra \in SUBSET Mishaps,
             Queue(e, extra) \/ QueueBoth(e, r)
      PROVE  Posts \/ Clashes
  BY <1>1, QueueIs
<1> SUFFICES UNCHANGED <<fifo, torn>> \/ Posts \/ Clashes \/ ReadEvent
  BY DEF Posts, Clashes
<1> HIDE DEF Posts, Clashes
<1>2. {} \in SUBSET Mishaps /\ {"raced"} \in SUBSET Mishaps
      /\ DisableEvent \in Whole /\ UpdateEvent \in Whole
      /\ accepts \subseteq Modes
      /\ \A m \in Modes : EnableEvent(m) \in Whole
  BY EventTyped DEF Mishaps, TypeOK, ValuesOK
<1>3. ASSUME NEW m \in Modes, AtomicEnable(m)
      PROVE  UNCHANGED <<fifo, torn>> \/ Posts \/ Clashes
  <2>1. CASE usbHal /\ m \in accepts
    <3>1. Queue(EnableEvent(m), {})
      BY <1>3, <2>1 DEF AtomicEnable
    <3> QED
      BY <3>1, <1>1, <1>2
  <2>2. CASE ~(usbHal /\ m \in accepts)
    BY <1>3, <2>2 DEF AtomicEnable
  <2> QED
    BY <2>1, <2>2
<1>4. CASE AtomicDisableNotify
  <2> DEFINE extra == IF usb = "resuming" THEN {"raced"} ELSE {}
  <2>1. extra \in SUBSET Mishaps
    BY <1>2
  <2>2. CASE usbHal
    <3>1. Queue(DisableEvent, extra)
      BY <1>4, <2>2 DEF AtomicDisableNotify
    <3> HIDE DEF extra
    <3> QED
      BY <3>1, <2>1, <1>1, <1>2
  <2>3. CASE ~usbHal
    BY <1>4, <2>3 DEF AtomicDisableNotify
  <2> QED
    BY <2>2, <2>3
<1>5. CASE UpdatePost
  <2>1. Queue(UpdateEvent, {})
    BY <1>5 DEF UpdatePost
  <2> QED
    BY <2>1, <1>1, <1>2
<1>6. CASE CursorPost
  <2>1. Post(UpdateEvent, {})
    BY <1>6 DEF CursorPost
  <2> QED
    BY <2>1, <1>2 DEF Posts
<1>7. CASE RegisterResume
  <2>1. ASSUME NEW m \in ModesRead \cap accepts, Queue(EnableEvent(m), {})
        PROVE  Posts \/ Clashes
    <3>1. EnableEvent(m) \in Whole
      BY <1>2
    <3> QED
      BY <2>1, <3>1, <1>1, <1>2
  <2>2. CASE UNCHANGED fifoVars
    BY <2>2
  <2> QED
    BY <1>7, <2>1, <2>2 DEF RegisterResume
<1>8. ASSUME NEW m \in Modes, OverlapEnable(m) PROVE Posts \/ Clashes
  <2>1. PICK r \in accepts : QueueBoth(EnableEvent(m), EnableEvent(r))
    BY <1>8 DEF OverlapEnable
  <2>2. EnableEvent(r) \in Whole /\ EnableEvent(m) \in Whole
    BY <1>2
  <2> QED
    BY <2>1, <2>2, <1>1, <1>2
<1>9. CASE OverlapEvent
  <2>1. PICK m \in ModesRead \cap accepts : \/ QueueBoth(DisableEvent, EnableEvent(m))
                                            \/ QueueBoth(UpdateEvent, EnableEvent(m))
    BY <1>9 DEF OverlapEvent
  <2>2. EnableEvent(m) \in Whole
    BY <1>2
  <2> QED
    BY <2>1, <2>2, <1>1, <1>2
<1>10. CASE \/ AtomicDisableMark \/ UpdateBegin \/ CursorBegin \/ CursorMove
            \/ Probe \/ RegisterSet \/ RegisterRead \/ Unregister \/ Destroy
  BY <1>10 DEF AtomicDisableMark, UpdateBegin, CursorBegin, CursorMove,
               Probe, RegisterSet, RegisterRead, Unregister, Destroy
<1>11. CASE \/ ThreadExit \/ Wake \/ WaitTimeout \/ DrainDone \/ Decide
            \/ SendOk \/ SendFail \/ SendUnchanged \/ Tick
  BY <1>11, Zenon DEF ThreadExit, Wake, WaitTimeout, DrainDone, Decide, SendOk, SendFail,
               SendUnchanged, Tick
<1>12. CASE DrainEnable \/ DrainDisable \/ DrainUpdate \/ DrainIgnore
  BY <1>12 DEF DrainEnable, DrainDisable, DrainUpdate, DrainIgnore
<1>13. CASE UNCHANGED vars
  BY <1>13 DEF vars
<1> QED
  BY <1>3, <1>4, <1>5, <1>6, <1>7, <1>8, <1>9, <1>10, <1>11, <1>12, <1>13
     DEF Next, Commit, CommitEnd, Cursor, Register, Overlap, Sender

\* Junk stays at the end of the fifo, and only Junk is beyond its size.
LEMMA FitsStep ==
    ASSUME TypeOK, [Next]_vars
    PROVE  FifoFits'
<1>0. fifo \in Seq(Event) /\ Len(fifo) \in Nat /\ FifoRecords \in Nat /\ FifoFits
  BY PipelineAssumption DEF TypeOK, ValuesOK
<1>1. CASE UNCHANGED <<fifo, torn>>
  BY <1>0, <1>1 DEF FifoFits, Garbled
<1>2. ASSUME NEW e \in Whole, NEW extra, Post(e, extra)
      PROVE  FifoFits'
  <2>1. CASE Garbled
    <3>1. fifo' = Append(fifo, Junk)
      BY <1>2, <2>1 DEF Post, KfifoIn
    <3>2. /\ Len(fifo') = Len(fifo) + 1 /\ IsJunk(fifo'[Len(fifo) + 1])
          /\ DOMAIN fifo' = 1..Len(fifo) + 1 /\ DOMAIN fifo = 1..Len(fifo)
          /\ \A i \in DOMAIN fifo : fifo'[i] = fifo[i]
      BY <1>0, <3>1, EventTyped
    <3> QED
      BY <1>0, <3>2 DEF FifoFits, Garbled
  <2>2. CASE ~Garbled
    <3>1. \/ /\ Len(fifo) <= FifoRecords
             /\ \E x \in Event : ~IsJunk(x) /\ fifo' = Append(fifo, x)
          \/ Len(fifo) = FifoRecords + 1 /\ fifo' = fifo
      BY <1>0, <1>2, <2>2, EventTyped DEF Post, KfifoIn, FifoFits
    <3>2. ASSUME NEW x \in Event, ~IsJunk(x), fifo' = Append(fifo, x),
                 Len(fifo) <= FifoRecords
          PROVE  FifoFits'
      <4>1. /\ Len(fifo') = Len(fifo) + 1 /\ ~IsJunk(fifo'[Len(fifo) + 1])
            /\ DOMAIN fifo' = 1..Len(fifo) + 1 /\ DOMAIN fifo = 1..Len(fifo)
            /\ \A i \in DOMAIN fifo : fifo'[i] = fifo[i]
        BY <1>0, <3>2
      <4>2. \A i \in DOMAIN fifo' : ~IsJunk(fifo'[i])
        BY <1>0, <4>1, <2>2 DEF Garbled
      <4> QED
        BY <1>0, <4>1, <4>2, <3>2 DEF FifoFits
    <3>3. CASE fifo' = fifo
      BY <1>0, <3>3 DEF FifoFits, Garbled
    <3> QED
      BY <3>1, <3>2, <3>3
  <2> QED
    BY <2>1, <2>2
<1>3. ASSUME NEW es \in Seq(Whole), es # <<>>, Clash(es)
      PROVE  FifoFits'
  <2>1. ASSUME NEW n \in Nat, fifo' = Junks(n)
        PROVE  FifoFits'
    <3>1. DOMAIN fifo' = 1..n /\ Len(fifo') = n /\ \A i \in 1..n : IsJunk(fifo'[i])
      BY <2>1, JunkAlone, EventTyped
    <3>2. n = 0 \/ 1 \in DOMAIN fifo'
      BY <3>1
    <3> QED
      BY <1>0, <3>1, <3>2 DEF FifoFits, Garbled
  <2>2. ASSUME NEW x \in Event, NEW n \in Nat, fifo' = fifo \o <<x>> \o Junks(n),
               ~Garbled, Len(fifo) + 1 + n <= FifoRecords
        PROVE  FifoFits'
    <3> DEFINE left == fifo \o <<x>> \o Junks(n)
    <3>1. /\ left \in Seq(Event) /\ Len(left) = Len(fifo) + 1 + n
          /\ \A i \in 1..Len(fifo) + 1 + n : i > Len(fifo) + 1 => IsJunk(left[i])
          /\ \A i \in 1..Len(fifo) : left[i] = fifo[i]
      BY <1>0, JunkTail, Zenon
    <3>2. left = fifo'
      BY <2>2, Zenon
    <3> HIDE DEF left
    <3>3. /\ fifo' \in Seq(Event) /\ Len(fifo') = Len(fifo) + 1 + n
          /\ \A i \in 1..Len(fifo) + 1 + n : i > Len(fifo) + 1 => IsJunk(fifo'[i])
          /\ \A i \in 1..Len(fifo) : fifo'[i] = fifo[i]
      BY <3>1, <3>2
    <3>4. \A i \in 1..Len(fifo) : ~IsJunk(fifo'[i])
      BY <1>0, <3>3, <2>2 DEF Garbled
    <3>5. DOMAIN fifo' = 1..Len(fifo) + 1 + n /\ Len(fifo') <= FifoRecords + 1
      BY <1>0, <3>3, <2>2
    <3>6. ASSUME NEW i \in DOMAIN fifo', NEW j \in DOMAIN fifo', i < j, IsJunk(fifo'[i])
          PROVE  IsJunk(fifo'[j])
      <4>1. i > Len(fifo)
        BY <1>0, <3>4, <3>5, <3>6
      <4> QED
        BY <1>0, <4>1, <3>3, <3>5, <3>6
    <3> QED
      BY <3>5, <3>6 DEF FifoFits
  <2> QED
    BY <1>3, <2>1, <2>2, ClashLeaves
<1>4. CASE ReadEvent
  <2>1. fifo # <<>> /\ fifo' = Tail(fifo)
    BY <1>4 DEF ReadEvent
  <2>2. /\ Len(fifo') = Len(fifo) - 1 /\ DOMAIN fifo' = 1..Len(fifo) - 1
        /\ DOMAIN fifo = 1..Len(fifo)
        /\ \A i \in DOMAIN fifo' : i + 1 \in DOMAIN fifo /\ fifo'[i] = fifo[i + 1]
    BY <1>0, <2>1
  <2>3. \A i, j \in DOMAIN fifo' : i < j /\ IsJunk(fifo'[i]) => IsJunk(fifo'[j])
    BY <1>0, <2>2 DEF FifoFits
  <2>4. CASE ~Garbled
    BY <1>0, <2>2, <2>3, <2>4 DEF FifoFits
  <2>5. CASE Garbled /\ Len(fifo) = 1
    BY <1>0, <2>2, <2>3, <2>5 DEF FifoFits
  <2>6. CASE Garbled /\ Len(fifo) # 1
    <3>1. PICK i \in DOMAIN fifo : IsJunk(fifo[i])
      BY <2>6 DEF Garbled
    <3>2. IsJunk(fifo[Len(fifo)])
      BY <1>0, <2>2, <3>1 DEF FifoFits
    <3>3. Len(fifo) - 1 \in DOMAIN fifo' /\ IsJunk(fifo'[Len(fifo) - 1])
      BY <1>0, <2>1, <2>2, <2>6, <3>2
    <3> QED
      BY <2>3, <3>3 DEF FifoFits, Garbled
  <2> QED
    BY <2>4, <2>5, <2>6
<1> QED
  BY <1>1, <1>2, <1>3, <1>4, FifoStep

LEMMA TypeStep ==
    ASSUME TypeOK, [Next]_vars
    PROVE  TypeOK'
BY ValuesStep, FitsStep DEF TypeOK

\* Every variable stays in its type, whatever the modes and the bounds.
THEOREM TypeCorrect == Spec => []TypeOK
<1>1. TypeOK /\ [Next]_vars => TypeOK'
  BY TypeStep
<1> QED
  BY InitTyped, <1>1, PTL DEF Spec
-----------------------------------------------------------------------------
(* The parts of the inductive invariant.                                   *)

\* What every post that goes right does: the event is in the fifo whole.
LEMMA PostWhole ==
    ASSUME TypeOK, NEW e \in Whole, NEW extra, Post(e, extra)
    PROVE  /\ mishap \subseteq mishap'
           /\ "lost" \notin mishap' /\ ~Garbled => fifo' = Append(fifo, e)
           /\ mishap' = {} => mishap = {} /\ extra = {}
           /\ sema' > 0
<1>1. Len(fifo) \in Nat /\ sema \in Nat
  BY PipelineAssumption DEF TypeOK, ValuesOK
<1> QED
  BY <1>1 DEF Post, KfifoIn

\* A clash is remembered.
LEMMA ClashNoted ==
    ASSUME NEW es, Clash(es)
    PROVE  "clash" \in mishap' /\ mishap \subseteq mishap'
BY DEF Clash

\* What an event that is queued while nothing goes wrong does.
LEMMA QueueWhole ==
    ASSUME TypeOK, NEW e \in Whole, NEW extra, Queue(e, extra)
    PROVE  /\ mishap \subseteq mishap'
           /\ mishap' = {} => mishap = {} /\ extra = {}
           /\ mishap' = {} /\ ~Garbled => fifo' = Append(fifo, e)
<1>1. CASE Post(e, extra)
  <2>1. mishap' = {} => "lost" \notin mishap'
    OBVIOUS
  <2> QED
    BY <1>1, <2>1, PostWhole
<1>2. CASE Clash(<<e, UpdateEvent>>)
  <2>1. mishap \subseteq mishap' /\ mishap' # {}
    BY <1>2, ClashNoted
  <2> QED
    BY <2>1
<1> QED
  BY <1>1, <1>2 DEF Queue

\* The reader is out of step, or has bytes before it that nobody queued.
Misread == Shifted \/ Garbled

\* A whole event does not make it so, nor does reading one that is in step.
LEMMA PostAligned ==
    ASSUME TypeOK, NEW e \in Whole, NEW extra, Post(e, extra)
    PROVE  Misread' => Misread \/ "lost" \in mishap'
<1> SUFFICES ASSUME "lost" \notin mishap', Misread', ~Garbled PROVE Misread
  BY DEF Misread
<1>1. fifo' = Append(fifo, e) /\ torn' = torn /\ fifo \in Seq(Event) /\ e \in Event
  BY PostWhole, EventTyped DEF Post, TypeOK, ValuesOK
<1>2. ~IsFragment(e) /\ ~IsJunk(e)
  BY EventTyped
<1>3. ASSUME NEW i \in DOMAIN fifo'
      PROVE  /\ IsFragment(fifo'[i]) => i \in DOMAIN fifo /\ IsFragment(fifo[i])
             /\ IsJunk(fifo'[i]) => i \in DOMAIN fifo /\ IsJunk(fifo[i])
  BY <1>1, <1>2, <1>3
<1> QED
  BY <1>1, <1>3 DEF Misread, Shifted, Garbled

LEMMA ReadAligned ==
    ASSUME TypeOK, ReadEvent
    PROVE  Misread' => Misread
<1>1. fifo \in Seq(Event) /\ fifo # <<>> /\ fifo' = Tail(fifo)
      /\ torn' = ReadTorn
  BY DEF ReadEvent, TypeOK, ValuesOK
<1>2. 1 \in DOMAIN fifo /\ Head(fifo) = fifo[1]
  BY <1>1
<1>3. torn' => Shifted
  BY <1>1, <1>2 DEF ReadTorn, Shifted
<1>4. ASSUME NEW i \in DOMAIN fifo'
      PROVE  i + 1 \in DOMAIN fifo /\ fifo'[i] = fifo[i + 1]
  BY <1>1
<1> QED
  BY <1>3, <1>4 DEF Shifted, Garbled, Misread

LEMMA AttachStep ==
    ASSUME TypeOK, AttachPhases, [Next]_vars
    PROVE  AttachPhases'
<1> USE DEF AttachPhases, drmVars, usbVars, threadVars
<1>1. ASSUME NEW m \in Modes, AtomicEnable(m) PROVE AttachPhases'
  BY <1>1 DEF AtomicEnable
<1>2. CASE AtomicDisableMark \/ AtomicDisableNotify \/ UpdateBegin \/ UpdatePost
           \/ CursorBegin \/ CursorPost \/ CursorMove
  BY <1>2 DEF AtomicDisableMark, AtomicDisableNotify, UpdateBegin, UpdatePost,
              CursorBegin, CursorPost, CursorMove
<1>3. CASE Probe
  BY <1>3 DEF Probe
<1>4. CASE RegisterSet \/ RegisterRead \/ RegisterResume
  BY <1>4 DEF RegisterSet, RegisterRead, RegisterResume
<1>5. CASE Unregister \/ Destroy
  BY <1>5 DEF Unregister, Destroy
<1>6. CASE ThreadExit \/ Wake \/ WaitTimeout
  BY <1>6 DEF ThreadExit, Wake, WaitTimeout
<1>7. CASE DrainEnable \/ DrainDisable \/ DrainUpdate \/ DrainIgnore
  BY <1>7 DEF DrainEnable, DrainDisable, DrainUpdate, DrainIgnore, ReadEvent
<1>8. CASE DrainDone \/ Decide
  <2>1. thread # "off" /\ usb' = usb /\ usbHal' = usbHal /\ running' = running
        /\ commit' = commit /\ drmStatus' = drmStatus
    BY <1>8, Zenon DEF DrainDone, Decide
  <2> QED
    BY <2>1
<1>9. CASE SendOk \/ SendFail \/ SendUnchanged \/ Tick
  BY <1>9 DEF SendOk, SendFail, SendUnchanged, Tick
<1>10. CASE UNCHANGED vars
  BY <1>10 DEF vars
<1>11. ASSUME NEW m \in Modes, OverlapEnable(m) PROVE AttachPhases'
  BY <1>11 DEF OverlapEnable
<1>12. CASE OverlapEvent
  BY <1>12 DEF OverlapEvent
<1> QED
  BY <1>1, <1>2, <1>3, <1>4, <1>5, <1>6, <1>7, <1>8, <1>9, <1>10, <1>11, <1>12
     DEF Next, Commit, CommitEnd, Cursor, Register, Overlap, Sender

\* A probe takes note of what it finds, and only it clears the history.
LEMMA MishapStep ==
    ASSUME TypeOK, [Next]_vars
    PROVE  \/ Probe
           \/ Destroy
           \/ mishap \subseteq mishap' /\ (usb = "detached" => usb' = "detached")
<1> USE DEF usbVars
<1>1. ASSUME NEW es, Clash(es) PROVE mishap \subseteq mishap'
  BY <1>1 DEF Clash
<1>2. ASSUME NEW e, NEW extra, Post(e, extra) PROVE mishap \subseteq mishap'
  BY <1>2 DEF Post
<1>3. ASSUME NEW e, NEW r, NEW extra, Queue(e, extra) \/ QueueBoth(e, r)
      PROVE  mishap \subseteq mishap'
  BY <1>1, <1>2, <1>3, Zenon DEF Queue, QueueBoth
<1>4. CASE (\E m \in Modes : AtomicEnable(m)) \/ CommitEnd \/ CursorPost
  <2>1. mishap' = mishap \/ (\E e, extra : Queue(e, extra)) \/ (\E e, extra : Post(e, extra))
    BY <1>4, Zenon DEF AtomicEnable, CommitEnd, AtomicDisableNotify, UpdatePost, CursorPost
  <2>2. usb' = usb
    BY <1>4, Zenon DEF AtomicEnable, CommitEnd, AtomicDisableNotify, UpdatePost, CursorPost
  <2> QED
    BY <1>2, <1>3, <2>1, <2>2
<1>5. CASE RegisterResume \/ Overlap
  <2>1. \/ mishap' = mishap
        \/ \E e, r, extra : Queue(e, extra) \/ QueueBoth(e, r)
    BY <1>5, Zenon DEF RegisterResume, Overlap, OverlapEnable, OverlapEvent
  <2>2. usb # "detached"
    BY <1>5, Zenon DEF RegisterResume, Overlap, OverlapEnable, OverlapEvent
  <2> QED
    BY <1>3, <2>1, <2>2
<1>6. CASE \/ AtomicDisableMark \/ UpdateBegin \/ CursorBegin \/ CursorMove
           \/ RegisterSet \/ RegisterRead \/ Unregister
  BY <1>6 DEF AtomicDisableMark, UpdateBegin, CursorBegin, CursorMove,
              RegisterSet, RegisterRead, Unregister
<1>7. CASE ThreadExit \/ Wake \/ WaitTimeout \/ DrainDone \/ Decide
  BY <1>7 DEF ThreadExit, Wake, WaitTimeout, DrainDone, Decide
<1>8. CASE DrainEnable \/ DrainDisable \/ DrainUpdate \/ DrainIgnore
  BY <1>8 DEF DrainEnable, DrainDisable, DrainUpdate, DrainIgnore, DoEnable,
              DoDisable, ReadEvent
<1>9. CASE SendOk \/ SendFail \/ SendUnchanged \/ Tick
  BY <1>9 DEF SendOk, SendFail, SendUnchanged, Tick
<1>10. CASE UNCHANGED vars
  BY <1>10 DEF vars
<1> QED
  BY <1>4, <1>5, <1>6, <1>7, <1>8, <1>9, <1>10
     DEF Next, Commit, CommitEnd, Cursor, Register, Overlap, Sender

LEMMA AlignedStep ==
    ASSUME TypeOK, AlignedUnlessLost, [Next]_vars
    PROVE  AlignedUnlessLost'
<1>1. CASE Probe
  <2>1. UNCHANGED <<fifo, torn>> /\ mishap' = IF StaleFifo THEN {"stale"} ELSE {}
    BY <1>1 DEF Probe
  <2>2. Misread => StaleFifo
    BY DEF Misread, Garbled, StaleFifo, IsJunk
  <2> QED
    BY <2>1, <2>2 DEF AlignedUnlessLost, Misread, Shifted, Garbled
<1>2. CASE Destroy
  BY <1>2 DEF Destroy, AlignedUnlessLost
<1>3. CASE mishap \subseteq mishap' /\ (usb = "detached" => usb' = "detached")
  <2>1. Misread' => Misread \/ "lost" \in mishap' \/ "clash" \in mishap'
    <3>1. CASE UNCHANGED <<fifo, torn>>
      BY <3>1 DEF Misread, Shifted, Garbled
    <3>2. CASE \E e \in Whole, extra \in SUBSET Mishaps : Post(e, extra)
      BY <3>2, PostAligned
    <3>3. CASE \E es \in Seq(Whole) : es # <<>> /\ Clash(es)
      BY <3>3, ClashNoted
    <3>4. CASE ReadEvent
      BY <3>4, ReadAligned
    <3> QED
      BY <3>1, <3>2, <3>3, <3>4, FifoStep
  <2> QED
    BY <1>3, <2>1 DEF AlignedUnlessLost, Misread
<1> QED
  BY <1>1, <1>2, <1>3, MishapStep

\* A fifo of updates only comes to what the device is now.
LEMMA UpdatesOnly ==
    ASSUME NEW q, \A i \in DOMAIN q : q[i].type = "update", NEW now, NEW m
    PROVE  EndsOff(q, FALSE) /\ EndsIn(q, FALSE, now, m)
BY DEF EndsOff, EndsIn

LEMMA TellsStep ==
    ASSUME IInv, [Next]_vars, running', mishap' = {}
    PROVE  FifoTellsDrm'
<1> USE DEF On, Wanted, drmVars, usbVars
<1>0. TypeOK /\ AttachPhases /\ AlignedUnlessLost /\ fifo \in Seq(Event)
      /\ On \in BOOLEAN /\ accepts \subseteq Modes /\ drmMode \in Modes \cup {NoMode}
      /\ drmStatus \in {"enable", "disable"}
  BY DEF IInv, TypeOK, ValuesOK
\* While nothing went wrong, an event is queued whole, with no other writer.
<1>1. mishap' = {}
  OBVIOUS
<1>2. ASSUME NEW e \in Whole, NEW extra, Queue(e, extra), usb # "detached"
       PROVE  /\ fifo' = Append(fifo, e) /\ mishap = {} /\ extra = {}
              /\ running => FifoTellsDrm
  <2>1. mishap = {} /\ extra = {} /\ (~Garbled => fifo' = Append(fifo, e))
    BY <1>2, <1>0, <1>1, QueueWhole
  <2>2. ~Garbled
    BY <2>1, <1>0, <1>2 DEF AlignedUnlessLost
  <2> QED
    BY <2>1, <2>2 DEF IInv
<1>3. ASSUME UNCHANGED <<fifo, usb, accepts, resumeMode, drmStatus, drmMode, commit,
                         devState, chipMode, halMode, running, mishap>>
      PROVE  FifoTellsDrm'
  BY <1>3 DEF IInv, FifoTellsDrm
<1>4. ASSUME NEW m \in Modes, AtomicEnable(m) PROVE FifoTellsDrm'
  <2>1. /\ commit = "idle" /\ drmStatus = "disable" /\ drmStatus' = "enable"
        /\ drmMode' = m
        /\ UNCHANGED <<commit, usb, usbHal, accepts, resumeMode, devState, chipMode,
                       running>>
    BY <1>4 DEF AtomicEnable, devVars, chipVars, threadVars
  <2>2. CASE usbHal /\ m \in accepts
    <3>1. halMode' = m /\ Queue(EnableEvent(m), {}) /\ EnableEvent(m) \in Whole
      BY <1>4, <2>2, EventTyped DEF AtomicEnable
    <3>2. usb \notin {"detached", "probed"} /\ running
      BY <2>2, <1>0 DEF AttachPhases
    <3>3. fifo' = Append(fifo, EnableEvent(m)) /\ FifoTellsDrm
      BY <3>1, <3>2, <1>2
    <3>4. EndsOff(fifo, On) /\ usb # "resuming"
      BY <3>3, <2>1 DEF FifoTellsDrm
    <3>5. EndsIn(fifo', On, chipMode, m) /\ EndsOn(fifo', On)
      BY <3>3, <3>4, <1>0, OffIn, AppendEnableIn, AppendEnableOn
    <3> QED
      BY <2>1, <2>2, <3>1, <3>2, <3>4, <3>5 DEF FifoTellsDrm
  <2>3. CASE ~(usbHal /\ m \in accepts)
    <3>1. UNCHANGED <<fifo, halMode, mishap>>
      BY <1>4, <2>3 DEF AtomicEnable, fifoVars
    <3>2. FifoTellsDrm
      BY <2>1, <3>1 DEF IInv
    <3>3. EndsOff(fifo, On) /\ usb # "resuming"
      BY <2>1, <3>2 DEF FifoTellsDrm
    <3>4. EndsIn(fifo, On, chipMode, m)
      BY <3>3, <1>0, OffIn
    <3>5. usb = "registered" => m \notin accepts
      BY <2>3, <1>0 DEF AttachPhases
    <3> QED
      BY <2>1, <3>1, <3>2, <3>3, <3>4, <3>5 DEF FifoTellsDrm
  <2> QED
    BY <2>2, <2>3
<1>5. CASE AtomicDisableMark
  BY <1>5 DEF AtomicDisableMark, fifoVars, devVars, threadVars, IInv, FifoTellsDrm
<1>6. CASE AtomicDisableNotify
  <2>1. /\ commit = "disabling" /\ commit' = "idle"
        /\ UNCHANGED <<drmStatus, drmMode, accepts, usb, usbHal, devState, running>>
    BY <1>6 DEF AtomicDisableNotify, devVars, threadVars
  <2>2. CASE usbHal
    <3> DEFINE extra == IF usb = "resuming" THEN {"raced"} ELSE {}
    <3>1. Queue(DisableEvent, extra) /\ DisableEvent \in Whole
      BY <1>6, <2>2, EventTyped DEF AtomicDisableNotify
    <3> HIDE DEF extra
    <3>2. usb \notin {"detached", "probed"} /\ running
      BY <2>2, <1>0 DEF AttachPhases
    <3>3. fifo' = Append(fifo, DisableEvent) /\ extra = {}
      BY <3>1, <3>2, <1>2
    <3>4. usb # "resuming" /\ drmStatus = "disable"
      BY <3>3, <2>1, <1>0 DEF extra, AttachPhases
    <3>5. EndsOff(fifo', On)
      BY <3>3, <1>0, AppendDisableOff
    <3> QED
      BY <2>1, <3>4, <3>5, <3>2 DEF FifoTellsDrm
  <2>3. CASE ~usbHal
    <3>1. UNCHANGED <<fifo, mishap>>
      BY <1>6, <2>3 DEF AtomicDisableNotify, fifoVars
    <3>2. FifoTellsDrm /\ usb = "probed"
      BY <2>1, <2>3, <3>1, <1>0 DEF IInv, AttachPhases
    <3>3. EndsOff(fifo, On) /\ drmStatus = "disable"
      BY <2>1, <3>2, <1>0, UpdatesOnly DEF FifoTellsDrm, AttachPhases
    <3> QED
      BY <2>1, <3>1, <3>2, <3>3 DEF FifoTellsDrm
  <2> QED
    BY <2>2, <2>3
<1>7. CASE UpdateBegin
  BY <1>7 DEF UpdateBegin, fifoVars, devVars, chipVars, threadVars, IInv,
              FifoTellsDrm
<1>8. ASSUME fifo' = Append(fifo, UpdateEvent), mishap = {},
              UNCHANGED <<drmStatus, drmMode, accepts, usb, resumeMode, devState, chipMode,
                          halMode, running>>,
              commit' = commit \/ commit # "disabling"
       PROVE  FifoTellsDrm'
  <2>1. FifoTellsDrm
    BY <1>8 DEF IInv
  <2>2. /\ EndsOff(fifo, On) => EndsOff(fifo', On)
        /\ EndsOn(fifo, On) => EndsOn(fifo', On)
        /\ EndsIn(fifo, On, chipMode, drmMode)
             => EndsIn(fifo', On, chipMode, drmMode)
        /\ (\A i \in DOMAIN fifo : fifo[i].type = "update")
             => \A i \in DOMAIN fifo' : fifo'[i].type = "update"
    BY <1>8, <1>0, AppendUpdate
  <2> QED
    BY <1>8, <2>1, <2>2 DEF FifoTellsDrm
<1>9. CASE UpdatePost
  <2>1. /\ commit = "updating" /\ commit' = "idle" /\ Queue(UpdateEvent, {})
        /\ UNCHANGED <<drmStatus, drmMode, accepts, usb, resumeMode, devState, chipMode,
                       halMode, running>>
    BY <1>9 DEF UpdatePost, devVars, chipVars, threadVars
  <2>2. usb # "detached"
    BY <2>1, <1>0 DEF AttachPhases
  <2>3. fifo' = Append(fifo, UpdateEvent) /\ mishap = {}
    BY <2>1, <2>2, <1>2, EventTyped
  <2> QED
    BY <2>1, <2>3, <1>8
<1>10. CASE CursorPost
  <2>1. /\ commit' = commit /\ Post(UpdateEvent, {})
        /\ UNCHANGED <<drmStatus, drmMode, accepts, usb, resumeMode, devState, chipMode,
                       halMode, running>>
    BY <1>10 DEF CursorPost, devVars, chipVars, threadVars
  <2>2. usb # "detached"
    BY <2>1, <1>0 DEF AttachPhases
  <2>3. mishap = {} /\ (~Garbled => fifo' = Append(fifo, UpdateEvent))
    BY <2>1, <1>0, <1>1, PostWhole, EventTyped
  <2>4. ~Garbled
    BY <2>2, <2>3, <1>0 DEF AlignedUnlessLost
  <2> QED
    BY <2>1, <2>3, <2>4, <1>8
<1>11. CASE CursorBegin
  BY <1>11, <1>3 DEF CursorBegin, fifoVars, devVars, chipVars, threadVars
<1>12. CASE Probe
  <2>1. ~StaleFifo /\ devState' = "unknown" /\ fifo' = fifo /\ usb' = "probed"
        /\ UNCHANGED <<drmStatus, drmMode, commit>>
    BY <1>12 DEF Probe
  <2>2. \A i \in DOMAIN fifo' : fifo'[i].type = "update"
    BY <2>1 DEF StaleFifo
  <2>3. ~On'
    BY <2>1
  <2>4. EndsOff(fifo', On') /\ EndsIn(fifo', On', chipMode', drmMode')
    BY <2>2, <2>3, UpdatesOnly
  <2>5. commit = "disabling" => drmStatus = "disable"
    BY <1>0 DEF AttachPhases
  <2> QED
    BY <2>1, <2>2, <2>3, <2>4, <2>5 DEF FifoTellsDrm
<1>13. CASE RegisterSet
  BY <1>13 DEF RegisterSet, fifoVars, devVars, chipVars, threadVars, IInv,
              FifoTellsDrm
<1>14. CASE RegisterRead
  BY <1>14 DEF RegisterRead, fifoVars, devVars, chipVars, threadVars, IInv,
              FifoTellsDrm
<1>15. CASE RegisterResume
  <2>1. /\ usb = "resuming" /\ usb' = "registered"
        /\ UNCHANGED <<drmStatus, drmMode, accepts, commit, devState, chipMode, running>>
    BY <1>15 DEF RegisterResume, devVars, chipVars, threadVars
  <2>2. ASSUME NEW m \in ModesRead \cap accepts, halMode' = m,
               Queue(EnableEvent(m), {})
        PROVE  FifoTellsDrm'
    <3>1. m \in Modes /\ EnableEvent(m) \in Whole
      BY <1>0, EventTyped
    <3>2. fifo' = Append(fifo, EnableEvent(m)) /\ FifoTellsDrm
      BY <2>1, <2>2, <3>1, <1>0, <1>2
    <3>3. ~(drmStatus = "disable" /\ commit # "disabling")
      BY <2>1, <3>2 DEF FifoTellsDrm
    <3>4. ASSUME drmStatus = "enable"
          PROVE  /\ m = drmMode
                 /\ EndsIn(fifo', On, chipMode, drmMode)
                 /\ EndsOn(fifo', On)
      <4>1. m = drmMode
        BY <2>1, <3>2, <3>4 DEF FifoTellsDrm, ModesRead
      <4>2. EndsIn(fifo, On, chipMode, drmMode)
        BY <2>1, <3>2, <3>4, <4>1 DEF FifoTellsDrm
      <4> QED
        BY <4>1, <4>2, <3>1, <3>2, <1>0, AppendEnableIn, AppendEnableOn
    <3> QED
      BY <2>1, <2>2, <3>2, <3>3, <3>4, <1>0 DEF FifoTellsDrm, AttachPhases
  <2>3. ASSUME resumeMode # drmMode \/ drmMode \notin accepts,
               UNCHANGED <<halMode, fifoVars, cursor, mishap>>
        PROVE  FifoTellsDrm'
    <3>1. FifoTellsDrm /\ UNCHANGED fifo
      BY <2>1, <2>3 DEF IInv, fifoVars
    <3>2. drmStatus = "enable" => drmMode \notin accepts
      BY <2>1, <2>3, <3>1 DEF FifoTellsDrm
    <3> QED
      BY <2>1, <3>1, <3>2 DEF FifoTellsDrm
  <2> QED
    BY <1>15, <2>2, <2>3 DEF RegisterResume
<1>16. CASE Unregister \/ Destroy
  BY <1>16, <1>0 DEF Unregister, Destroy, AttachPhases
<1>17. ASSUME ReadEvent, mishap = {},
              NEW e \in Reads,
              e.type = "update" => devState' = devState,
              e.type = "disable" => ~On',
              e.type = "enable" => On',
              On /\ On' => chipMode' = chipMode,
              ~On /\ On' => chipMode' = e.mode
       PROVE  FifoTellsDrm'
  <2>1. fifo' = Tail(fifo) /\ fifo # <<>>
        /\ UNCHANGED <<drmStatus, drmMode, accepts, commit, usb, resumeMode, running,
                       halMode>>
    BY <1>17 DEF ReadEvent
  <2>2. FifoTellsDrm
    BY <2>1, <1>17 DEF IInv
  <2>3. usb # "detached"
    BY <2>1, <1>0 DEF AttachPhases
  <2>4. e = Head(fifo) /\ e.type \in EventTypes
    <3>1. ~torn /\ \A i \in DOMAIN fifo : ~IsJunk(fifo[i]) /\ ~IsFragment(fifo[i])
      BY <2>3, <1>17, <1>0 DEF AlignedUnlessLost, Shifted, Garbled
    <3>2. 1 \in DOMAIN fifo /\ Head(fifo) = fifo[1] /\ Head(fifo) \in Event
      BY <2>1, <1>0
    <3>3. e = Head(fifo)
      BY <3>1, <3>2, <1>17 DEF Reads
    <3>4. e.type # "junk"
      BY <3>1, <3>2, <3>3 DEF IsJunk
    <3> QED
      BY <3>2, <3>3, <3>4 DEF Event
  <2>5. On' \in BOOLEAN
    OBVIOUS
  <2>6. /\ EndsOff(fifo, On) => EndsOff(fifo', On')
        /\ EndsOn(fifo, On) => EndsOn(fifo', On')
        /\ EndsIn(fifo, On, chipMode, drmMode)
             => EndsIn(fifo', On', chipMode', drmMode)
        /\ (\A i \in DOMAIN fifo : fifo[i].type = "update")
             => \A i \in DOMAIN fifo' : fifo'[i].type = "update"
    <3>1. /\ Head(fifo).type = "update" => On' = On
          /\ Head(fifo).type = "disable" => ~On'
          /\ Head(fifo).type = "enable" => On'
      BY <1>17, <2>4
    <3>2. Head(fifo).type \in EventTypes /\ (~On /\ On' => chipMode' = Head(fifo).mode)
      BY <1>17, <2>4
    <3> HIDE DEF On
    <3> QED
      BY <3>1, <3>2, <2>1, <2>5, <1>0, <1>17, ReadHead
  <2>7. usb = "probed" => ~On'
    <3>1. ASSUME usb = "probed" PROVE Head(fifo).type = "update" /\ ~On
      <4>1. 1 \in DOMAIN fifo /\ Head(fifo) = fifo[1]
        BY <2>1, <1>0
      <4> QED
        BY <4>1, <3>1, <2>2 DEF FifoTellsDrm
    <3> QED
      BY <3>1, <2>4, <1>17
  <2> QED
    BY <2>1, <2>2, <2>6, <2>7 DEF FifoTellsDrm
<1>18. CASE DrainEnable
  <2>1. PICK e \in Reads : e.type = "enable" /\ DoEnable(e.mode)
    BY <1>18 DEF DrainEnable
  <2>2. ReadEvent /\ ~On /\ On' /\ mishap = {} /\ chipMode' = e.mode
    BY <1>18, <2>1 DEF DrainEnable, DoEnable
  <2> QED
    BY <2>1, <2>2, <1>17
<1>19. CASE DrainDisable
  <2>1. PICK e \in Reads : e.type = "disable"
    BY <1>19 DEF DrainDisable
  <2>2. ReadEvent /\ On /\ ~On' /\ mishap = {}
    BY <1>19 DEF DrainDisable, DoDisable
  <2> QED
    BY <2>1, <2>2, <1>17
<1>20. CASE DrainUpdate
  <2>1. PICK e \in Reads : e.type = "update"
    BY <1>20 DEF DrainUpdate
  <2>2. ReadEvent /\ UNCHANGED <<devState, chipMode, mishap>>
    BY <1>20 DEF DrainUpdate, devVars, chipVars
  <2> QED
    BY <2>1, <2>2, <1>17
<1>21. CASE DrainIgnore
  <2>1. PICK e \in Reads : (e.type = "disable" => ~On) /\ (e.type = "enable" => On)
    BY <1>21 DEF DrainIgnore
  <2>2. ReadEvent /\ UNCHANGED <<devState, chipMode, mishap>>
    BY <1>21 DEF DrainIgnore, devVars, chipVars
  <2> QED
    BY <2>1, <2>2, <1>17
<1>22. CASE CursorMove
  BY <1>22, <1>3 DEF CursorMove, fifoVars, devVars, chipVars, threadVars
<1>23. CASE ThreadExit \/ Wake \/ WaitTimeout
  BY <1>23, <1>3 DEF ThreadExit, Wake, WaitTimeout, fifoVars, devVars, chipVars
<1>24. CASE DrainDone \/ Decide
  <2>1. UNCHANGED <<fifo, usb, accepts, resumeMode, drmStatus, drmMode, commit,
                    devState, chipMode, halMode, running, mishap>>
    BY <1>24, Zenon DEF DrainDone, Decide, fifoVars, devVars, chipVars
  <2> QED
    BY <2>1, <1>3
<1>25. CASE SendOk \/ SendFail \/ SendUnchanged \/ Tick
  <2>1. UNCHANGED <<fifo, usb, accepts, resumeMode, drmStatus, drmMode, commit,
                    devState, chipMode, halMode, running>>
    BY <1>25, Zenon DEF SendOk, SendFail, SendUnchanged, Tick, fifoVars, devVars,
                        chipVars
  <2>2. mishap = {}
    BY <1>25 DEF SendOk, SendFail, SendUnchanged, Tick
  <2> QED
    BY <2>1, <2>2, <1>3
<1>26. CASE UNCHANGED vars
  BY <1>26, <1>3 DEF vars, fifoVars, devVars, chipVars, threadVars
<1>27. CASE Overlap
  <2>1. "clash" \in mishap'
    BY <1>27, Zenon DEF Overlap, OverlapEnable, OverlapEvent, QueueBoth, Clash
  <2> QED
    BY <2>1
<1> QED
  BY <1>4, <1>5, <1>6, <1>7, <1>9, <1>12, <1>13, <1>14, <1>15, <1>16, <1>18,
     <1>19, <1>20, <1>21, <1>22, <1>23, <1>24, <1>25, <1>26, <1>27, <1>10, <1>11
     DEF Next, Commit, CommitEnd, Cursor, Register, Overlap, Sender

\* The inductive invariant, for every set of modes and every bound.
THEOREM Inductive == Spec => []IInv
<1>1. Init => IInv
  <2>1. Init => AttachPhases /\ AlignedUnlessLost /\ ~running
    BY DEF Init, AttachPhases, AlignedUnlessLost
  <2> QED
    BY <2>1, InitTyped DEF IInv
<1>2. IInv /\ [Next]_vars => IInv'
  <2> SUFFICES ASSUME IInv, [Next]_vars PROVE IInv'
    OBVIOUS
  <2>1. TypeOK' /\ AttachPhases' /\ AlignedUnlessLost'
    BY TypeStep, AttachStep, AlignedStep DEF IInv
  <2>2. running' /\ mishap' = {} => FifoTellsDrm'
    BY TellsStep
  <2> QED
    BY <2>1, <2>2 DEF IInv
<1> QED
  BY <1>1, <1>2, PTL DEF Spec

\* When the fifo is drained and nothing went wrong in this attachment, the chip
\* does what DRM has asked, as far as the device accepts it, whatever the cursor
\* ioctls do beside the commits.
THEOREM ChipAgrees == Spec => []Agreement
<1>1. IInv => Agreement
  <2> SUFFICES ASSUME IInv, Quiet, mishap = {} PROVE ChipFollowsDrm
    BY DEF Agreement
  <2>1. FifoTellsDrm
    BY DEF IInv, AttachPhases, Quiet
  <2>2. DOMAIN fifo = {}
    BY DEF Quiet
  <2>3. CASE Wanted
    BY <2>1, <2>2, <2>3
       DEF FifoTellsDrm, EndsOn, EndsIn, Quiet, ChipFollowsDrm, On
  <2>4. CASE ~Wanted
    BY <2>1, <2>2, <2>4 DEF FifoTellsDrm, EndsOff, Quiet, ChipFollowsDrm, On
  <2> QED
    BY <2>3, <2>4
<1> QED
  BY <1>1, Inductive, PTL

\* The reader is out of step, or about to read what nobody queued, only after an overflow,
\* after writers met in kfifo_in, or on an older fifo.
THEOREM Aligned == Spec => []AlignedUnlessLost
<1>1. IInv => AlignedUnlessLost
  BY DEF IInv
<1> QED
  BY <1>1, Inductive, PTL

\* A step that keeps a wakeup for whatever the fifo holds.
LEMMA WakeupStep ==
    ASSUME TypeOK, AttachPhases, NoLostWakeup, [Next]_vars
    PROVE  NoLostWakeup'
<1> USE DEF NoLostWakeup, usbVars, fifoVars, threadVars
<1>0. sema \in Nat
  BY PipelineAssumption DEF TypeOK, ValuesOK
<1>1. ASSUME NEW e \in Whole, NEW extra, Post(e, extra) PROVE NoLostWakeup'
  BY <1>0, <1>1 DEF Post
<1>2. ASSUME NEW e \in Whole, NEW r \in Whole, NEW extra,
              Queue(e, extra) \/ QueueBoth(e, r)
       PROVE  NoLostWakeup'
  <2>1. (\E x \in Whole : Post(x, extra)) \/ \E es \in Seq(Whole) : es # <<>> /\ Clash(es)
    BY <1>2, QueueIs
  <2>2. ASSUME NEW es \in Seq(Whole), es # <<>>, Clash(es) PROVE sema' > 0
    <3>1. Len(es) \in Nat \ {0} /\ sema' = sema + Len(es)
      BY <2>2 DEF Clash
    <3> QED
      BY <1>0, <3>1
  <2> QED
    BY <2>1, <2>2, <1>1
<1>3. /\ {} \in SUBSET Mishaps /\ accepts \subseteq Modes
       /\ DisableEvent \in Whole /\ UpdateEvent \in Whole
       /\ \A m \in Modes : EnableEvent(m) \in Whole
  BY EventTyped DEF TypeOK, ValuesOK
<1>4. ASSUME NEW m \in Modes, AtomicEnable(m) PROVE NoLostWakeup'
  <2>1. CASE usbHal /\ m \in accepts
    <3>1. Queue(EnableEvent(m), {})
      BY <1>4, <2>1 DEF AtomicEnable
    <3> QED
      BY <3>1, <1>2, <1>3
  <2>2. CASE ~(usbHal /\ m \in accepts)
    BY <1>4, <2>2 DEF AtomicEnable
  <2> QED
    BY <2>1, <2>2
<1>5. CASE AtomicDisableNotify
  <2>1. CASE usbHal
    <3>1. PICK extra : Queue(DisableEvent, extra)
      BY <1>5, <2>1, Zenon DEF AtomicDisableNotify
    <3> QED
      BY <3>1, <1>2, <1>3
  <2>2. CASE ~usbHal
    BY <1>5, <2>2 DEF AtomicDisableNotify
  <2> QED
    BY <2>1, <2>2
<1>6. CASE UpdatePost
  <2>1. Queue(UpdateEvent, {})
    BY <1>6 DEF UpdatePost
  <2> QED
    BY <2>1, <1>2, <1>3
<1>7. CASE CursorPost
  <2>1. Post(UpdateEvent, {})
    BY <1>7 DEF CursorPost
  <2> QED
    BY <2>1, <1>1, <1>3
<1>8. CASE RegisterResume
  <2>1. ASSUME NEW m \in ModesRead \cap accepts, Queue(EnableEvent(m), {})
        PROVE  NoLostWakeup'
    BY <2>1, <1>2, <1>3
  <2>2. CASE UNCHANGED fifoVars
    BY <1>8, <2>2 DEF RegisterResume
  <2> QED
    BY <1>8, <2>1, <2>2 DEF RegisterResume
<1>9. CASE Overlap
  <2>1. PICK e \in Whole, r \in Whole : QueueBoth(e, r)
    BY <1>9, <1>3 DEF Overlap, OverlapEnable, OverlapEvent
  <2> QED
    BY <2>1, <1>2
<1>10. CASE AtomicDisableMark \/ UpdateBegin \/ CursorBegin \/ CursorMove \/ RegisterSet
           \/ RegisterRead
  BY <1>10 DEF AtomicDisableMark, UpdateBegin, CursorBegin, CursorMove, RegisterSet,
              RegisterRead
<1>11. CASE Probe
  BY <1>11 DEF Probe
<1>12. CASE Unregister \/ Destroy
  BY <1>12 DEF Unregister, Destroy, AttachPhases
<1>13. CASE ThreadExit \/ Wake \/ WaitTimeout
  BY <1>13 DEF ThreadExit, Wake, WaitTimeout
\* The thread stays in the drain loop until the fifo is empty.
<1>14. CASE DrainEnable \/ DrainDisable \/ DrainUpdate \/ DrainIgnore
  BY <1>14 DEF DrainEnable, DrainDisable, DrainUpdate, DrainIgnore, ReadEvent
<1>15. CASE DrainDone
  BY <1>15 DEF DrainDone
<1>16. CASE Decide \/ SendOk \/ SendFail \/ SendUnchanged \/ Tick
  <2>1. /\ running' = running /\ fifo' = fifo /\ sema' = sema
        /\ thread = "drain" => thread' = "drain"
    BY <1>16, Zenon DEF Decide, SendOk, SendFail, SendUnchanged, Tick
  <2> QED
    BY <2>1
<1>17. CASE UNCHANGED vars
  BY <1>17 DEF vars
<1> QED
  BY <1>4, <1>5, <1>6, <1>10, <1>11, <1>12, <1>13, <1>14, <1>15, <1>16, <1>17,
     <1>8, <1>9, <1>7 DEF Next, Commit, CommitEnd, Cursor, Register, Overlap, Sender

\* No event waits behind a sleeping sender, for every bound and any sequence of
\* attachments.
THEOREM NeverAsleep == Spec => []NoLostWakeup
<1>1. Init => NoLostWakeup
  BY DEF Init, NoLostWakeup
<1>2. IInv /\ NoLostWakeup /\ [Next]_vars => NoLostWakeup'
  BY WakeupStep DEF IInv
<1> QED
  BY <1>1, <1>2, Inductive, PTL DEF Spec

\* What went wrong in an attachment is only forgotten by the next probe, and while
\* nothing did, the video follows the first frame of each enabling.
LEMMA VideoStep ==
    ASSUME TypeOK, VideoSinceFirstFrame, [Next]_vars
    PROVE  VideoSinceFirstFrame'
<1> USE DEF VideoSinceFirstFrame
<1>0. video \in BOOLEAN /\ first \in BOOLEAN
  BY DEF TypeOK, FlagsOK
<1>1. ASSUME UNCHANGED <<devState, first, video>>, mishap \subseteq mishap'
      PROVE  VideoSinceFirstFrame'
  BY <1>0, <1>1
<1>2. ASSUME NEW e, NEW extra, Post(e, extra) PROVE mishap \subseteq mishap'
  BY <1>2 DEF Post
<1>3. ASSUME NEW e, NEW r, NEW extra, Queue(e, extra) \/ QueueBoth(e, r)
      PROVE  mishap \subseteq mishap'
  BY <1>2, <1>3, ClashNoted, Zenon DEF Queue, QueueBoth
<1>4. CASE Commit \/ CommitEnd \/ Cursor \/ Register \/ Overlap
  <2>1. UNCHANGED <<devState, first, video>>
    BY <1>4, Zenon DEF Commit, CommitEnd, Cursor, Register, Overlap, AtomicEnable,
       AtomicDisableMark, UpdateBegin, AtomicDisableNotify, UpdatePost, CursorBegin,
       CursorPost, CursorMove, RegisterSet, RegisterRead, RegisterResume, OverlapEnable,
       OverlapEvent, devVars, chipVars
  <2>2. \/ mishap' = mishap
        \/ \E e, extra : Post(e, extra)
        \/ \E e, r, extra : Queue(e, extra) \/ QueueBoth(e, r)
    <3>1. CASE Commit \/ CommitEnd \/ Cursor
      BY <3>1, Zenon DEF Commit, CommitEnd, Cursor, AtomicEnable, AtomicDisableMark,
         UpdateBegin, AtomicDisableNotify, UpdatePost, CursorBegin, CursorPost, CursorMove
    <3>2. CASE Register \/ Overlap
      BY <3>2, Zenon DEF Register, Overlap, RegisterSet, RegisterRead, RegisterResume,
         OverlapEnable, OverlapEvent
    <3> QED
      BY <1>4, <3>1, <3>2
  <2> QED
    BY <1>1, <1>2, <1>3, <2>1, <2>2
<1>5. CASE Probe \/ Destroy
  BY <1>5 DEF Probe, Destroy
<1>6. CASE DrainDisable
  BY <1>6 DEF DrainDisable, DoDisable
<1>7. CASE DrainEnable
  <2>1. first' = FALSE /\ ((video' = FALSE) \/ "fault" \in mishap')
    BY <1>7 DEF DrainEnable, DoEnable
  <2> QED
    BY <2>1
<1>8. CASE SendOk
  <2>1. devState' = devState /\ first' = TRUE
        /\ \/ first /\ UNCHANGED <<video, mishap>>
           \/ video' = TRUE /\ UNCHANGED mishap
           \/ "fault" \in mishap'
    BY <1>8 DEF SendOk, fifoVars, usbVars
  <2> QED
    BY <1>0, <2>1
<1>9. CASE \/ Unregister \/ ThreadExit \/ Wake \/ WaitTimeout \/ DrainUpdate \/ DrainIgnore
           \/ DrainDone \/ Decide \/ SendFail \/ SendUnchanged \/ Tick \/ UNCHANGED vars
  <2>1. UNCHANGED <<devState, first, video, mishap>>
    BY <1>9, Zenon DEF Unregister, ThreadExit, Wake, WaitTimeout, DrainUpdate, DrainIgnore,
       DrainDone, Decide, SendFail, SendUnchanged, Tick, vars, devVars, chipVars
  <2> QED
    BY <1>1, <2>1
<1> QED
  BY <1>4, <1>5, <1>6, <1>7, <1>8, <1>9, Zenon DEF Next, Sender

\* A picture is shown from the first frame of an enabling, and not before, for every
\* order of modesets, attachments and frames without a failed transfer.
THEOREM VideoFollowsFrames == Spec => []VideoSinceFirstFrame
<1>1. Init => VideoSinceFirstFrame
  BY DEF Init, VideoSinceFirstFrame
<1>2. TypeOK /\ VideoSinceFirstFrame /\ [Next]_vars => VideoSinceFirstFrame'
  BY VideoStep
<1> QED
  BY <1>1, <1>2, TypeCorrect, PTL DEF Spec
=============================================================================
