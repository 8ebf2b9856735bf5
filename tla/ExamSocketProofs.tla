-------------------------- MODULE ExamSocketProofs --------------------------
(***************************************************************************)
(* What ExamSocket promises, for any number of answers, frames, lost       *)
(* connections and failed flushes.                                         *)
(*                                                                         *)
(* Two inductive invariants.  Typed /\ Orderly holds whatever the          *)
(* candidate does, and gives the order of every segment.  Tracked holds as *)
(* long as the candidate is careful: it says where the one turn of the     *)
(* connection is, between the button and the acknowledgement, and what     *)
(* every place that can hold an answer holds.                              *)
(***************************************************************************)
EXTENDS ExamSocket, SequenceTheorems, TLAPS

----------------------------------------------------------------------------
(* Types *)

PageTyped ==
    /\ holding \in BOOLEAN
    /\ spoken \in Seq(0 .. MaxFrames) /\ Len(spoken) <= MaxPresses
    /\ holding => Len(spoken) > 0

ClientTyped ==
    /\ ids \in Nat /\ currentTurnId \in 0 .. ids /\ bufferTurnId \in 0 .. ids
    /\ DOMAIN frames \subseteq 1 .. ids
    /\ \A id \in DOMAIN frames : frames[id] \in Seq(Frame) \ {<<>>}

ReplayTyped ==
    /\ replay \in [pc : {"idle", "reading", "taken"}, took : Seq(Frame)]
    /\ (replay.pc = "taken") <=> (replay.took # <<>>)

Packet == {Start, End} \cup Frame

WireTyped ==
    /\ link \in {"open", "down"} /\ acks \in Nat /\ connection \in 1 .. MaxDrops + 1
    /\ up \in Seq(Packet)
    /\ link = "down" => /\ up = <<>> /\ acks = 0 /\ turn = 0
                        /\ connection <= MaxDrops

PumpTyped ==
    /\ turns \in Nat /\ turn \in 0 .. turns /\ buffer \in Seq(Frame)
    /\ turn = 0 => buffer = <<>>

StorageTyped ==
    /\ segments \subseteq Seq(Frame) /\ failures \in 0 .. MaxFailures
    /\ \A f \in flushes : f.turn \in 1 .. turns /\ f.connection \in 1 .. connection
                          /\ f.pcm \in Seq(Frame)

HistoryTyped ==
    careful \in BOOLEAN /\ alone \in BOOLEAN /\ acked \subseteq 1 .. MaxPresses

Typed ==
    /\ PageTyped /\ ClientTyped /\ ReplayTyped /\ WireTyped
    /\ PumpTyped /\ StorageTyped /\ HistoryTyped

----------------------------------------------------------------------------
(* Order *)

(* What the store holds of a turn. *)
Store(id) == IF id \in DOMAIN frames THEN frames[id] ELSE <<>>

Before(f, g) == f[1] < g[1] \/ (f[1] = g[1] /\ f[2] < g[2])

Ordered(s) == \A i, j \in DOMAIN s : i < j => Before(s[i], s[j])

(* Frame f has been spoken. *)
Uttered(f) == f[1] \in 1 .. Presses /\ f[2] \in 1 .. spoken[f[1]]

(* What is or may yet become a turn. *)
Heard(s) == \A i \in DOMAIN s : Uttered(s[i])

(* No turn starts from the i-th message on its way to the j-th. *)
SameTurn(i, j) == \A k \in i .. j : up[k] # Start

(* What is in the browser and with the gateway is in order. *)
StoreOrderly ==
    /\ \A id \in DOMAIN frames : Ordered(frames[id]) /\ Heard(frames[id])
    /\ Ordered(replay.took) /\ Heard(replay.took)

PumpOrderly ==
    /\ Ordered(buffer) /\ Heard(buffer)
    /\ \A f \in flushes : Ordered(f.pcm)
    /\ \A s \in segments : Ordered(s)

(* So is what is on its way, turn by turn, after what is in the buffer. *)
LineHeard == \A i \in DOMAIN up : up[i] \in Frame => Uttered(up[i])

LineOrdered ==
    \A i, j \in DOMAIN up :
        i < j /\ up[i] \in Frame /\ up[j] \in Frame /\ SameTurn(i, j)
        => Before(up[i], up[j])

BufferFirst ==
    \A i \in DOMAIN buffer, j \in DOMAIN up :
        up[j] \in Frame /\ SameTurn(1, j) => Before(buffer[i], up[j])

Orderly == StoreOrderly /\ PumpOrderly /\ LineHeard /\ LineOrdered /\ BufferFirst

----------------------------------------------------------------------------
(* The turn of a careful candidate *)

(* The flushes of this connection. *)
Here == {f \in flushes : f.connection = connection}

(* What the store holds of the current turn. *)
Current == Store(currentTurnId)

(* The end is sent when the button is released. *)
Ends == IF holding THEN 0 ELSE 1

(* All messages of the current turn from its n-th on, counting frames. *)
Message(n) == IF n <= Len(Current) THEN Current[n] ELSE End

Quiet == up = <<>> /\ acks = 0 /\ turn = 0 /\ Here = {}

(* The gateway has yet to read the start. *)
Beginning ==
    /\ acks = 0 /\ turn = 0 /\ Here = {}
    /\ Len(up) = 1 + Len(Current) + Ends /\ up[1] = Start
    /\ \A i \in 2 .. Len(up) : up[i] = Message(i - 1)

(* It has read as many frames as are in its buffer. *)
Underway ==
    /\ acks = 0 /\ turn # 0 /\ Here = {}
    /\ Len(buffer) + Len(up) = Len(Current) + Ends
    /\ Len(buffer) <= Len(Current)
    /\ \A i \in 1 .. Len(buffer) : buffer[i] = Current[i]
    /\ \A i \in 1 .. Len(up) : up[i] = Message(Len(buffer) + i)

(* It stores them. *)
Ended ==
    /\ acks = 0 /\ turn = 0 /\ up = <<>>
    /\ \E f \in flushes : Here = {f} /\ f.pcm = Current

(* It has stored them, and says so. *)
Stored ==
    /\ acks = 1 /\ turn = 0 /\ up = <<>> /\ Here = {}
    /\ Current = <<>> \/ Current \in segments

OneTurn ==
    link = "open" => IF holding THEN Beginning \/ Underway
                     ELSE Quiet \/ Beginning \/ Underway \/ Ended \/ Stored

Held ==
    holding =>
        /\ replay = Idle /\ Here = {} /\ Presses \notin acked
        /\ currentTurnId # 0 /\ bufferTurnId = currentTurnId
        /\ Current = Whole(Presses)

Replaying == replay # Idle => ~holding /\ (link = "open" => Quiet)

(* s is all of an answer that is over. *)
Over(p) == p \in 1 .. Presses /\ spoken[p] > 0 /\ (holding => p < Presses)
Answer(s) == \E p \in 1 .. Presses : Over(p) /\ s = Whole(p)

Contents ==
    /\ \A s \in segments : s = <<>> \/ Answer(s)
    /\ \A f \in flushes : f.pcm = <<>> \/ Answer(f.pcm)
    /\ replay.took = <<>> \/ Answer(replay.took)
    /\ \A id \in DOMAIN frames : Answer(frames[id]) \/ (holding /\ id = currentTurnId)

(* An answer waits in one place, and in none once it is acknowledged. *)
Single ==
    /\ \A i, j \in DOMAIN frames : frames[i] = frames[j] => i = j
    /\ \A i \in DOMAIN frames : frames[i] # replay.took
    /\ \A p \in acked : /\ Over(p) /\ Whole(p) # replay.took
                        /\ \A i \in DOMAIN frames : frames[i] # Whole(p)

Somewhere(s) ==
    s \in segments \/ s = replay.took \/ \E i \in DOMAIN frames : s = frames[i]

Safe == \A p \in 1 .. Presses : spoken[p] > 0 => Somewhere(Whole(p))

(* All of it, for as long as the candidate is careful. *)
Tracking == OneTurn /\ Held /\ Replaying /\ Contents /\ Single /\ Safe

Tracked == careful => Tracking

----------------------------------------------------------------------------
(* Sequences and messages *)

(* The bounds are naturals. *)
LEMMA Bounds ==
    MaxPresses \in Nat /\ MaxFrames \in Nat /\ MaxDrops \in Nat /\ MaxFailures \in Nat
PROOF BY RelayAssumption

(* A start, an end and a piece of audio are told apart. *)
LEMMA Packets ==
    Start \notin Frame /\ End \notin Frame /\ Start # End
PROOF BY Bounds DEF Start, End, Frame

(* A sequence longer by one element. *)
LEMMA Appended ==
    ASSUME NEW S, NEW s \in Seq(S), NEW e \in S
    PROVE  /\ Append(s, e) \in Seq(S) /\ Append(s, e) # <<>>
           /\ Len(Append(s, e)) = Len(s) + 1
           /\ DOMAIN Append(s, e) = 1 .. Len(s) + 1
           /\ Append(s, e)[Len(s) + 1] = e
           /\ \A i \in 1 .. Len(s) : Append(s, e)[i] = s[i]
PROOF BY AppendProperties, LenProperties, EmptySeq

(* Two messages run together. *)
LEMMA Joined ==
    ASSUME NEW S, NEW s \in Seq(S), NEW t \in Seq(S)
    PROVE  /\ s \o t \in Seq(S)
           /\ Len(s \o t) = Len(s) + Len(t)
           /\ DOMAIN (s \o t) = 1 .. Len(s) + Len(t)
           /\ \A i \in 1 .. Len(s) : (s \o t)[i] = s[i]
           /\ \A i \in 1 .. Len(t) : (s \o t)[Len(s) + i] = t[i]
<1>1. s \o t \in Seq(S) /\ Len(s \o t) = Len(s) + Len(t)
  BY ConcatProperties
<1>2. Len(s) \in Nat /\ Len(t) \in Nat
  BY LenProperties
<1>3. ASSUME NEW i \in 1 .. Len(s)
      PROVE  (s \o t)[i] = s[i]
  BY <1>2, ConcatProperties
<1>4. ASSUME NEW i \in 1 .. Len(t)
      PROVE  (s \o t)[Len(s) + i] = t[i]
  <2>1. Len(s) + i \in 1 .. Len(s) + Len(t) /\ ~(Len(s) + i <= Len(s))
    BY <1>2
  <2>2. (s \o t)[Len(s) + i] = t[(Len(s) + i) - Len(s)]
    BY <2>1, ConcatProperties
  <2>3. (Len(s) + i) - Len(s) = i
    BY <1>2
  <2> QED
    BY <2>2, <2>3
<1> QED
  BY <1>1, <1>3, <1>4, LenProperties

(* A sequence without its first element. *)
LEMMA Popped ==
    ASSUME NEW S, NEW s \in Seq(S), s # <<>>
    PROVE  /\ Head(s) \in S /\ Head(s) = s[1] /\ Len(s) > 0
           /\ Tail(s) \in Seq(S)
           /\ Len(Tail(s)) = Len(s) - 1
           /\ DOMAIN Tail(s) = 1 .. Len(s) - 1
           /\ \A i \in 1 .. Len(s) - 1 : Tail(s)[i] = s[i + 1]
PROOF BY HeadTailProperties, LenProperties, EmptySeq

(* The empty sequence, and the ones with no element. *)
LEMMA Empty ==
    /\ \A S : <<>> \in Seq(S)
    /\ Len(<<>>) = 0 /\ DOMAIN <<>> = {}
    /\ \A S : \A s \in Seq(S) : s = <<>> <=> Len(s) = 0
PROOF BY EmptySeq, LenProperties

(* A sequence of one element. *)
LEMMA OneElement ==
    ASSUME NEW S, NEW e \in S
    PROVE  <<e>> \in Seq(S) /\ Len(<<e>>) = 1 /\ <<e>>[1] = e /\ DOMAIN <<e>> = {1} /\ <<e>> # <<>>
PROOF OBVIOUS

(* One packet sent over an open socket goes to the end of the line. *)
LEMMA SendsOne ==
    ASSUME WireTyped, NEW m \in Packet, Send(<<m>>)
    PROVE  /\ up' \in Seq(Packet)
           /\ link # "open" => up' = up
           /\ link = "open" =>
                /\ Len(up') = Len(up) + 1 /\ DOMAIN up' = 1 .. Len(up) + 1
                /\ up'[Len(up) + 1] = m
                /\ \A i \in 1 .. Len(up) : up'[i] = up[i]
<1>1. up \in Seq(Packet)
  BY DEF WireTyped
<1>2. <<m>> \in Seq(Packet) /\ Len(<<m>>) = 1 /\ <<m>>[1] = m
  BY OneElement
<1>3. CASE link # "open"
  BY <1>1, <1>3 DEF Send
<1>4. CASE link = "open"
  <2>1. up' = up \o <<m>>
    BY <1>4 DEF Send
  <2>2. /\ up' \in Seq(Packet)
        /\ Len(up') = Len(up) + 1 /\ DOMAIN up' = 1 .. Len(up) + 1
        /\ \A i \in 1 .. Len(up) : up'[i] = up[i]
        /\ up'[Len(up) + 1] = m
    <3>1. /\ up \o <<m>> \in Seq(Packet)
          /\ Len(up \o <<m>>) = Len(up) + 1
          /\ DOMAIN (up \o <<m>>) = 1 .. Len(up) + 1
          /\ \A i \in 1 .. Len(up) : (up \o <<m>>)[i] = up[i]
          /\ \A i \in 1 .. 1 : (up \o <<m>>)[Len(up) + i] = <<m>>[i]
      BY <1>1, <1>2, Joined
    <3>2. (up \o <<m>>)[Len(up) + 1] = m
      BY <3>1, <1>2
    <3> QED
      BY <2>1, <3>1, <3>2
  <2> QED
    BY <1>4, <2>2
<1> QED
  BY <1>3, <1>4

(* A whole turn, as the replay sends it. *)
LEMMA Framed ==
    ASSUME NEW s \in Seq(Frame)
    PROVE  LET t == <<Start>> \o s \o <<End>> IN
           /\ t \in Seq(Packet) /\ Len(t) = Len(s) + 2 /\ DOMAIN t = 1 .. Len(s) + 2
           /\ t[1] = Start /\ t[Len(s) + 2] = End
           /\ \A i \in 1 .. Len(s) : t[i + 1] = s[i]
<1> DEFINE a == <<Start>> \o s
           t == a \o <<End>>
<1>1. /\ <<Start>> \in Seq(Packet) /\ Len(<<Start>>) = 1 /\ <<Start>>[1] = Start
      /\ <<End>> \in Seq(Packet) /\ Len(<<End>>) = 1 /\ <<End>>[1] = End
  BY OneElement DEF Packet
<1>2. s \in Seq(Packet) /\ Len(s) \in Nat
  BY SeqMonotonic, LenProperties DEF Packet
<1>3. /\ a \in Seq(Packet) /\ Len(a) = 1 + Len(s)
      /\ a[1] = Start
      /\ \A i \in 1 .. Len(s) : a[1 + i] = s[i]
  <2>1. /\ a \in Seq(Packet) /\ Len(a) = Len(<<Start>>) + Len(s)
        /\ \A i \in 1 .. Len(<<Start>>) : a[i] = <<Start>>[i]
        /\ \A i \in 1 .. Len(s) : a[Len(<<Start>>) + i] = s[i]
    BY <1>1, <1>2, Joined
  <2>2. a[1] = <<Start>>[1]
    BY <2>1, <1>1
  <2> HIDE DEF a
  <2> QED
    BY <2>1, <2>2, <1>1
<1> HIDE DEF a
<1>4. /\ t \in Seq(Packet) /\ Len(t) = Len(a) + 1 /\ DOMAIN t = 1 .. Len(a) + 1
      /\ \A i \in 1 .. Len(a) : t[i] = a[i]
      /\ t[Len(a) + 1] = End
  <2>1. /\ t \in Seq(Packet) /\ Len(t) = Len(a) + Len(<<End>>)
        /\ DOMAIN t = 1 .. Len(a) + Len(<<End>>)
        /\ \A i \in 1 .. Len(a) : t[i] = a[i]
        /\ \A i \in 1 .. Len(<<End>>) : t[Len(a) + i] = <<End>>[i]
    BY <1>1, <1>3, Joined
  <2>2. t[Len(a) + 1] = <<End>>[1]
    BY <2>1, <1>1
  <2> HIDE DEF t
  <2> QED
    BY <2>1, <2>2, <1>1
<1> HIDE DEF t
<1>5. /\ t \in Seq(Packet) /\ Len(t) = Len(s) + 2 /\ DOMAIN t = 1 .. Len(s) + 2
      /\ t[1] = Start /\ t[Len(s) + 2] = End
  <2>1. Len(a) + 1 = Len(s) + 2 /\ 1 \in 1 .. Len(a)
    BY <1>2, <1>3
  <2> QED
    BY <2>1, <1>3, <1>4
<1>6. ASSUME NEW i \in 1 .. Len(s)
      PROVE  t[i + 1] = s[i]
  <2>1. i + 1 \in 1 .. Len(a) /\ i + 1 = 1 + i
    BY <1>2, <1>3
  <2> QED
    BY <2>1, <1>3, <1>4
<1> QED
  BY <1>5, <1>6 DEF t, a

----------------------------------------------------------------------------
(* What the steps do *)

(* All that was said in a press is a sequence of its frames. *)
LEMMA WholeAnswer ==
    ASSUME PageTyped, NEW p \in 1 .. Presses
    PROVE  /\ p \in 1 .. MaxPresses /\ spoken[p] \in 0 .. MaxFrames
           /\ Whole(p) \in Seq(Frame) /\ Len(Whole(p)) = spoken[p]
           /\ DOMAIN Whole(p) = 1 .. spoken[p]
           /\ \A k \in 1 .. spoken[p] : Whole(p)[k] = <<p, k>>
<1>1. spoken \in Seq(0 .. MaxFrames) /\ Len(spoken) \in Nat /\ Len(spoken) <= MaxPresses
  BY LenProperties DEF PageTyped
<1>2. p \in 1 .. Len(spoken) /\ p \in 1 .. MaxPresses
  BY <1>1, Bounds DEF Presses
<1>3. spoken[p] \in 0 .. MaxFrames
  BY <1>1, <1>2, ElementOfSeq
<1>4. \A k \in 1 .. spoken[p] : <<p, k>> \in Frame
  BY <1>2, <1>3, Bounds DEF Frame
<1>5. Whole(p) \in Seq(Frame) /\ Len(Whole(p)) = spoken[p]
  BY <1>3, <1>4, Bounds DEF Whole
<1> QED
  BY <1>2, <1>3, <1>5 DEF Whole

(* The press that is being held is the last. *)
LEMMA LastPress ==
    ASSUME PageTyped
    PROVE  Presses \in Nat /\ (holding => Presses \in 1 .. Presses /\ Presses > 0)
<1>1. Len(spoken) \in Nat
  BY LenProperties DEF PageTyped
<1> QED
  BY <1>1 DEF PageTyped, Presses

(* A press adds an answer with nothing said yet. *)
LEMMA PressStep ==
    ASSUME Typed, Press
    PROVE  /\ ~holding /\ holding' /\ Presses' = Presses + 1 /\ Presses' <= MaxPresses
           /\ spoken' \in Seq(0 .. MaxFrames) /\ spoken'[Presses + 1] = 0
           /\ \A p \in 1 .. Presses : spoken'[p] = spoken[p] /\ Whole(p)' = Whole(p)
           /\ Whole(Presses)' = <<>>
           /\ Start \in Packet /\ Send(<<Start>>)
<1>1. spoken \in Seq(0 .. MaxFrames) /\ Presses \in Nat /\ 0 \in 0 .. MaxFrames
  BY Bounds, LastPress DEF Typed, PageTyped
<1>2. /\ spoken' \in Seq(0 .. MaxFrames) /\ Len(spoken') = Presses + 1
      /\ spoken'[Presses + 1] = 0
      /\ \A p \in 1 .. Presses : spoken'[p] = spoken[p]
  BY <1>1, Appended DEF Press, Presses
<1>3. \A p \in 1 .. Presses : Whole(p)' = Whole(p)
  BY <1>2 DEF Whole
<1>4. Presses' = Presses + 1 /\ Presses' <= MaxPresses
  BY <1>1, <1>2, Bounds DEF Presses, Press
<1>5. Whole(Presses)' = <<>>
  <2>1. spoken'[Presses'] = 0
    BY <1>2, <1>4
  <2>2. Whole(Presses)' = [k \in 1 .. 0 |-> <<Presses', k>>]
    BY <2>1 DEF Whole
  <2>3. [k \in 1 .. 0 |-> <<Presses', k>>] = <<>>
    OBVIOUS
  <2> QED
    BY <2>2, <2>3
<1>6. ~holding /\ holding' /\ Start \in Packet /\ Send(<<Start>>)
  BY DEF Press, Packet
<1> QED
  BY <1>2, <1>3, <1>4, <1>5, <1>6

(* The frame that is spoken next. *)
NextFrame == <<Presses, spoken[Presses] + 1>>

(* Speaking adds a frame to the answer, to the buffer's turn, and to what  *)
(* is on its way.                                                          *)
LEMMA SpeakStep ==
    ASSUME Typed, Speak
    PROVE  /\ holding /\ Presses \in 1 .. Presses /\ Presses' = Presses
           /\ spoken' \in Seq(0 .. MaxFrames) /\ spoken[Presses] \in 0 .. MaxFrames
           /\ spoken'[Presses] = spoken[Presses] + 1
           /\ \A p \in 1 .. Presses : p # Presses => spoken'[p] = spoken[p] /\ Whole(p)' = Whole(p)
           /\ Whole(Presses)' = Append(Whole(Presses), NextFrame)
           /\ NextFrame \in Frame /\ NextFrame \in Packet /\ Send(<<NextFrame>>)
           /\ bufferTurnId = 0 => frames' = frames
           /\ bufferTurnId # 0 =>
                /\ DOMAIN frames' = DOMAIN frames \cup {bufferTurnId}
                /\ frames'[bufferTurnId] = Append(Store(bufferTurnId), NextFrame)
                /\ \A i \in DOMAIN frames : i # bufferTurnId => frames'[i] = frames[i]
<1>1. holding /\ Presses \in Nat /\ Presses \in 1 .. Presses
  BY LastPress DEF Speak, Typed
<1>2. spoken \in Seq(0 .. MaxFrames) /\ Presses = Len(spoken) /\ Presses <= MaxPresses
  BY DEF Typed, PageTyped, Presses
<1>3. spoken[Presses] \in 0 .. MaxFrames /\ spoken[Presses] < MaxFrames
  BY <1>1, WholeAnswer DEF Typed, Speak
<1>4. spoken[Presses] + 1 \in 0 .. MaxFrames /\ spoken[Presses] + 1 \in 1 .. MaxFrames
  BY <1>3, Bounds
<1>5. spoken' = [spoken EXCEPT ![Presses] = spoken[Presses] + 1]
  BY DEF Speak
<1>6. /\ spoken' \in Seq(0 .. MaxFrames) /\ Len(spoken') = Len(spoken)
      /\ \A j \in 1 .. Len(spoken) : spoken'[j] = IF j = Presses THEN spoken[Presses] + 1 ELSE spoken[j]
  <2> DEFINE e == spoken[Presses] + 1
  <2>1. e \in 0 .. MaxFrames /\ Presses \in 1 .. Len(spoken)
    BY <1>1, <1>2, <1>4
  <2> HIDE DEF e
  <2>2. /\ [spoken EXCEPT ![Presses] = e] \in Seq(0 .. MaxFrames)
        /\ Len([spoken EXCEPT ![Presses] = e]) = Len(spoken)
        /\ \A j \in 1 .. Len(spoken) :
             [spoken EXCEPT ![Presses] = e][j] = IF j = Presses THEN e ELSE spoken[j]
    BY <1>2, <2>1, ExceptSeq
  <2>3. spoken' = [spoken EXCEPT ![Presses] = e]
    BY <1>5 DEF e
  <2> QED
    BY <2>2, <2>3 DEF e
<1>7. Presses' = Presses /\ spoken'[Presses] = spoken[Presses] + 1
  BY <1>1, <1>2, <1>6 DEF Presses
<1>8. NextFrame \in Frame /\ NextFrame \in Packet
  <2>1. Presses \in 1 .. MaxPresses
    BY <1>1, <1>2, Bounds
  <2> QED
    BY <1>4, <2>1 DEF NextFrame, Frame, Packet
<1>9. \A p \in 1 .. Presses : p # Presses => spoken'[p] = spoken[p] /\ Whole(p)' = Whole(p)
  <2> SUFFICES ASSUME NEW p \in 1 .. Presses, p # Presses
               PROVE  spoken'[p] = spoken[p] /\ Whole(p)' = Whole(p)
    OBVIOUS
  <2>1. spoken'[p] = spoken[p]
    BY <1>2, <1>6
  <2> QED
    BY <2>1 DEF Whole
<1>10. Whole(Presses)' = Append(Whole(Presses), NextFrame)
  <2> DEFINE n == spoken[Presses]
             p == Presses
             s == [k \in 1 .. n + 1 |-> <<p, k>>]
             t == Append(Whole(Presses), NextFrame)
  <2>1. Whole(Presses)' = s
    BY <1>7 DEF Whole
  <2>2. /\ Whole(Presses) \in Seq(Frame) /\ Len(Whole(Presses)) = n
        /\ \A k \in 1 .. n : Whole(Presses)[k] = <<p, k>>
    BY <1>1, WholeAnswer DEF Typed
  <2>3. /\ t \in Seq(Frame) /\ Len(t) = n + 1
        /\ t[n + 1] = NextFrame
        /\ \A i \in 1 .. n : t[i] = Whole(Presses)[i]
    BY <2>2, <1>8, Appended
  <2>4. n \in Nat /\ NextFrame = <<p, n + 1>> /\ n < MaxFrames /\ p \in 1 .. MaxPresses
    BY <1>1, <1>2, <1>3, Bounds DEF NextFrame
  <2> HIDE DEF t, n, p
  <2>5. \A k \in 1 .. n + 1 : <<p, k>> \in Frame
    BY <2>4, Bounds DEF Frame
  <2>6. s \in Seq(Frame) /\ Len(s) = n + 1
    BY <2>4, <2>5
  <2>7. \A i \in 1 .. n + 1 : s[i] = t[i]
    <3> TAKE i \in 1 .. n + 1
    <3>1. s[i] = <<p, i>>
      OBVIOUS
    <3>2. CASE i = n + 1
      BY <3>1, <3>2, <2>3, <2>4
    <3>3. CASE i # n + 1
      <4>1. i \in 1 .. n
        BY <3>3, <2>4
      <4> QED
        BY <3>1, <4>1, <2>2, <2>3 DEF p
    <3> QED
      BY <3>2, <3>3
  <2> HIDE DEF s
  <2>8. s = t
    BY <2>3, <2>6, <2>7, SeqEqual
  <2> QED
    BY <2>1, <2>8 DEF t
<1>11. /\ Send(<<NextFrame>>)
       /\ frames' = CASE bufferTurnId = 0 -> frames
                      [] bufferTurnId \in DOMAIN frames ->
                           [frames EXCEPT ![bufferTurnId] = Append(@, NextFrame)]
                      [] OTHER -> [i \in DOMAIN frames \cup {bufferTurnId} |->
                                     IF i = bufferTurnId THEN <<NextFrame>> ELSE frames[i]]
  <2>1. <<Presses, spoken'[Presses]>> = NextFrame
    BY <1>7 DEF NextFrame
  <2> DEFINE f == <<Presses, spoken'[Presses]>>
  <2>2. /\ Send(<<f>>)
        /\ frames' = CASE bufferTurnId = 0 -> frames
                       [] bufferTurnId \in DOMAIN frames ->
                            [frames EXCEPT ![bufferTurnId] = Append(@, f)]
                       [] OTHER -> [i \in DOMAIN frames \cup {bufferTurnId} |->
                                      IF i = bufferTurnId THEN <<f>> ELSE frames[i]]
    BY DEF Speak
  <2>3. f = NextFrame
    BY <2>1
  <2> HIDE DEF f
  <2> QED
    BY <2>2, <2>3
<1>12. bufferTurnId = 0 => frames' = frames
  BY <1>11
<1>13. ASSUME bufferTurnId # 0
       PROVE  /\ DOMAIN frames' = DOMAIN frames \cup {bufferTurnId}
              /\ frames'[bufferTurnId] = Append(Store(bufferTurnId), NextFrame)
              /\ \A i \in DOMAIN frames : i # bufferTurnId => frames'[i] = frames[i]
  <2>1. CASE bufferTurnId \in DOMAIN frames
    <3>1. frames' = [frames EXCEPT ![bufferTurnId] = Append(@, NextFrame)]
      BY <1>11, <1>13, <2>1
    <3> QED
      BY <3>1, <2>1 DEF Store
  <2>2. CASE bufferTurnId \notin DOMAIN frames
    <3>1. frames' = [i \in DOMAIN frames \cup {bufferTurnId} |->
                        IF i = bufferTurnId THEN <<NextFrame>> ELSE frames[i]]
      BY <1>11, <1>13, <2>2
    <3>2. Append(<<>>, NextFrame) = <<NextFrame>>
      OBVIOUS
    <3> QED
      BY <3>1, <3>2, <2>2 DEF Store
  <2> QED
    BY <2>1, <2>2
<1> QED
  BY <1>1, <1>3, <1>6, <1>7, <1>8, <1>9, <1>10, <1>11, <1>12, <1>13

(* A replay stores what it took as a new turn and sends it whole. *)
LEMMA ReplayStep ==
    ASSUME Typed, Replay
    PROVE  /\ replay.pc = "taken" /\ replay.took \in Seq(Frame) /\ replay.took # <<>>
           /\ ids' = ids + 1 /\ currentTurnId' = ids' /\ bufferTurnId' = ids'
           /\ ids' \notin DOMAIN frames /\ DOMAIN frames' = DOMAIN frames \cup {ids'}
           /\ frames'[ids'] = replay.took
           /\ \A i \in DOMAIN frames : frames'[i] = frames[i]
           /\ up' \in Seq(Packet)
           /\ link # "open" => up' = up
           /\ link = "open" =>
                /\ Len(up') = Len(up) + (Len(replay.took) + 2)
                /\ DOMAIN up' = 1 .. Len(up) + (Len(replay.took) + 2)
                /\ \A i \in 1 .. Len(up) : up'[i] = up[i]
                /\ up'[Len(up) + 1] = Start
                /\ up'[Len(up) + (Len(replay.took) + 2)] = End
                /\ \A i \in 1 .. Len(replay.took) : up'[Len(up) + (i + 1)] = replay.took[i]
<1>1. replay.pc = "taken" /\ replay.took \in Seq(Frame) /\ replay.took # <<>>
  BY DEF Replay, Typed, ReplayTyped
<1>2. ids' = ids + 1 /\ currentTurnId' = ids' /\ bufferTurnId' = ids'
  BY DEF Replay
<1>3. ids' \notin DOMAIN frames
  BY <1>2 DEF Typed, ClientTyped
<1>4. /\ DOMAIN frames' = DOMAIN frames \cup {ids'}
      /\ frames'[ids'] = replay.took
      /\ \A i \in DOMAIN frames : frames'[i] = frames[i]
  BY <1>3 DEF Replay
<1>5. up \in Seq(Packet)
  BY DEF Typed, WireTyped
<1>6. CASE link # "open"
  BY <1>1, <1>2, <1>3, <1>4, <1>5, <1>6 DEF Replay, Send
<1>7. CASE link = "open"
  <2> DEFINE s == replay.took
             t == <<Start>> \o s \o <<End>>
  <2>1. s \in Seq(Frame) /\ Len(s) \in Nat /\ Len(up) \in Nat
    BY <1>1, <1>5, LenProperties
  <2>2. up' = up \o t
    BY <1>7 DEF Replay, Send
  <2> HIDE DEF s
  <2>3. /\ t \in Seq(Packet) /\ Len(t) = Len(s) + 2
        /\ t[1] = Start /\ t[Len(s) + 2] = End
        /\ \A i \in 1 .. Len(s) : t[i + 1] = s[i]
    BY <2>1, Framed
  <2> HIDE DEF t
  <2>4. /\ up' \in Seq(Packet) /\ Len(up') = Len(up) + Len(t)
        /\ DOMAIN up' = 1 .. Len(up) + Len(t)
        /\ \A i \in 1 .. Len(up) : up'[i] = up[i]
        /\ \A i \in 1 .. Len(t) : up'[Len(up) + i] = t[i]
    <3>1. /\ up \o t \in Seq(Packet) /\ Len(up \o t) = Len(up) + Len(t)
          /\ DOMAIN (up \o t) = 1 .. Len(up) + Len(t)
          /\ \A i \in 1 .. Len(up) : (up \o t)[i] = up[i]
          /\ \A i \in 1 .. Len(t) : (up \o t)[Len(up) + i] = t[i]
      <4>1. t \in Seq(Packet)
        BY <2>3
      <4> QED
        BY ONLY <1>5, <4>1, Joined
    <3> QED
      BY <2>2, <3>1
  <2>5. up'[Len(up) + 1] = Start /\ up'[Len(up) + (Len(s) + 2)] = End
    <3>1. 1 \in 1 .. Len(t) /\ Len(s) + 2 \in 1 .. Len(t)
      BY <2>1, <2>3
    <3> QED
      BY <3>1, <2>3, <2>4
  <2>6. ASSUME NEW i \in 1 .. Len(s)
        PROVE  up'[Len(up) + (i + 1)] = s[i]
    <3>1. i + 1 \in 1 .. Len(t)
      BY <2>1, <2>3
    <3> QED
      BY <3>1, <2>3, <2>4
  <2>7. /\ Len(up') = Len(up) + (Len(s) + 2)
        /\ DOMAIN up' = 1 .. Len(up) + (Len(s) + 2)
    BY <2>3, <2>4
  <2> QED
    BY <1>1, <1>2, <1>3, <1>4, <1>7, <2>4, <2>5, <2>6, <2>7 DEF s
<1> QED
  BY <1>6, <1>7

(* The gateway reads the first message of the line. *)
LEMMA ReceiveStep ==
    ASSUME Typed, Receive
    PROVE  /\ link = "open" /\ up \in Seq(Packet) /\ up' \in Seq(Packet)
           /\ Head(up) = up[1] /\ Len(up) > 0 /\ up[1] \in Packet
           /\ Len(up') = Len(up) - 1 /\ DOMAIN up' = 1 .. Len(up) - 1
           /\ \A i \in 1 .. Len(up) - 1 : up'[i] = up[i + 1]
<1>1. up # <<>> /\ up' = Tail(up) /\ up \in Seq(Packet) /\ link = "open"
  BY DEF Receive, Typed, WireTyped
<1> QED
  BY <1>1, Popped

----------------------------------------------------------------------------
(* Types *)

(* Nothing has happened yet. *)
LEMMA InitTyped == Init => Typed
<1> SUFFICES ASSUME Init PROVE Typed
  OBVIOUS
<1>1. Idle \in [pc : {"idle", "reading", "taken"}, took : Seq(Frame)]
      /\ Idle.pc = "idle" /\ Idle.took = <<>>
  BY Empty DEF Idle
<1>2. PageTyped
  <2>1. holding \in BOOLEAN /\ ~holding
    BY DEF Init
  <2>2. spoken \in Seq(0 .. MaxFrames) /\ Len(spoken) = 0
    BY Empty DEF Init
  <2>3. Len(spoken) <= MaxPresses
    BY <2>2, Bounds
  <2> QED
    BY <2>1, <2>2, <2>3 DEF PageTyped
<1>6. ClientTyped
  <2>1. DOMAIN frames = {}
    BY Empty DEF Init
  <2> QED
    BY <2>1 DEF Init, ClientTyped
<1>3. ReplayTyped
  BY <1>1 DEF Init, ReplayTyped
<1>4. WireTyped /\ PumpTyped
  BY Empty, Bounds DEF Init, WireTyped, PumpTyped
<1>5. StorageTyped /\ HistoryTyped
  BY Bounds DEF Init, StorageTyped, HistoryTyped
<1> QED
  BY <1>2, <1>3, <1>4, <1>5, <1>6 DEF Typed

(* A turn with an id of its own, for an answer that is new. *)
LEMMA PressTyped ==
    ASSUME Typed, Press
    PROVE  Typed'
<1>1. PageTyped'
  <2>1. Presses \in Nat
    BY LastPress DEF Typed
  <2>2. Len(spoken') = Len(spoken) + 1 /\ Len(spoken) \in Nat /\ Len(spoken') <= MaxPresses
    BY <2>1, PressStep DEF Presses
  <2>3. spoken' \in Seq(0 .. MaxFrames) /\ holding' \in BOOLEAN
    BY PressStep DEF Press
  <2> QED
    BY <2>2, <2>3 DEF PageTyped
<1>2. ClientTyped'
  BY DEF Press, ClientTyped, Typed
<1>3. ReplayTyped'
  BY DEF Press, ReplayTyped, Typed
<1>4. WireTyped'
  BY PressStep, SendsOne DEF Press, WireTyped, Typed, pump
<1>5. PumpTyped'
  BY DEF Press, PumpTyped, Typed, pump
<1>6. StorageTyped'
  BY DEF Press, StorageTyped, Typed, pump, storage
<1>7. HistoryTyped'
  BY DEF Press, HistoryTyped, Typed
<1> QED
  BY <1>1, <1>2, <1>3, <1>4, <1>5, <1>6, <1>7 DEF Typed

(* A frame is stored under the buffer's turn, if it has one. *)
LEMMA SpeakTyped ==
    ASSUME Typed, Speak
    PROVE  Typed'
<1>1. PageTyped'
  <2>1. Len(spoken') <= MaxPresses /\ Len(spoken') > 0
    BY SpeakStep DEF Presses, PageTyped, Typed
  <2>2. holding' \in BOOLEAN /\ spoken' \in Seq(0 .. MaxFrames)
    BY SpeakStep DEF Speak, PageTyped, Typed
  <2> QED
    BY <2>1, <2>2 DEF PageTyped
<1>2. ClientTyped'
  <2>1. /\ ids' = ids /\ currentTurnId' = currentTurnId /\ bufferTurnId' = bufferTurnId
    BY DEF Speak
  <2>2. CASE bufferTurnId = 0
    BY <2>1, <2>2, SpeakStep DEF Typed, ClientTyped
  <2>3. CASE bufferTurnId # 0
    <3>1. bufferTurnId \in 1 .. ids
      BY <2>3 DEF Typed, ClientTyped
    <3>2. Store(bufferTurnId) \in Seq(Frame)
      BY Empty DEF Store, Typed, ClientTyped
    <3>3. frames'[bufferTurnId] \in Seq(Frame) \ {<<>>}
      <4>1. NextFrame \in Frame /\ frames'[bufferTurnId] = Append(Store(bufferTurnId), NextFrame)
        BY <2>3, SpeakStep
      <4>2. /\ Append(Store(bufferTurnId), NextFrame) \in Seq(Frame)
            /\ Append(Store(bufferTurnId), NextFrame) # <<>>
        BY <3>2, <4>1, Appended
      <4> QED
        BY <4>1, <4>2
    <3>4. \A i \in DOMAIN frames' : frames'[i] \in Seq(Frame) \ {<<>>}
      BY <2>3, <3>3, SpeakStep DEF Typed, ClientTyped
    <3>5. DOMAIN frames' \subseteq 1 .. ids
      BY <2>3, <3>1, SpeakStep DEF Typed, ClientTyped
    <3> QED
      BY <2>1, <3>4, <3>5 DEF Typed, ClientTyped
  <2> QED
    BY <2>2, <2>3
<1>3. ReplayTyped'
  BY DEF Speak, ReplayTyped, Typed
<1>4. WireTyped'
  BY SpeakStep, SendsOne DEF Speak, WireTyped, Typed, pump
<1>5. PumpTyped'
  BY DEF Speak, PumpTyped, Typed, pump
<1>6. StorageTyped'
  BY DEF Speak, StorageTyped, Typed, pump, storage
<1>7. HistoryTyped'
  BY DEF Speak, HistoryTyped, Typed, history
<1> QED
  BY <1>1, <1>2, <1>3, <1>4, <1>5, <1>6, <1>7 DEF Typed

(* Letting go sends an end. *)
LEMMA ReleaseTyped ==
    ASSUME Typed, Release
    PROVE  Typed'
<1>1. PageTyped'
  BY DEF Release, PageTyped, Typed
<1>2. ClientTyped'
  BY DEF Release, ClientTyped, Typed, client
<1>3. ReplayTyped'
  BY DEF Release, ReplayTyped, Typed
<1>4. WireTyped'
  <2>1. End \in Packet /\ Send(<<End>>)
    BY DEF Release, Packet
  <2> QED
    BY <2>1, SendsOne DEF Release, WireTyped, Typed, pump
<1>5. PumpTyped'
  BY DEF Release, PumpTyped, Typed, pump
<1>6. StorageTyped'
  BY DEF Release, StorageTyped, Typed, pump, storage
<1>7. HistoryTyped'
  BY DEF Release, HistoryTyped, Typed, history
<1> QED
  BY <1>1, <1>2, <1>3, <1>4, <1>5, <1>6, <1>7 DEF Typed

(* A lost connection takes what was on its way. *)
LEMMA DropTyped ==
    ASSUME Typed, Drop
    PROVE  Typed'
<1>1. PageTyped'
  BY DEF Drop, PageTyped, Typed, page
<1>2. ClientTyped'
  BY DEF Drop, ClientTyped, Typed, client
<1>3. ReplayTyped'
  BY DEF Drop, ReplayTyped, Typed
<1>4. WireTyped'
  BY Empty DEF Drop, WireTyped, Typed
<1>5. PumpTyped'
  BY Empty DEF Drop, PumpTyped, Typed
<1>6. StorageTyped'
  BY DEF Drop, StorageTyped, Typed, storage
<1>7. HistoryTyped'
  BY DEF Drop, HistoryTyped, Typed, history
<1> QED
  BY <1>1, <1>2, <1>3, <1>4, <1>5, <1>6, <1>7 DEF Typed

(* The number of connections is bounded by the drops before them. *)
LEMMA ReconnectTyped ==
    ASSUME Typed, Reconnect
    PROVE  Typed'
<1>1. PageTyped'
  BY DEF Reconnect, PageTyped, Typed, page
<1>2. ClientTyped'
  BY DEF Reconnect, ClientTyped, Typed, client
<1>3. ReplayTyped'
  BY Empty DEF Reconnect, ReplayTyped, Typed, Idle
<1>4. WireTyped'
  BY Bounds DEF Reconnect, WireTyped, Typed, pump
<1>5. PumpTyped'
  BY DEF Reconnect, PumpTyped, Typed, pump
<1>6. StorageTyped'
  <2>1. connection \in Nat /\ connection' = connection + 1
    BY Bounds DEF Reconnect, Typed, WireTyped
  <2>2. 1 .. connection \subseteq 1 .. connection'
    BY <2>1
  <2> QED
    BY <2>2 DEF Reconnect, StorageTyped, Typed, pump, storage
<1>7. HistoryTyped'
  BY DEF Reconnect, HistoryTyped, Typed
<1> QED
  BY <1>1, <1>2, <1>3, <1>4, <1>5, <1>6, <1>7 DEF Typed

(* A stored turn is taken out, or there is none. *)
LEMMA TakeTyped ==
    ASSUME Typed, takeIncompleteTurn
    PROVE  Typed'
<1>1. PageTyped'
  BY DEF takeIncompleteTurn, PageTyped, Typed, page
<1>2. ClientTyped' /\ ReplayTyped'
  <2>1. CASE replay' = Idle /\ UNCHANGED client
    BY <2>1, Empty DEF ClientTyped, ReplayTyped, Typed, client, Idle
  <2>2. ASSUME NEW id \in DOMAIN frames,
               replay' = [pc |-> "taken", took |-> frames[id]],
               frames' = Without(id),
               bufferTurnId' = IF bufferTurnId = id THEN 0 ELSE bufferTurnId,
               UNCHANGED <<currentTurnId, ids>>
        PROVE  ClientTyped' /\ ReplayTyped'
    BY <2>2 DEF ClientTyped, ReplayTyped, Typed, Without
  <2> QED
    BY <2>1, <2>2 DEF takeIncompleteTurn
<1>4. WireTyped'
  BY DEF takeIncompleteTurn, WireTyped, Typed, wire, pump
<1>5. PumpTyped'
  BY DEF takeIncompleteTurn, PumpTyped, Typed, pump
<1>6. StorageTyped'
  BY DEF takeIncompleteTurn, StorageTyped, Typed, wire, pump, storage
<1>7. HistoryTyped'
  BY DEF takeIncompleteTurn, HistoryTyped, Typed, history
<1> QED
  BY <1>1, <1>2, <1>4, <1>5, <1>6, <1>7 DEF Typed

(* What was taken is a turn again. *)
LEMMA ReplayIsTyped ==
    ASSUME Typed, Replay
    PROVE  Typed'
<1>1. PageTyped'
  BY DEF Replay, PageTyped, Typed, page
<1>2. ClientTyped'
  <2>1. ids \in Nat /\ ids' = ids + 1 /\ DOMAIN frames \subseteq 1 .. ids
    BY DEF Replay, Typed, ClientTyped
  <2>2. DOMAIN frames' \subseteq 1 .. ids'
    BY <2>1, ReplayStep
  <2>3. \A id \in DOMAIN frames' : frames'[id] \in Seq(Frame) \ {<<>>}
    BY ReplayStep DEF Typed, ClientTyped
  <2>4. ids' \in Nat /\ currentTurnId' \in 0 .. ids' /\ bufferTurnId' \in 0 .. ids'
    BY <2>1, ReplayStep
  <2> QED
    BY <2>2, <2>3, <2>4 DEF ClientTyped
<1>3. ReplayTyped'
  BY Empty DEF Replay, ReplayTyped, Typed, Idle
<1>4. WireTyped'
  BY ReplayStep DEF Replay, WireTyped, Typed, pump
<1>5. PumpTyped'
  BY DEF Replay, PumpTyped, Typed, pump
<1>6. StorageTyped'
  BY DEF Replay, StorageTyped, Typed, pump, storage
<1>7. HistoryTyped'
  BY DEF Replay, HistoryTyped, Typed, history
<1> QED
  BY <1>1, <1>2, <1>3, <1>4, <1>5, <1>6, <1>7 DEF Typed

(* The current turn, and what the store has of it, is cleared. *)
LEMMA CompleteTyped ==
    ASSUME Typed, turn_complete
    PROVE  Typed'
<1>1. PageTyped'
  BY DEF turn_complete, PageTyped, Typed, page
<1>2. ClientTyped'
  <2>1. CASE UNCHANGED client
    BY <2>1 DEF ClientTyped, Typed, client
  <2>2. CASE /\ frames' = Without(currentTurnId)
             /\ bufferTurnId' = IF bufferTurnId = currentTurnId THEN 0 ELSE bufferTurnId
             /\ currentTurnId' = 0 /\ UNCHANGED ids
    BY <2>2 DEF ClientTyped, Typed, Without
  <2> QED
    BY <2>1, <2>2 DEF turn_complete
<1>3. ReplayTyped'
  BY DEF turn_complete, ReplayTyped, Typed
<1>4. WireTyped'
  BY DEF turn_complete, WireTyped, Typed, pump
<1>5. PumpTyped'
  BY DEF turn_complete, PumpTyped, Typed, pump
<1>6. StorageTyped'
  BY DEF turn_complete, StorageTyped, Typed, pump, storage
<1>7. HistoryTyped'
  <2>1. CASE currentTurnId \in DOMAIN frames
    <3>1. frames[currentTurnId] \in Seq(Frame)
      BY <2>1 DEF Typed, ClientTyped
    <3>2. Range(frames[currentTurnId]) \subseteq Frame
      BY <3>1, LenProperties, ElementOfSeq DEF Range
    <3>3. {f[1] : f \in Range(frames[currentTurnId])} \subseteq 1 .. MaxPresses
      BY <3>2 DEF Frame
    <3> QED
      BY <2>1, <3>3 DEF turn_complete, HistoryTyped, Typed
  <2>2. CASE currentTurnId \notin DOMAIN frames
    BY <2>2 DEF turn_complete, HistoryTyped, Typed
  <2> QED
    BY <2>1, <2>2
<1> QED
  BY <1>1, <1>2, <1>3, <1>4, <1>5, <1>6, <1>7 DEF Typed

(* The pump reads one message. *)
LEMMA ReceiveTyped ==
    ASSUME Typed, Receive
    PROVE  Typed'
<1>1. PageTyped' /\ ClientTyped'
  BY DEF Receive, PageTyped, ClientTyped, Typed, page, client
<1>2. ReplayTyped' /\ HistoryTyped'
  BY DEF Receive, ReplayTyped, HistoryTyped, Typed, history
<1>3. WireTyped'
  <2>1. up' \in Seq(Packet) /\ link' = "open"
    BY ReceiveStep DEF Receive
  <2>2. acks' = acks /\ connection' = connection
    BY DEF Receive
  <2> QED
    BY <2>1, <2>2 DEF WireTyped, Typed
<1>4. PumpTyped'
  <2>1. CASE activity_start
    BY <2>1, Empty DEF activity_start, PumpTyped, Typed
  <2>2. CASE activity_end
    BY <2>2, Empty DEF activity_end, PumpTyped, Typed
  <2>3. CASE audio_frame
    BY <2>3, Appended DEF audio_frame, PumpTyped, Typed
  <2> QED
    BY <2>1, <2>2, <2>3 DEF Receive
<1>5. StorageTyped'
  <2>1. segments' = segments /\ failures' = failures /\ connection' = connection
    BY DEF Receive
  <2>2. turns \in Nat /\ connection \in 1 .. connection
    BY Bounds DEF Typed, PumpTyped, WireTyped
  <2>3. CASE activity_start
    <3>1. 1 .. turns \subseteq 1 .. turns'
      BY <2>2, <2>3 DEF activity_start
    <3> QED
      BY <2>1, <2>3, <3>1 DEF activity_start, StorageTyped, Typed
  <2>4. CASE activity_end
    <3> DEFINE new == [turn |-> turn, connection |-> connection, pcm |-> buffer]
    <3>1. CASE turn = 0
      BY <2>1, <2>4, <3>1 DEF activity_end, StorageTyped, Typed
    <3>2. CASE turn # 0
      <4>1. flushes' = flushes \cup {new} /\ turns' = turns
        BY <2>4, <3>2 DEF activity_end
      <4>2. new.turn \in 1 .. turns /\ new.connection \in 1 .. connection /\ new.pcm \in Seq(Frame)
        BY <2>2, <3>2 DEF Typed, PumpTyped
      <4> HIDE DEF new
      <4> QED
        BY <2>1, <4>1, <4>2 DEF StorageTyped, Typed
    <3> QED
      BY <3>1, <3>2
  <2>5. CASE audio_frame
    BY <2>1, <2>5 DEF audio_frame, StorageTyped, Typed
  <2> QED
    BY <2>3, <2>4, <2>5 DEF Receive
<1> QED
  BY <1>1, <1>2, <1>3, <1>4, <1>5 DEF Typed

(* A flush ends, stored or not. *)
LEMMA FlushTyped ==
    ASSUME Typed, Flush \/ FlushRaises
    PROVE  Typed'
<1>1. PageTyped' /\ ClientTyped'
  BY DEF Flush, FlushRaises, PageTyped, ClientTyped, Typed, page, client
<1>2. ReplayTyped' /\ HistoryTyped'
  BY DEF Flush, FlushRaises, ReplayTyped, HistoryTyped, Typed, history
<1>3. WireTyped'
  BY DEF Flush, FlushRaises, WireTyped, Typed, wire, pump
<1>4. PumpTyped'
  BY DEF Flush, FlushRaises, PumpTyped, Typed, pump
<1>5. StorageTyped'
  <2>1. CASE Flush
    BY <2>1 DEF Flush, StorageTyped, Typed, pump
  <2>2. CASE FlushRaises
    <3>1. failures' \in 0 .. MaxFailures
      BY <2>2, Bounds DEF FlushRaises, StorageTyped, Typed
    <3> QED
      BY <2>2, <3>1 DEF FlushRaises, StorageTyped, Typed, pump, wire
  <2> QED
    BY <2>1, <2>2
<1> QED
  BY <1>1, <1>2, <1>3, <1>4, <1>5 DEF Typed

(* Every variable keeps its type. *)
LEMMA NextTyped == Typed /\ [Next]_vars => Typed'
<1> SUFFICES ASSUME Typed, [Next]_vars PROVE Typed'
  OBVIOUS
<1>1. CASE Candidate
  BY <1>1, PressTyped, SpeakTyped, ReleaseTyped DEF Candidate
<1>2. CASE System
  BY <1>2, ReconnectTyped, TakeTyped, ReplayIsTyped, CompleteTyped, ReceiveTyped, FlushTyped DEF System
<1>3. CASE Drop \/ FlushRaises
  BY <1>3, DropTyped, FlushTyped
<1>4. CASE UNCHANGED vars
  <2>1. UNCHANGED <<holding, spoken, currentTurnId, bufferTurnId, frames, ids, replay>>
    BY <1>4 DEF vars, page, client
  <2>2. UNCHANGED <<link, up, acks, connection, turn, buffer, turns>>
    BY <1>4 DEF vars, wire, pump
  <2>3. UNCHANGED <<flushes, segments, failures, acked, careful, alone>>
    BY <1>4 DEF vars, storage, history
  <2>4. PageTyped' /\ ClientTyped' /\ ReplayTyped'
    BY <2>1 DEF Typed, PageTyped, ClientTyped, ReplayTyped
  <2>5. WireTyped' /\ PumpTyped'
    BY <2>2 DEF Typed, WireTyped, PumpTyped
  <2>6. StorageTyped' /\ HistoryTyped'
    BY <2>2, <2>3 DEF Typed, StorageTyped, HistoryTyped
  <2> QED
    BY <2>4, <2>5, <2>6 DEF Typed
<1> QED
  BY <1>1, <1>2, <1>3, <1>4 DEF Next

(* The types are those that the runs check. *)
LEMMA TypedIsTypeOK == Typed => TypeOK
<1> SUFFICES ASSUME Typed PROVE TypeOK
  OBVIOUS
<1>1. {holding, careful, alone} \subseteq BOOLEAN /\ acked \subseteq 1 .. MaxPresses
  BY DEF Typed, PageTyped, HistoryTyped
<1>2. spoken \in Seq(0 .. MaxFrames)
  BY DEF Typed, PageTyped
<1>3. /\ currentTurnId \in 0 .. ids /\ bufferTurnId \in 0 .. ids
      /\ DOMAIN frames \subseteq 1 .. ids
      /\ \A id \in DOMAIN frames : frames[id] \in Seq(Frame) \ {<<>>}
  BY DEF Typed, ClientTyped
<1>4. /\ replay.pc \in {"idle", "reading", "taken"} /\ replay.took \in Seq(Frame)
      /\ (replay.pc = "taken") <=> (replay.took # <<>>)
  BY DEF Typed, ReplayTyped
<1>5. /\ link \in {"open", "down"} /\ acks \in Nat /\ connection \in 1 .. MaxDrops + 1
      /\ up \in Seq({Start, End} \cup Frame) /\ (link = "down" => up = <<>>)
  BY DEF Typed, WireTyped, Packet
<1>6. turn \in 0 .. turns /\ buffer \in Seq(Frame) /\ (turn = 0 => buffer = <<>>)
  BY DEF Typed, PumpTyped
<1>7. /\ segments \subseteq Seq(Frame) /\ failures \in 0 .. MaxFailures
      /\ \A f \in flushes : f.turn \in 1 .. turns /\ f.connection \in 1 .. connection
                            /\ f.pcm \in Seq(Frame)
  BY DEF Typed, StorageTyped
<1> QED
  BY <1>1, <1>2, <1>3, <1>4, <1>5, <1>6, <1>7 DEF TypeOK

(* For any numbers of answers, frames, drops and failures: every variable  *)
(* keeps its type, no turn in the store is empty, nothing is on its way    *)
(* over a connection that is down, and the gateway has audio only in a     *)
(* turn (TurnBuffer's store, pump_client_to_gemini's turn_id and buffer).  *)
THEOREM SocketTypeOK == Spec => []TypeOK
<1>1. Spec => []Typed
  BY InitTyped, NextTyped, PTL DEF Spec
<1> QED
  BY <1>1, TypedIsTypeOK, PTL

----------------------------------------------------------------------------
(* Order *)

(* What was said stays said. *)
LEMMA StillUttered ==
    ASSUME Typed, Candidate \/ UNCHANGED spoken
    PROVE  \A f : Uttered(f) => Uttered(f)'
<1> SUFFICES ASSUME NEW f, Uttered(f)
             PROVE  Uttered(f)'
  OBVIOUS
<1>1. f[1] \in 1 .. Presses /\ f[2] \in 1 .. spoken[f[1]] /\ Presses \in Nat
  BY LastPress DEF Uttered, Typed
<1>2. CASE UNCHANGED spoken
  BY <1>2, <1>1 DEF Uttered, Presses
<1>3. CASE Press
  <2>1. Presses' = Presses + 1 /\ spoken'[f[1]] = spoken[f[1]]
    BY <1>1, <1>3, PressStep
  <2>2. f[1] \in 1 .. Presses'
    BY <1>1, <2>1
  <2> QED
    BY <1>1, <2>1, <2>2 DEF Uttered
<1>4. CASE Speak
  <2>1. Presses' = Presses
    BY <1>4, SpeakStep
  <2>2. CASE f[1] = Presses
    <3>1. spoken[Presses] \in Nat /\ spoken'[Presses] = spoken[Presses] + 1
      BY <1>4, SpeakStep, Bounds
    <3>2. f[2] \in 1 .. spoken'[Presses]
      BY <1>1, <2>2, <3>1
    <3> QED
      BY <1>1, <2>1, <2>2, <3>2 DEF Uttered
  <2>3. CASE f[1] # Presses
    <3>1. spoken'[f[1]] = spoken[f[1]]
      BY <1>1, <1>4, <2>3, SpeakStep
    <3> QED
      BY <1>1, <2>1, <3>1 DEF Uttered
  <2> QED
    BY <2>2, <2>3
<1>5. CASE Release
  BY <1>2, <1>5 DEF Release
<1> QED
  BY <1>2, <1>3, <1>4, <1>5 DEF Candidate

(* What is said next comes after all that was said. *)
LEMMA NextIsLater ==
    ASSUME Typed, Speak
    PROVE  \A g : g = NextFrame => Uttered(g)' /\ \A f : Uttered(f) => Before(f, g)
<1> SUFFICES ASSUME NEW g, g = NextFrame
             PROVE  Uttered(g)' /\ \A f : Uttered(f) => Before(f, g)
  OBVIOUS
<1>1. /\ Presses \in 1 .. Presses /\ Presses' = Presses
      /\ spoken[Presses] \in Nat /\ spoken'[Presses] = spoken[Presses] + 1
  BY SpeakStep, Bounds
<1>2. g[1] = Presses /\ g[2] = spoken[Presses] + 1
  BY DEF NextFrame
<1>3. Uttered(g)'
  BY <1>1, <1>2 DEF Uttered
<1>4. \A f : Uttered(f) => Before(f, g)
  BY <1>1, <1>2 DEF Uttered, Before
<1> QED
  BY <1>3, <1>4

(* A sequence in order, and one more frame after it. *)
LEMMA OneMoreOrdered ==
    ASSUME NEW s \in Seq(Frame), NEW e \in Frame, Ordered(s),
           \A i \in DOMAIN s : Before(s[i], e)
    PROVE  Ordered(Append(s, e))
<1> DEFINE t == Append(s, e)
<1>1. /\ DOMAIN t = 1 .. Len(s) + 1 /\ t[Len(s) + 1] = e
      /\ \A i \in 1 .. Len(s) : t[i] = s[i]
  BY Appended
<1>2. Len(s) \in Nat /\ DOMAIN s = 1 .. Len(s)
  BY LenProperties
<1> HIDE DEF t
<1> SUFFICES ASSUME NEW i \in 1 .. Len(s) + 1, NEW j \in 1 .. Len(s) + 1, i < j
             PROVE  Before(t[i], t[j])
  BY <1>1 DEF Ordered, t
<1>3. i \in 1 .. Len(s)
  BY <1>2
<1>4. CASE j = Len(s) + 1
  BY <1>1, <1>2, <1>3, <1>4
<1>5. CASE j # Len(s) + 1
  <2>1. j \in 1 .. Len(s)
    BY <1>2, <1>5
  <2> QED
    BY <1>1, <1>2, <1>3, <2>1 DEF Ordered
<1> QED
  BY <1>4, <1>5

(* One more packet on its way, a frame only if it is the latest. *)
LEMMA SendsInOrder ==
    ASSUME Typed, LineHeard, LineOrdered, BufferFirst, Heard(buffer),
           NEW m \in Packet, Send(<<m>>), buffer' = buffer,
           \A f : Uttered(f) => Uttered(f)',
           m \in Frame => Uttered(m)' /\ \A f : Uttered(f) => Before(f, m)
    PROVE  LineHeard' /\ LineOrdered' /\ BufferFirst'
<1>1. up \in Seq(Packet) /\ DOMAIN up = 1 .. Len(up) /\ Len(up) \in Nat
  BY LenProperties DEF Typed, WireTyped
<1>2. CASE link # "open"
  <2>1. up' = up
    BY <1>2, SendsOne DEF Typed
  <2> QED
    BY <2>1 DEF LineHeard, LineOrdered, BufferFirst, SameTurn
<1>3. CASE link = "open"
  <2>1. /\ DOMAIN up' = 1 .. Len(up) + 1 /\ up'[Len(up) + 1] = m
        /\ \A i \in 1 .. Len(up) : up'[i] = up[i]
    BY <1>3, SendsOne DEF Typed
  <2>2. LineHeard'
    <3> SUFFICES ASSUME NEW i \in 1 .. Len(up) + 1, up'[i] \in Frame
                 PROVE  Uttered(up[i])'
      BY <2>1 DEF LineHeard, Frame
    <3>1. CASE i = Len(up) + 1
      BY <2>1, <3>1
    <3>2. CASE i # Len(up) + 1
      <4>1. i \in 1 .. Len(up)
        BY <1>1, <3>2
      <4> QED
        BY <1>1, <2>1, <4>1 DEF LineHeard
    <3> QED
      BY <3>1, <3>2
  <2>3. LineOrdered'
    <3> SUFFICES ASSUME NEW i \in 1 .. Len(up) + 1, NEW j \in 1 .. Len(up) + 1,
                        i < j, up'[i] \in Frame, up'[j] \in Frame, SameTurn(i, j)'
                 PROVE  Before(up'[i], up'[j])
      BY <2>1 DEF LineOrdered, Frame
    <3>1. i \in 1 .. Len(up) /\ up'[i] = up[i] /\ Uttered(up[i])
      <4>1. i \in 1 .. Len(up)
        BY <1>1
      <4> QED
        BY <1>1, <2>1, <4>1 DEF LineHeard
    <3>2. CASE j = Len(up) + 1
      BY <2>1, <3>1, <3>2
    <3>3. CASE j # Len(up) + 1
      <4>1. j \in 1 .. Len(up) /\ up'[j] = up[j]
        <5>1. j \in 1 .. Len(up)
          BY <1>1, <3>3
        <5> QED
          BY <2>1, <5>1
      <4>2. SameTurn(i, j)
        <5>1. \A k \in i .. j : k \in 1 .. Len(up)
          BY <1>1, <3>1, <4>1
        <5> QED
          BY <2>1, <5>1 DEF SameTurn
      <4> QED
        BY <1>1, <3>1, <4>1, <4>2 DEF LineOrdered
    <3> QED
      BY <3>2, <3>3
  <2>4. BufferFirst'
    <3> SUFFICES ASSUME NEW i \in DOMAIN buffer, NEW j \in 1 .. Len(up) + 1,
                        up'[j] \in Frame, SameTurn(1, j)'
                 PROVE  Before(buffer[i], up'[j])
      BY <2>1 DEF BufferFirst, Frame
    <3>2. CASE j = Len(up) + 1
      BY <2>1, <3>2 DEF Heard
    <3>3. CASE j # Len(up) + 1
      <4>1. j \in 1 .. Len(up) /\ up'[j] = up[j]
        <5>1. j \in 1 .. Len(up)
          BY <1>1, <3>3
        <5> QED
          BY <2>1, <5>1
      <4>2. SameTurn(1, j)
        <5>1. \A k \in 1 .. j : k \in 1 .. Len(up)
          BY <1>1, <4>1
        <5> QED
          BY <2>1, <5>1 DEF SameTurn
      <4> QED
        BY <1>1, <4>1, <4>2 DEF BufferFirst
    <3> QED
      BY <3>2, <3>3
  <2> QED
    BY <2>2, <2>3, <2>4
<1> QED
  BY <1>2, <1>3

(* Where everything else is as it was. *)
LEMMA StoreStaysOrderly ==
    ASSUME StoreOrderly, UNCHANGED <<frames, replay>>, \A f : Uttered(f) => Uttered(f)'
    PROVE  StoreOrderly'
PROOF BY DEF StoreOrderly, Heard, Ordered

(* The same of the gateway. *)
LEMMA PumpStaysOrderly ==
    ASSUME PumpOrderly, UNCHANGED <<buffer, flushes, segments>>,
           \A f : Uttered(f) => Uttered(f)'
    PROVE  PumpOrderly'
PROOF BY DEF PumpOrderly, Heard, Ordered

(* The same of the line. *)
LEMMA LineStaysOrderly ==
    ASSUME LineHeard, LineOrdered, BufferFirst, UNCHANGED <<up, buffer>>,
           \A f : Uttered(f) => Uttered(f)'
    PROVE  LineHeard' /\ LineOrdered' /\ BufferFirst'
PROOF BY DEF LineHeard, LineOrdered, BufferFirst, SameTurn, Frame

(* A connection without messages and a gateway without a turn. *)
LEMMA NothingIsOrderly ==
    ASSUME up' = <<>>, buffer' = <<>>, UNCHANGED <<flushes, segments>>, PumpOrderly
    PROVE  PumpOrderly' /\ LineHeard' /\ LineOrdered' /\ BufferFirst'
<1>1. DOMAIN up' = {} /\ DOMAIN buffer' = {}
  BY Empty
<1>2. PumpOrderly'
  BY <1>1 DEF PumpOrderly, Ordered, Heard
<1>3. LineHeard' /\ LineOrdered' /\ BufferFirst'
  BY <1>1 DEF LineHeard, LineOrdered, BufferFirst
<1> QED
  BY <1>2, <1>3

(* There is nothing to be in order. *)
LEMMA InitOrderly == Init => Orderly
<1> SUFFICES ASSUME Init PROVE Orderly
  OBVIOUS
<1>1. /\ DOMAIN frames = {} /\ DOMAIN up = {} /\ DOMAIN buffer = {}
      /\ replay.took = <<>> /\ DOMAIN replay.took = {}
  BY Empty DEF Init, Idle
<1>2. StoreOrderly
  BY <1>1 DEF StoreOrderly, Ordered, Heard
<1>3. PumpOrderly
  BY <1>1 DEF Init, PumpOrderly, Ordered, Heard
<1>4. LineHeard /\ LineOrdered /\ BufferFirst
  BY <1>1 DEF LineHeard, LineOrdered, BufferFirst
<1> QED
  BY <1>2, <1>3, <1>4 DEF Orderly

(* Only a start is sent. *)
LEMMA PressOrderly ==
    ASSUME Typed, Orderly, Press
    PROVE  Orderly'
<1>1. \A f : Uttered(f) => Uttered(f)'
  BY StillUttered DEF Candidate
<1>2. UNCHANGED <<frames, replay, buffer, flushes, segments>>
  BY DEF Press, pump, storage
<1>3. StoreOrderly' /\ PumpOrderly'
  BY <1>1, <1>2, StoreStaysOrderly, PumpStaysOrderly DEF Orderly
<1>4. LineHeard' /\ LineOrdered' /\ BufferFirst'
  <2>1. Start \in Packet /\ Start \notin Frame /\ Send(<<Start>>)
    BY PressStep, Packets
  <2> QED
    BY <1>1, <1>2, <2>1, SendsInOrder DEF Orderly, PumpOrderly
<1> QED
  BY <1>3, <1>4 DEF Orderly

(* The frame comes last wherever it goes. *)
LEMMA SpeakOrderly ==
    ASSUME Typed, Orderly, Speak
    PROVE  Orderly'
<1>1. \A f : Uttered(f) => Uttered(f)'
  BY StillUttered DEF Candidate
<1>2. UNCHANGED <<replay, buffer, flushes, segments>>
  BY DEF Speak, pump, storage
<1>3. PICK g : g = NextFrame
  OBVIOUS
<1>4. /\ g \in Frame /\ g \in Packet /\ Send(<<g>>)
      /\ Uttered(g)' /\ \A f : Uttered(f) => Before(f, g)
  BY <1>3, SpeakStep, NextIsLater
<1>5. PumpOrderly'
  BY <1>1, <1>2, PumpStaysOrderly DEF Orderly
<1>6. LineHeard' /\ LineOrdered' /\ BufferFirst'
  BY <1>1, <1>2, <1>4, SendsInOrder DEF Orderly, PumpOrderly
<1>7. StoreOrderly'
  <2>1. Ordered(replay.took)' /\ Heard(replay.took)'
    BY <1>1, <1>2 DEF Orderly, StoreOrderly, Ordered, Heard
  <2>2. ASSUME NEW id \in DOMAIN frames', bufferTurnId # 0, id = bufferTurnId
        PROVE  Ordered(frames[id])' /\ Heard(frames[id])'
    <3>1. PICK s : s = Store(bufferTurnId)
      OBVIOUS
    <3>2. s \in Seq(Frame) /\ Ordered(s) /\ Heard(s)
      <4>1. CASE bufferTurnId \in DOMAIN frames
        BY <3>1, <4>1 DEF Store, Typed, ClientTyped, Orderly, StoreOrderly
      <4>2. CASE bufferTurnId \notin DOMAIN frames
        BY <3>1, <4>2, Empty DEF Store, Ordered, Heard
      <4> QED
        BY <4>1, <4>2
    <3>3. PICK t : t = Append(s, g)
      OBVIOUS
    <3>4. frames'[id] = t
      BY <1>3, <2>2, <3>1, <3>3, SpeakStep
    <3>5. Ordered(t)
      BY <1>4, <3>2, <3>3, OneMoreOrdered DEF Heard
    <3>6. /\ DOMAIN t = 1 .. Len(s) + 1 /\ t[Len(s) + 1] = g
          /\ \A i \in 1 .. Len(s) : t[i] = s[i]
          /\ Len(s) \in Nat /\ DOMAIN s = 1 .. Len(s)
      BY <1>4, <3>2, <3>3, Appended, LenProperties
    <3>7. ASSUME NEW i \in 1 .. Len(s) + 1
          PROVE  Uttered(t[i])'
      <4>1. CASE i = Len(s) + 1
        BY <1>4, <3>6, <4>1
      <4>2. CASE i # Len(s) + 1
        <5>1. i \in 1 .. Len(s)
          BY <3>6, <4>2
        <5>2. Uttered(s[i]) /\ t[i] = s[i]
          BY <3>2, <3>6, <5>1 DEF Heard
        <5> QED
          BY <1>1, <5>2
      <4> QED
        BY <4>1, <4>2
    <3>8. Heard(t)'
      BY <3>6, <3>7 DEF Heard
    <3> QED
      BY <3>4, <3>5, <3>8 DEF Ordered, Heard
  <2>3. ASSUME NEW id \in DOMAIN frames', bufferTurnId = 0 \/ id # bufferTurnId
        PROVE  Ordered(frames[id])' /\ Heard(frames[id])'
    <3>1. id \in DOMAIN frames /\ frames'[id] = frames[id]
      BY <2>3, SpeakStep
    <3> QED
      BY <1>1, <3>1 DEF Orderly, StoreOrderly, Heard, Ordered
  <2> QED
    BY <2>1, <2>2, <2>3 DEF StoreOrderly
<1> QED
  BY <1>5, <1>6, <1>7 DEF Orderly

(* Only an end is sent. *)
LEMMA ReleaseOrderly ==
    ASSUME Typed, Orderly, Release
    PROVE  Orderly'
<1>1. \A f : Uttered(f) => Uttered(f)'
  BY StillUttered DEF Candidate
<1>2. UNCHANGED <<frames, replay, buffer, flushes, segments>>
  BY DEF Release, pump, storage, client
<1>3. StoreOrderly' /\ PumpOrderly'
  BY <1>1, <1>2, StoreStaysOrderly, PumpStaysOrderly DEF Orderly
<1>4. LineHeard' /\ LineOrdered' /\ BufferFirst'
  <2>1. End \in Packet /\ End \notin Frame /\ Send(<<End>>)
    BY Packets DEF Release, Packet
  <2> QED
    BY <1>1, <1>2, <2>1, SendsInOrder DEF Orderly, PumpOrderly
<1> QED
  BY <1>3, <1>4 DEF Orderly

(* The line and the buffer are empty. *)
LEMMA DropOrderly ==
    ASSUME Typed, Orderly, Drop
    PROVE  Orderly'
<1>1. \A f : Uttered(f) => Uttered(f)'
  BY StillUttered DEF Drop, page
<1>2. UNCHANGED <<frames, replay, flushes, segments>> /\ up' = <<>> /\ buffer' = <<>>
  BY DEF Drop, storage, client
<1> QED
  BY <1>1, <1>2, StoreStaysOrderly, NothingIsOrderly DEF Orderly

(* Nothing has moved. *)
LEMMA ReconnectOrderly ==
    ASSUME Typed, Orderly, Reconnect
    PROVE  Orderly'
<1>1. \A f : Uttered(f) => Uttered(f)'
  BY StillUttered DEF Reconnect, page
<1>2. UNCHANGED <<frames, buffer, flushes, segments, up>> /\ replay'.took = <<>>
  BY DEF Reconnect, storage, client, pump, Idle
<1>3. StoreOrderly'
  <2>1. DOMAIN replay'.took = {}
    BY <1>2, Empty
  <2> QED
    BY <1>1, <1>2, <2>1 DEF Orderly, StoreOrderly, Heard, Ordered
<1> QED
  BY <1>1, <1>2, <1>3, PumpStaysOrderly, LineStaysOrderly DEF Orderly

(* A turn moves from the store to the replay. *)
LEMMA TakeOrderly ==
    ASSUME Typed, Orderly, takeIncompleteTurn
    PROVE  Orderly'
<1>1. \A f : Uttered(f) => Uttered(f)'
  BY StillUttered DEF takeIncompleteTurn, page
<1>2. UNCHANGED <<buffer, flushes, segments, up>>
  BY DEF takeIncompleteTurn, storage, wire, pump
<1>3. StoreOrderly'
  <2>1. CASE replay' = Idle /\ UNCHANGED client
    <3>1. replay'.took = <<>> /\ DOMAIN replay'.took = {} /\ UNCHANGED frames
      BY <2>1, Empty DEF Idle, client
    <3> QED
      BY <1>1, <3>1 DEF Orderly, StoreOrderly, Heard, Ordered
  <2>2. ASSUME NEW id \in DOMAIN frames,
               replay' = [pc |-> "taken", took |-> frames[id]],
               frames' = Without(id)
        PROVE  StoreOrderly'
    <3>1. replay'.took = frames[id]
      BY <2>2
    <3>2. \A i \in DOMAIN frames' : i \in DOMAIN frames /\ frames'[i] = frames[i]
      BY <2>2 DEF Without
    <3> QED
      BY <1>1, <3>1, <3>2 DEF Orderly, StoreOrderly, Heard, Ordered
  <2> QED
    BY <2>1, <2>2 DEF takeIncompleteTurn
<1> QED
  BY <1>1, <1>2, <1>3, PumpStaysOrderly, LineStaysOrderly DEF Orderly

(* A start comes before the first of the frames that are replayed. *)
LEMMA ReplayOrderly ==
    ASSUME Typed, Orderly, Replay
    PROVE  Orderly'
<1>1. \A f : Uttered(f) => Uttered(f)'
  BY StillUttered DEF Replay, page
<1>2. UNCHANGED <<buffer, flushes, segments, spoken>> /\ replay'.took = <<>>
  BY DEF Replay, storage, pump, page, Idle
<1>3. StoreOrderly'
  <2>1. DOMAIN replay'.took = {}
    BY <1>2, Empty
  <2>2. ASSUME NEW i \in DOMAIN frames'
        PROVE  \/ i \in DOMAIN frames /\ frames'[i] = frames[i]
               \/ frames'[i] = replay.took
    BY ReplayStep
  <2>3. \A i \in DOMAIN frames' : Ordered(frames[i])' /\ Heard(frames[i])'
    BY <1>1, <2>2 DEF Orderly, StoreOrderly, Heard, Ordered
  <2> QED
    BY <1>2, <2>1, <2>3 DEF StoreOrderly, Heard, Ordered
<1>4. LineHeard' /\ LineOrdered' /\ BufferFirst'
  <2>1. CASE link # "open"
    <3>1. up' = up
      BY <2>1, ReplayStep
    <3> QED
      BY <1>1, <1>2, <3>1, LineStaysOrderly DEF Orderly
  <2>2. CASE link = "open"
    <3> DEFINE n == Len(up)
               m == Len(replay.took)
               Old(i) == i \in 1 .. n /\ up'[i] = up[i]
               New(i) == \E k \in 1 .. m : i = n + (k + 1) /\ up'[i] = replay.took[k]
    <3>1. /\ n \in Nat /\ m \in Nat /\ DOMAIN up = 1 .. n
          /\ DOMAIN replay.took = 1 .. m
      BY ReplayStep, LenProperties DEF Typed, WireTyped
    <3>2. /\ DOMAIN up' = 1 .. n + (m + 2)
          /\ \A i \in 1 .. n : up'[i] = up[i]
          /\ up'[n + 1] = Start /\ up'[n + (m + 2)] = End
          /\ \A i \in 1 .. m : up'[n + (i + 1)] = replay.took[i]
      BY <2>2, ReplayStep
    <3> HIDE DEF n, m
    <3>3. ASSUME NEW i \in DOMAIN up', up'[i] \in Frame
          PROVE  Old(i) \/ New(i)
      <4>1. i # n + 1 /\ i # n + (m + 2)
        BY <3>2, <3>3, Packets
      <4>2. CASE i <= n
        BY <3>1, <3>2, <4>2
      <4>3. CASE i > n
        <5>1. PICK k \in 1 .. m : i = n + (k + 1)
          <6>1. i \in 1 .. n + (m + 2)
            BY <3>2
          <6>2. i > n + 1 /\ i < n + (m + 2)
            BY <3>1, <4>1, <4>3, <6>1
          <6>3. i - n - 1 \in 1 .. m /\ i = n + ((i - n - 1) + 1)
            BY ONLY <3>1, <6>1, <6>2
          <6> QED
            BY <6>3
        <5> QED
          BY <3>2, <5>1
      <4> QED
        BY <3>1, <3>2, <4>2, <4>3
    <3>4. LineHeard'
      <4> SUFFICES ASSUME NEW i \in DOMAIN up', up'[i] \in Frame
                   PROVE  Uttered(up[i])'
        BY DEF LineHeard, Frame
      <4>1. Uttered(up'[i])
        <5>1. CASE Old(i)
          BY <3>1, <5>1 DEF Orderly, LineHeard
        <5>2. CASE New(i)
          BY <3>1, <5>2 DEF Orderly, StoreOrderly, Heard
        <5> QED
          BY <3>3, <5>1, <5>2
      <4>2. PICK f : f = up'[i]
        OBVIOUS
      <4> QED
        BY <1>2, <4>1 DEF Uttered, Presses
    <3>5. LineOrdered'
      <4> SUFFICES ASSUME NEW i \in DOMAIN up', NEW j \in DOMAIN up', i < j,
                          up'[i] \in Frame, up'[j] \in Frame, SameTurn(i, j)'
                   PROVE  Before(up'[i], up'[j])
        BY DEF LineOrdered, Frame
      <4>0. i \in Nat /\ j \in Nat
        BY <3>1, <3>2
      <4>1. CASE Old(j)
        <5>1. Old(i)
          BY <3>1, <3>2, <4>0, <4>1
        <5>2. SameTurn(i, j)
          <6>1. \A k \in i .. j : k \in 1 .. n
            BY <3>1, <4>0, <4>1, <5>1
          <6> QED
            BY <3>2, <6>1 DEF SameTurn
        <5> QED
          BY <3>1, <4>1, <5>1, <5>2 DEF Orderly, LineOrdered
      <4>2. CASE New(j) /\ Old(i)
        <5>1. n + 1 \in i .. j
          BY <3>1, <4>0, <4>2
        <5> QED
          BY <3>2, <5>1 DEF SameTurn
      <4>3. CASE New(j) /\ New(i)
        <5>1. PICK k \in 1 .. m : i = n + (k + 1) /\ up'[i] = replay.took[k]
          BY <4>3
        <5>2. PICK l \in 1 .. m : j = n + (l + 1) /\ up'[j] = replay.took[l]
          BY <4>3
        <5>3. k < l
          BY <3>1, <5>1, <5>2
        <5> QED
          BY <3>1, <5>1, <5>2, <5>3 DEF Orderly, StoreOrderly, Ordered
      <4> HIDE DEF Old, New
      <4> QED
        BY <3>3, <4>1, <4>2, <4>3
    <3>6. BufferFirst'
      <4> SUFFICES ASSUME NEW i \in DOMAIN buffer, NEW j \in DOMAIN up',
                          up'[j] \in Frame, SameTurn(1, j)'
                   PROVE  Before(buffer[i], up'[j])
        BY <1>2 DEF BufferFirst, Frame
      <4>1. CASE Old(j)
        <5>1. SameTurn(1, j)
          <6>1. \A k \in 1 .. j : k \in 1 .. n
            BY <3>1, <4>1
          <6> QED
            BY <3>2, <6>1 DEF SameTurn
        <5> QED
          BY <3>1, <4>1, <5>1 DEF Orderly, BufferFirst
      <4>2. CASE New(j)
        <5>1. n + 1 \in 1 .. j
          BY <3>1, <4>2
        <5> QED
          BY <3>2, <5>1 DEF SameTurn
      <4> HIDE DEF Old, New
      <4> QED
        BY <3>3, <4>1, <4>2
    <3> QED
      BY <3>4, <3>5, <3>6
  <2> QED
    BY <2>1, <2>2
<1> QED
  BY <1>1, <1>2, <1>3, <1>4, PumpStaysOrderly DEF Orderly

(* A turn leaves the store. *)
LEMMA CompleteOrderly ==
    ASSUME Typed, Orderly, turn_complete
    PROVE  Orderly'
<1>1. \A f : Uttered(f) => Uttered(f)'
  BY StillUttered DEF turn_complete, page
<1>2. UNCHANGED <<buffer, flushes, segments, up, replay>>
  BY DEF turn_complete, storage, pump
<1>3. StoreOrderly'
  <2>1. CASE UNCHANGED client
    BY <1>1, <1>2, <2>1, StoreStaysOrderly DEF client, Orderly
  <2>2. CASE frames' = Without(currentTurnId)
    <3>1. \A i \in DOMAIN frames' : i \in DOMAIN frames /\ frames'[i] = frames[i]
      BY <2>2 DEF Without
    <3> QED
      BY <1>1, <1>2, <3>1 DEF Orderly, StoreOrderly, Heard, Ordered
  <2> QED
    BY <2>1, <2>2 DEF turn_complete
<1> QED
  BY <1>1, <1>2, <1>3, PumpStaysOrderly, LineStaysOrderly DEF Orderly

(* A frame that is read follows those of its turn in the buffer. *)
LEMMA ReceiveOrderly ==
    ASSUME Typed, Orderly, Receive
    PROVE  Orderly'
<1> DEFINE n == Len(up) - 1
<1>1. \A f : Uttered(f) => Uttered(f)'
  BY StillUttered DEF Receive, page
<1>2. UNCHANGED <<frames, replay, segments, spoken>>
  BY DEF Receive, client, page
<1>3. /\ n \in Nat /\ DOMAIN up = 1 .. n + 1 /\ DOMAIN up' = 1 .. n
      /\ Head(up) = up[1] /\ 1 \in DOMAIN up
      /\ \A i \in 1 .. n : up'[i] = up[i + 1]
  BY ReceiveStep, LenProperties
<1> HIDE DEF n
<1>4. \A i \in 1 .. n : i + 1 \in 1 .. n + 1
  BY <1>3
<1>5. ASSUME NEW i \in 1 .. n, NEW j \in 1 .. n, SameTurn(i, j)'
      PROVE  SameTurn(i + 1, j + 1)
  <2> SUFFICES ASSUME NEW k \in i + 1 .. j + 1
               PROVE  up[k] # Start
    BY DEF SameTurn
  <2>1. k - 1 \in i .. j /\ k - 1 \in 1 .. n /\ (k - 1) + 1 = k
    BY <1>3
  <2>2. up'[k - 1] = up[k]
    BY <1>3, <2>1
  <2>3. up'[k - 1] # Start
    BY <1>5, <2>1 DEF SameTurn, Start
  <2> QED
    BY <2>2, <2>3
<1>6. LineHeard'
  <2> SUFFICES ASSUME NEW i \in 1 .. n, up'[i] \in Frame
               PROVE  Uttered(up[i])'
    BY <1>3 DEF LineHeard, Frame
  <2>1. Uttered(up[i + 1]) /\ up'[i] = up[i + 1]
    BY <1>3, <1>4 DEF Orderly, LineHeard
  <2> QED
    BY <1>2, <2>1 DEF Uttered, Presses
<1>7. LineOrdered'
  <2> SUFFICES ASSUME NEW i \in 1 .. n, NEW j \in 1 .. n, i < j,
                      up'[i] \in Frame, up'[j] \in Frame, SameTurn(i, j)'
               PROVE  Before(up'[i], up'[j])
    BY <1>3 DEF LineOrdered, Frame
  <2>1. SameTurn(i + 1, j + 1) /\ i + 1 < j + 1
    BY <1>3, <1>5
  <2>2. up'[i] = up[i + 1] /\ up'[j] = up[j + 1] /\ i + 1 \in DOMAIN up /\ j + 1 \in DOMAIN up
    BY <1>3, <1>4
  <2> QED
    BY <2>1, <2>2 DEF Orderly, LineOrdered
<1>8. ASSUME NEW j \in 1 .. n, SameTurn(1, j)', up[1] # Start
      PROVE  SameTurn(1, j + 1) /\ j + 1 \in DOMAIN up /\ up'[j] = up[j + 1]
  <2>1. 1 \in 1 .. n
    BY <1>3
  <2>2. SameTurn(2, j + 1)
    <3>1. SameTurn(1 + 1, j + 1)
      BY <1>5, <1>8, <2>1
    <3> QED
      BY <3>1
  <2>3. \A k \in 1 .. j + 1 : k = 1 \/ k \in 2 .. j + 1
    BY <1>3
  <2> QED
    BY <1>3, <1>4, <1>8, <2>2, <2>3 DEF SameTurn
<1>9. CASE activity_start
  <2>1. DOMAIN buffer' = {} /\ flushes' = flushes
    BY <1>9, Empty DEF activity_start
  <2>2. PumpOrderly'
    BY <1>2, <2>1 DEF Orderly, PumpOrderly, Ordered, Heard
  <2>3. BufferFirst'
    BY <2>1 DEF BufferFirst
  <2>4. StoreOrderly'
    BY <1>1, <1>2, StoreStaysOrderly DEF Orderly
  <2> QED
    BY <1>6, <1>7, <2>2, <2>3, <2>4 DEF Orderly
<1>10. CASE activity_end
  <2>1. DOMAIN buffer' = {}
    BY <1>10, Empty DEF activity_end
  <2>2. \A f \in flushes' : f \in flushes \/ f.pcm = buffer
    BY <1>10 DEF activity_end
  <2>3. PumpOrderly'
    BY <1>2, <2>1, <2>2 DEF Orderly, PumpOrderly, Ordered, Heard
  <2>4. BufferFirst'
    BY <2>1 DEF BufferFirst
  <2>5. StoreOrderly'
    BY <1>1, <1>2, StoreStaysOrderly DEF Orderly
  <2> QED
    BY <1>6, <1>7, <2>3, <2>4, <2>5 DEF Orderly
<1>11. CASE audio_frame
  <2>1. up[1] \in Frame /\ up[1] # Start /\ flushes' = flushes
    BY <1>3, <1>11, Packets DEF audio_frame
  <2>2. StoreOrderly'
    BY <1>1, <1>2, StoreStaysOrderly DEF Orderly
  <2>3. CASE turn = 0
    <3>1. buffer' = buffer
      BY <1>11, <2>3 DEF audio_frame
    <3>2. PumpOrderly'
      BY <1>1, <1>2, <2>1, <3>1, PumpStaysOrderly DEF Orderly
    <3>3. DOMAIN buffer' = {}
      BY <2>3, <3>1, Empty DEF Typed, PumpTyped
    <3>4. BufferFirst'
      BY <3>3 DEF BufferFirst
    <3> QED
      BY <1>6, <1>7, <2>2, <3>2, <3>4 DEF Orderly
  <2>4. CASE turn # 0
    <3> DEFINE m == Len(buffer)
    <3>1. PICK g : g = up[1]
      OBVIOUS
    <3>2. buffer' = Append(buffer, g) /\ g \in Frame
      BY <1>3, <1>11, <2>1, <2>4, <3>1 DEF audio_frame
    <3>3. buffer \in Seq(Frame) /\ m \in Nat /\ DOMAIN buffer = 1 .. m
      BY LenProperties DEF Typed, PumpTyped
    <3>4. /\ DOMAIN buffer' = 1 .. m + 1 /\ buffer'[m + 1] = g
          /\ \A i \in 1 .. m : buffer'[i] = buffer[i]
      BY <3>2, <3>3, Appended
    <3> HIDE DEF m
    <3>5. \A i \in DOMAIN buffer : Before(buffer[i], g)
      <4>1. SameTurn(1, 1)
        BY <2>1 DEF SameTurn
      <4> QED
        BY <1>3, <2>1, <3>1, <4>1 DEF Orderly, BufferFirst
    <3>6. Ordered(buffer)'
      <4>1. Ordered(Append(buffer, g))
        BY <3>2, <3>3, <3>5, OneMoreOrdered DEF Orderly, PumpOrderly
      <4> QED
        BY <3>2, <4>1 DEF Ordered
    <3>7. Heard(buffer)'
      <4> SUFFICES ASSUME NEW i \in 1 .. m + 1
                   PROVE  Uttered(buffer[i])'
        BY <3>4 DEF Heard
      <4>1. Uttered(buffer'[i])
        <5>1. CASE i = m + 1
          BY <1>3, <2>1, <3>1, <3>4, <5>1 DEF Orderly, LineHeard
        <5>2. CASE i # m + 1
          <6>1. i \in 1 .. m
            BY <3>3, <5>2
          <6> QED
            BY <3>3, <3>4, <6>1 DEF Orderly, PumpOrderly, Heard
        <5> QED
          BY <5>1, <5>2
      <4> QED
        BY <1>2, <4>1 DEF Uttered, Presses
    <3>8. PumpOrderly'
      BY <1>2, <2>1, <3>6, <3>7 DEF Orderly, PumpOrderly, Ordered
    <3>9. BufferFirst'
      <4> SUFFICES ASSUME NEW i \in 1 .. m + 1, NEW j \in 1 .. n,
                          up'[j] \in Frame, SameTurn(1, j)'
                   PROVE  Before(buffer'[i], up'[j])
        BY <1>3, <3>4 DEF BufferFirst, Frame
      <4>1. SameTurn(1, j + 1) /\ j + 1 \in DOMAIN up /\ up'[j] = up[j + 1]
        BY <1>8, <2>1
      <4>2. CASE i = m + 1
        <5>1. 1 < j + 1
          BY <1>3
        <5>2. Before(up[1], up[j + 1])
          BY <1>3, <2>1, <4>1, <5>1 DEF Orderly, LineOrdered
        <5> QED
          BY <3>1, <3>4, <4>1, <4>2, <5>2
      <4>3. CASE i # m + 1
        <5>1. i \in DOMAIN buffer /\ buffer'[i] = buffer[i]
          BY <3>3, <3>4, <4>3
        <5> QED
          BY <4>1, <5>1 DEF Orderly, BufferFirst
      <4> QED
        BY <4>2, <4>3
    <3> QED
      BY <1>6, <1>7, <2>2, <3>8, <3>9 DEF Orderly
  <2> QED
    BY <2>3, <2>4
<1> QED
  BY <1>9, <1>10, <1>11 DEF Receive

(* What is stored was in order when its flush began. *)
LEMMA FlushOrderly ==
    ASSUME Typed, Orderly, Flush \/ FlushRaises
    PROVE  Orderly'
<1>1. \A f : Uttered(f) => Uttered(f)'
  BY StillUttered DEF Flush, FlushRaises, page
<1>2. UNCHANGED <<frames, replay, up, buffer>>
  BY DEF Flush, FlushRaises, client, wire, pump
<1>3. PumpOrderly'
  <2>1. \A f \in flushes' : f \in flushes
    BY DEF Flush, FlushRaises
  <2>2. \A s \in segments' : s \in segments \/ \E f \in flushes : s = f.pcm
    BY DEF Flush, FlushRaises
  <2>3. Ordered(buffer)' /\ Heard(buffer)'
    BY <1>1, <1>2 DEF Orderly, PumpOrderly, Ordered, Heard
  <2> QED
    BY <2>1, <2>2, <2>3 DEF Orderly, PumpOrderly
<1> QED
  BY <1>1, <1>2, <1>3, StoreStaysOrderly, LineStaysOrderly DEF Orderly

(* Every step keeps the order. *)
LEMMA NextOrderly == Typed /\ Orderly /\ [Next]_vars => Orderly'
<1> SUFFICES ASSUME Typed, Orderly, [Next]_vars PROVE Orderly'
  OBVIOUS
<1>1. CASE Candidate
  BY <1>1, PressOrderly, SpeakOrderly, ReleaseOrderly DEF Candidate
<1>2. CASE System
  BY <1>2, ReconnectOrderly, TakeOrderly, ReplayOrderly, CompleteOrderly, ReceiveOrderly,
     FlushOrderly DEF System
<1>3. CASE Drop \/ FlushRaises
  BY <1>3, DropOrderly, FlushOrderly
<1>4. CASE UNCHANGED vars
  <2>1. UNCHANGED <<spoken, frames, replay, up, buffer, flushes, segments>>
    BY <1>4 DEF vars, page, client, wire, pump, storage
  <2>2. \A f : Uttered(f) => Uttered(f)'
    BY <2>1, StillUttered
  <2> QED
    BY <2>1, <2>2, StoreStaysOrderly, PumpStaysOrderly, LineStaysOrderly DEF Orderly
<1> QED
  BY <1>1, <1>2, <1>3, <1>4 DEF Next

(* Whatever the candidate does, whatever is lost and replayed: the frames  *)
(* of a segment are in the order they were spoken, none of them twice      *)
(* (beginTurn, replayIncompleteTurn, pump_client_to_gemini).               *)
THEOREM SocketSegmentInOrder == Spec => []SegmentInOrder
<1>1. Init => Typed /\ Orderly
  BY InitTyped, InitOrderly
<1>2. Typed /\ Orderly /\ [Next]_vars => (Typed /\ Orderly)'
  BY NextTyped, NextOrderly
<1>3. Orderly => SegmentInOrder
  BY DEF Orderly, PumpOrderly, SegmentInOrder, Ordered, Before
<1> QED
  BY <1>1, <1>2, <1>3, PTL DEF Spec

----------------------------------------------------------------------------
(* The careful candidate *)

(* A whole answer starts with its press, so no two are the same. *)
LEMMA WholeStarts ==
    ASSUME PageTyped, NEW p \in 1 .. Presses, spoken[p] > 0
    PROVE  Whole(p)[1] = <<p, 1>> /\ Whole(p) # <<>>
<1>1. /\ Whole(p) \in Seq(Frame) /\ Len(Whole(p)) = spoken[p] /\ spoken[p] \in Nat
      /\ \A k \in 1 .. spoken[p] : Whole(p)[k] = <<p, k>>
  BY WholeAnswer, Bounds
<1>2. 1 \in 1 .. spoken[p]
  BY <1>1
<1>3. Whole(p) # <<>>
  BY <1>1, Empty
<1> QED
  BY <1>1, <1>2, <1>3

(* Answers of which something was said are the same only if one. *)
LEMMA WholeTells ==
    ASSUME PageTyped, NEW p \in 1 .. Presses, NEW q \in 1 .. Presses,
           spoken[p] > 0, Whole(p) = Whole(q)
    PROVE  p = q
<1>1. Len(Whole(p)) = spoken[p] /\ Len(Whole(q)) = spoken[q]
  BY WholeAnswer
<1>2. spoken[q] > 0
  BY <1>1
<1>3. Whole(p)[1] = <<p, 1>> /\ Whole(q)[1] = <<q, 1>>
  BY <1>2, WholeStarts
<1> QED
  BY <1>3

(* An answer that is over is not empty. *)
LEMMA AnswerFacts ==
    ASSUME PageTyped
    PROVE  /\ \A p : Over(p) => /\ p \in 1 .. Presses /\ spoken[p] > 0
                                /\ Whole(p) # <<>> /\ Whole(p)[1] = <<p, 1>>
           /\ \A s : Answer(s) => s # <<>>
PROOF BY WholeStarts DEF Over, Answer

(* An answer that is over changes no more. *)
LEMMA OverStays ==
    ASSUME Typed, Candidate \/ UNCHANGED page
    PROVE  /\ \A p : Over(p) => Over(p)' /\ Whole(p)' = Whole(p)
           /\ \A s : Answer(s) => Answer(s)'
<1>1. ASSUME NEW p, Over(p)
      PROVE  Over(p)' /\ Whole(p)' = Whole(p)
  <2>1. p \in 1 .. Presses /\ spoken[p] > 0 /\ (holding => p < Presses) /\ Presses \in Nat
    BY <1>1, LastPress DEF Over, Typed
  <2>2. CASE UNCHANGED page
    BY <2>1, <2>2 DEF Over, Presses, Whole, page
  <2>3. CASE Press
    <3>1. Presses' = Presses + 1 /\ spoken'[p] = spoken[p] /\ Whole(p)' = Whole(p)
      BY <2>1, <2>3, PressStep
    <3>2. p \in 1 .. Presses' /\ p < Presses'
      BY <2>1, <3>1
    <3> QED
      BY <2>1, <3>1, <3>2 DEF Over
  <2>4. CASE Speak
    <3>1. holding /\ Presses' = Presses
      BY <2>4, SpeakStep
    <3>2. p # Presses
      BY <2>1, <3>1
    <3>3. spoken'[p] = spoken[p] /\ Whole(p)' = Whole(p)
      BY <2>1, <2>4, <3>2, SpeakStep
    <3>4. p < Presses'
      BY <2>1, <3>1
    <3> QED
      BY <2>1, <3>1, <3>3, <3>4 DEF Over
  <2>5. CASE Release
    <3>1. ~holding' /\ spoken' = spoken
      BY <2>5 DEF Release
    <3> QED
      BY <2>1, <3>1 DEF Over, Presses, Whole
  <2> QED
    BY <2>2, <2>3, <2>4, <2>5 DEF Candidate
<1>2. ASSUME NEW s, Answer(s)
      PROVE  Answer(s)'
  <2>1. PICK p \in 1 .. Presses : Over(p) /\ s = Whole(p)
    BY <1>2 DEF Answer
  <2>2. Over(p)' /\ Whole(p)' = Whole(p)
    BY <1>1, <2>1
  <2>3. p \in 1 .. Presses'
    BY <2>2 DEF Over
  <2> QED
    BY <2>1, <2>2, <2>3 DEF Answer
<1> QED
  BY <1>1, <1>2

(* Steps that leave the candidate and the store alone: what they add to    *)
(* storage and to what is being stored was an answer already.              *)
LEMMA ContentsStay ==
    ASSUME Typed, Contents, Single, Safe,
           UNCHANGED <<page, currentTurnId, frames, acked>>, replay'.took = replay.took,
           segments \subseteq segments',
           \A s \in segments' : s \in segments \/ s = <<>> \/ Answer(s),
           \A f \in flushes' : f \in flushes \/ f.pcm = <<>> \/ Answer(f.pcm)
    PROVE  Contents' /\ Single' /\ Safe'
<1>1. /\ \A p : Over(p) => Over(p)' /\ Whole(p)' = Whole(p)
      /\ \A s : Answer(s) => Answer(s)'
  BY OverStays
<1>2. UNCHANGED <<holding, spoken>> /\ Presses' = Presses /\ \A p : Whole(p)' = Whole(p)
  BY DEF page, Presses, Whole
<1>3. Contents'
  BY <1>1, <1>2 DEF Contents
<1>4. Single'
  BY <1>1 DEF Single
<1>5. Safe'
  BY <1>2 DEF Safe, Somewhere
<1> QED
  BY <1>3, <1>4, <1>5

(* Where the turn is has not changed either. *)
LEMMA TurnStays ==
    ASSUME UNCHANGED <<link, up, acks, turn, buffer, holding, currentTurnId, frames>>,
           Here' = Here
    PROVE  /\ Quiet => Quiet'
           /\ Beginning => Beginning'
           /\ Underway => Underway'
<1>1. Current' = Current /\ Ends' = Ends /\ \A n : Message(n)' = Message(n)
  BY DEF Current, Store, Ends, Message
<1>2. Quiet => Quiet'
  BY DEF Quiet
<1>3. Beginning => Beginning'
  BY <1>1 DEF Beginning
<1>4. Underway => Underway'
  BY <1>1 DEF Underway
<1> QED
  BY <1>2, <1>3, <1>4

(* There is no turn and no answer. *)
LEMMA InitTracked == Init => Tracked
<1> SUFFICES ASSUME Init PROVE Tracked
  OBVIOUS
<1>1. /\ DOMAIN frames = {} /\ Presses = 0 /\ replay.took = <<>> /\ ~holding
      /\ segments = {} /\ flushes = {} /\ acked = {} /\ replay = Idle
  BY Empty DEF Init, Idle, Presses
<1>2. OneTurn
  <2>1. Quiet
    BY <1>1 DEF Init, Quiet, Here
  <2> QED
    BY <1>1, <2>1 DEF OneTurn
<1>3. Held /\ Replaying
  BY <1>1 DEF Held, Replaying
<1>4. Contents /\ Single
  BY <1>1 DEF Contents, Single
<1>5. Safe
  BY <1>1 DEF Safe
<1> QED
  BY <1>2, <1>3, <1>4, <1>5 DEF Tracked, Tracking

(* A careful press finds the line quiet and begins the one turn. *)
LEMMA PressTracked ==
    ASSUME Typed, Typed', Tracking, Press, careful'
    PROVE  Tracking'
<1>1. Settled
  BY DEF Press
<1>2. up = <<>> /\ acks = 0 /\ turn = 0 /\ replay = Idle /\ Here = {}
  BY <1>1 DEF Settled, Here
<1>3. /\ UNCHANGED <<frames, replay, link, acks, connection, turn, buffer, flushes, segments, acked>>
      /\ ids' = ids + 1 /\ currentTurnId' = ids' /\ bufferTurnId' = ids'
  BY DEF Press, pump, storage
<1>4. Here' = {}
  BY <1>2, <1>3 DEF Here
<1>5. currentTurnId' # 0 /\ currentTurnId' \notin DOMAIN frames'
  BY <1>3 DEF Typed, ClientTyped
<1>6. Current' = <<>>
  BY <1>5 DEF Current, Store
<1>7. /\ ~holding /\ holding' /\ Presses' = Presses + 1 /\ Presses \in Nat
      /\ spoken'[Presses + 1] = 0 /\ Whole(Presses)' = <<>>
      /\ \A p \in 1 .. Presses : spoken'[p] = spoken[p] /\ Whole(p)' = Whole(p)
  BY PressStep, LastPress DEF Typed
<1>8. /\ \A p : Over(p) => Over(p)' /\ Whole(p)' = Whole(p)
      /\ \A s : Answer(s) => Answer(s)'
  BY OverStays DEF Candidate
<1>9. OneTurn'
  <2> SUFFICES ASSUME link' = "open"
               PROVE  Beginning'
    BY <1>7 DEF OneTurn
  <2>1. Len(up) = 0 /\ link = "open"
    BY <1>2, <1>3, Empty
  <2>2. Len(up') = 1 /\ up'[1] = Start
    BY <2>1, PressStep, SendsOne DEF Typed
  <2>3. Len(Current') = 0 /\ Ends' = 0
    BY <1>6, <1>7, Empty DEF Ends
  <2>4. acks' = 0 /\ turn' = 0
    BY <1>2, <1>3
  <2> QED
    BY <1>4, <2>2, <2>3, <2>4 DEF Beginning
<1>10. Held'
  <2>1. Presses' \notin acked'
    <3>1. \A p \in acked : p \in 1 .. Presses
      BY DEF Tracking, Single, Over
    <3> QED
      BY <1>3, <1>7, <3>1
  <2> QED
    BY <1>2, <1>3, <1>4, <1>5, <1>6, <1>7, <2>1 DEF Held, Idle
<1>11. Replaying'
  BY <1>2, <1>3 DEF Replaying, Idle
<1>12. Contents'
  BY <1>3, <1>7, <1>8 DEF Tracking, Contents
<1>13. Single'
  BY <1>3, <1>8 DEF Tracking, Single
<1>14. Safe'
  <2> SUFFICES ASSUME NEW p \in 1 .. Presses', spoken'[p] > 0
               PROVE  Somewhere(Whole(p))'
    BY DEF Safe
  <2>1. p \in 1 .. Presses
    BY <1>7
  <2>2. Somewhere(Whole(p)) /\ Whole(p)' = Whole(p)
    BY <1>7, <2>1 DEF Tracking, Safe
  <2> QED
    BY <1>3, <2>2 DEF Somewhere
<1> QED
  BY <1>9, <1>10, <1>11, <1>12, <1>13, <1>14 DEF Tracking

(* The store, the line and the answer grow by the same frame. *)
LEMMA SpeakTracked ==
    ASSUME Typed, Typed', Tracking, Speak
    PROVE  Tracking'
<1>1. /\ holding /\ holding' /\ Presses \in 1 .. Presses /\ Presses' = Presses
      /\ spoken[Presses] \in Nat /\ spoken'[Presses] = spoken[Presses] + 1
      /\ \A p \in 1 .. Presses : p # Presses => spoken'[p] = spoken[p] /\ Whole(p)' = Whole(p)
      /\ Whole(Presses)' = Append(Whole(Presses), NextFrame) /\ NextFrame \in Frame
  BY SpeakStep, Bounds DEF Speak
<1>2. /\ UNCHANGED <<currentTurnId, bufferTurnId, ids, replay, link, acks, connection, turn,
                     buffer, flushes, segments, acked>>
  BY DEF Speak, pump, storage, history
<1>3. /\ replay = Idle /\ Here = {} /\ Presses \notin acked
      /\ currentTurnId # 0 /\ bufferTurnId = currentTurnId
      /\ Current = Whole(Presses)
  BY <1>1 DEF Tracking, Held
<1>4. Here' = {}
  BY <1>2, <1>3 DEF Here
<1>5. /\ DOMAIN frames' = DOMAIN frames \cup {currentTurnId}
      /\ frames'[currentTurnId] = Append(Store(currentTurnId), NextFrame)
      /\ \A i \in DOMAIN frames : i # currentTurnId => frames'[i] = frames[i]
  BY <1>3, SpeakStep
<1>6. /\ Current' = Append(Current, NextFrame)
      /\ Current' = Whole(Presses)'
      /\ frames'[currentTurnId] = Whole(Presses)'
  BY <1>1, <1>2, <1>3, <1>5 DEF Current, Store
<1>7. /\ Len(Current) = spoken[Presses] /\ Len(Current) \in Nat /\ Current \in Seq(Frame)
      /\ Whole(Presses)'[1] = <<Presses, 1>>
      /\ Len(Current') = Len(Current) + 1
      /\ Current'[Len(Current) + 1] = NextFrame
      /\ \A i \in 1 .. Len(Current) : Current'[i] = Current[i]
  <2>1. /\ Current \in Seq(Frame) /\ Len(Current) = spoken[Presses] /\ Len(Current) \in Nat
        /\ \A k \in 1 .. spoken[Presses] : Current[k] = <<Presses, k>>
    BY <1>1, <1>3, WholeAnswer DEF Typed
  <2>2. /\ Len(Current') = Len(Current) + 1
        /\ Current'[Len(Current) + 1] = NextFrame
        /\ \A i \in 1 .. Len(Current) : Current'[i] = Current[i]
    <3>1. /\ Len(Append(Current, NextFrame)) = Len(Current) + 1
          /\ Append(Current, NextFrame)[Len(Current) + 1] = NextFrame
          /\ \A i \in 1 .. Len(Current) : Append(Current, NextFrame)[i] = Current[i]
      BY <1>1, <2>1, Appended
    <3> QED
      BY <1>6, <3>1
  <2>3. Current'[1] = <<Presses, 1>>
    <3>1. CASE spoken[Presses] = 0
      BY <2>1, <2>2, <3>1 DEF NextFrame
    <3>2. CASE spoken[Presses] # 0
      <4>1. 1 \in 1 .. spoken[Presses]
        BY <2>1, <3>2
      <4> QED
        BY <2>1, <2>2, <4>1
    <3> QED
      BY <3>1, <3>2
  <2> QED
    BY <1>6, <2>1, <2>2, <2>3
<1>8. /\ \A p : Over(p) => Over(p)' /\ Whole(p)' = Whole(p)
      /\ \A s : Answer(s) => Answer(s)'
  BY OverStays DEF Candidate
<1>9. ASSUME NEW q, Over(q)
      PROVE  q # Presses /\ q \in 1 .. Presses /\ Whole(q)[1] = <<q, 1>> /\ Whole(q) # Whole(Presses)'
  <2>1. q \in 1 .. Presses /\ q < Presses /\ Whole(q)[1] = <<q, 1>>
    BY <1>1, <1>9, AnswerFacts DEF Over, Typed
  <2>2. <<q, 1>> # <<Presses, 1>>
    BY <1>1, <2>1
  <2> QED
    BY <1>1, <1>7, <2>1, <2>2
<1>10. ASSUME NEW i \in DOMAIN frames, i # currentTurnId
       PROVE  Answer(frames[i]) /\ frames[i] # Whole(Presses)' /\ frames'[i] = frames[i]
  <2>1. Answer(frames[i])
    BY <1>10 DEF Tracking, Contents
  <2> QED
    BY <1>5, <1>9, <1>10, <2>1 DEF Answer
<1>11. OneTurn'
  <2> SUFFICES ASSUME link' = "open"
               PROVE  Beginning' \/ Underway'
    BY <1>1 DEF OneTurn
  <2>1. Beginning \/ Underway
    BY <1>1, <1>2 DEF Tracking, OneTurn
  <2>2. PICK g : g = NextFrame
    OBVIOUS
  <2>3. /\ Len(up') = Len(up) + 1 /\ up'[Len(up) + 1] = g
        /\ \A i \in 1 .. Len(up) : up'[i] = up[i]
        /\ Len(up) \in Nat
    BY <1>2, <2>2, SpeakStep, SendsOne, LenProperties DEF Typed, WireTyped
  <2>4. Ends = 0 /\ Ends' = 0
    BY <1>1 DEF Ends
  <2>5. \A n \in 1 .. Len(Current) : Message(n)' = Message(n)
    BY <1>7 DEF Message
  <2> DEFINE m == Len(Current)
  <2>6. m \in Nat /\ Len(Current) = m /\ Len(Current') = m + 1
    BY <1>7
  <2>7. \A n : n = m + 1 => Message(n)' = g
    BY <1>7, <2>2 DEF Message
  <2> HIDE DEF m
  <2>8. CASE Beginning
    <3>1. Len(up) = 1 + m /\ up[1] = Start
      BY <2>4, <2>6, <2>8 DEF Beginning
    <3>2. ASSUME NEW i \in 2 .. m + 2
          PROVE  up'[i] = Message(i - 1)'
      <4>1. PICK n : n = i - 1
        OBVIOUS
      <4>2. CASE n = m + 1
        <5>1. i = Len(up) + 1
          BY <2>6, <3>1, <4>1, <4>2
        <5> QED
          BY <2>3, <2>7, <4>1, <4>2, <5>1
      <4>3. CASE n # m + 1
        <5>1. i \in 2 .. Len(up) /\ i \in 1 .. Len(up) /\ n \in 1 .. m
          BY <2>6, <3>1, <4>1, <4>3
        <5>2. up[i] = Message(n)
          BY <2>8, <4>1, <5>1 DEF Beginning
        <5>3. Message(n)' = Message(n)
          BY <2>5, <2>6, <5>1
        <5> QED
          BY <2>3, <4>1, <5>1, <5>2, <5>3
      <4> QED
        BY <4>2, <4>3
    <3>3. Len(up') = 1 + Len(Current') + Ends' /\ up'[1] = Start /\ Len(up') = m + 2
      <4>1. 1 \in 1 .. Len(up)
        BY <2>6, <3>1
      <4> QED
        BY <2>3, <2>4, <2>6, <3>1, <4>1
    <3>4. acks' = 0 /\ turn' = 0
      BY <1>2, <2>8 DEF Beginning
    <3> QED
      BY <1>4, <3>2, <3>3, <3>4 DEF Beginning
  <2>9. CASE Underway
    <3>0. PICK b : b = Len(buffer)
      OBVIOUS
    <3>1. /\ b + Len(up) = m /\ b <= m /\ b \in Nat
          /\ \A i \in 1 .. b : buffer[i] = Current[i]
          /\ \A i \in 1 .. Len(up) : up[i] = Message(b + i)
      BY <2>4, <2>6, <2>9, <3>0, LenProperties DEF Underway, Typed, PumpTyped
    <3>2. Len(buffer') = b
      BY <1>2, <3>0
    <3>3. ASSUME NEW i \in 1 .. Len(up')
          PROVE  up'[i] = Message(b + i)'
      <4>1. PICK n : n = b + i
        OBVIOUS
      <4>2. CASE i = Len(up) + 1
        <5>1. n = m + 1
          BY <2>3, <2>6, <3>1, <4>1, <4>2
        <5> QED
          BY <2>3, <2>7, <4>1, <4>2, <5>1
      <4>3. CASE i # Len(up) + 1
        <5>1. i \in 1 .. Len(up) /\ n \in 1 .. m
          <6>1. i \in 1 .. Len(up)
            BY <2>3, <4>3
          <6> QED
            BY <2>3, <2>6, <3>1, <4>1, <6>1
        <5>2. up[i] = Message(n)
          BY <3>1, <4>1, <5>1
        <5>3. Message(n)' = Message(n)
          BY <2>5, <2>6, <5>1
        <5> QED
          BY <2>3, <4>1, <5>1, <5>2, <5>3
      <4> QED
        BY <4>2, <4>3
    <3>4. Len(buffer') + Len(up') = Len(Current') + Ends' /\ Len(buffer') <= Len(Current')
      BY <2>3, <2>4, <2>6, <3>1, <3>2
    <3>5. \A i \in 1 .. Len(buffer') : buffer'[i] = Current'[i]
      <4>1. \A i \in 1 .. b : i \in 1 .. m
        BY <2>6, <3>1
      <4> QED
        BY <1>2, <1>7, <2>6, <3>1, <3>2, <4>1
    <3>6. acks' = 0 /\ turn' # 0
      BY <1>2, <2>9 DEF Underway
    <3> QED
      BY <1>4, <3>2, <3>3, <3>4, <3>5, <3>6 DEF Underway
  <2> QED
    BY <2>1, <2>8, <2>9
<1>12. Held'
  BY <1>1, <1>2, <1>3, <1>4, <1>6 DEF Held, Idle
<1>13. Replaying'
  BY <1>2, <1>3 DEF Replaying, Idle
<1>14. Contents'
  <2>1. \A i \in DOMAIN frames' : i # currentTurnId => Answer(frames[i])'
    BY <1>5, <1>8, <1>10
  <2> QED
    BY <1>1, <1>2, <1>8, <2>1 DEF Tracking, Contents
<1>15. Single'
  <2>1. ASSUME NEW i \in DOMAIN frames', NEW j \in DOMAIN frames', frames'[i] = frames'[j]
        PROVE  i = j
    <3>1. CASE i = currentTurnId \/ j = currentTurnId
      BY <1>5, <1>6, <1>10, <2>1, <3>1
    <3>2. CASE i # currentTurnId /\ j # currentTurnId
      BY <1>5, <2>1, <3>2 DEF Tracking, Single
    <3> QED
      BY <3>1, <3>2
  <2>2. \A i \in DOMAIN frames' : frames'[i] # replay'.took
    BY <1>2, <1>3 DEF Typed, ClientTyped, Idle
  <2>3. ASSUME NEW p \in acked'
        PROVE  /\ Over(p)' /\ Whole(p)' # replay'.took
               /\ \A i \in DOMAIN frames' : frames'[i] # Whole(p)'
    <3>1. /\ Over(p) /\ Whole(p) # replay.took
          /\ \A i \in DOMAIN frames : frames[i] # Whole(p)
      BY <1>2 DEF Tracking, Single
    <3>2. Over(p)' /\ Whole(p)' = Whole(p)
      BY <1>8, <3>1
    <3>3. Whole(p) # Whole(Presses)'
      BY <1>9, <3>1
    <3>4. \A i \in DOMAIN frames' : frames'[i] # Whole(p)
      BY <1>5, <1>6, <3>1, <3>3
    <3> QED
      BY <1>2, <3>1, <3>2, <3>4
  <2> QED
    BY <2>1, <2>2, <2>3 DEF Single
<1>16. Safe'
  <2> SUFFICES ASSUME NEW p \in 1 .. Presses, spoken'[p] > 0
               PROVE  Somewhere(Whole(p))'
    BY <1>1 DEF Safe
  <2>1. CASE p = Presses
    <3>1. Whole(p)' = frames'[currentTurnId] /\ currentTurnId \in DOMAIN frames'
      BY <1>1, <1>5, <1>6, <2>1
    <3> QED
      BY <3>1 DEF Somewhere
  <2>2. CASE p # Presses
    <3>1. spoken[p] > 0 /\ Whole(p)' = Whole(p)
      BY <1>1, <2>2
    <3>2. Somewhere(Whole(p))
      BY <3>1 DEF Tracking, Safe
    <3>3. CASE Whole(p) \in segments \/ Whole(p) = replay.took
      BY <1>2, <3>1, <3>3 DEF Somewhere
    <3>4. ASSUME NEW i \in DOMAIN frames, Whole(p) = frames[i]
          PROVE  Somewhere(Whole(p))'
      <4>1. i # currentTurnId
        <5>1. ASSUME i = currentTurnId
              PROVE  Whole(p) = Whole(Presses)
          BY <1>3, <3>4, <5>1 DEF Current, Store
        <5> QED
          BY <1>1, <2>2, <3>1, <5>1, WholeTells DEF Typed
      <4> QED
        BY <1>5, <3>1, <3>4, <4>1 DEF Somewhere
    <3> QED
      BY <3>2, <3>3, <3>4 DEF Somewhere
  <2> QED
    BY <2>1, <2>2
<1> QED
  BY <1>11, <1>12, <1>13, <1>14, <1>15, <1>16 DEF Tracking

(* The end follows the last frame, and the answer is over. *)
LEMMA ReleaseTracked ==
    ASSUME Typed, Typed', Tracking, Release
    PROVE  Tracking'
<1>1. /\ holding /\ ~holding' /\ Send(<<End>>) /\ End \in Packet
      /\ UNCHANGED <<spoken, currentTurnId, bufferTurnId, frames, replay, link, acks, connection,
                     turn, buffer, flushes, segments, acked>>
  BY DEF Release, client, pump, storage, history, Packet
<1>2. /\ replay = Idle /\ Here = {} /\ currentTurnId # 0
      /\ Current = Whole(Presses) /\ Presses \in 1 .. Presses
  BY <1>1, LastPress DEF Tracking, Held, Typed
<1>3. Here' = {} /\ Current' = Current /\ Ends = 0 /\ Ends' = 1
  BY <1>1, <1>2 DEF Here, Current, Store, Ends
<1>4. /\ \A p : Over(p) => Over(p)' /\ Whole(p)' = Whole(p)
      /\ \A s : Answer(s) => Answer(s)'
  BY OverStays DEF Candidate
<1>5. OneTurn'
  <2> SUFFICES ASSUME link' = "open"
               PROVE  Beginning' \/ Underway'
    BY <1>1 DEF OneTurn
  <2>1. Beginning \/ Underway
    BY <1>1 DEF Tracking, OneTurn
  <2>2. PICK m : m = Len(Current)
    OBVIOUS
  <2>3. m \in Nat /\ Len(Current') = m
    <3>1. Len(Current) \in Nat
      BY <1>2, WholeAnswer, LenProperties DEF Typed
    <3> QED
      BY <1>3, <2>2, <3>1
  <2>4. /\ Len(up') = Len(up) + 1 /\ up'[Len(up) + 1] = End
        /\ \A i \in 1 .. Len(up) : up'[i] = up[i]
        /\ Len(up) \in Nat
    BY <1>1, SendsOne, LenProperties DEF Typed, WireTyped
  <2>5. /\ \A n : Message(n)' = Message(n)
        /\ \A n : n = m + 1 => Message(n) = End
    BY <1>3, <2>2, <2>3 DEF Message
  <2>6. CASE Beginning
    <3>1. Len(up) = 1 + m /\ up[1] = Start
      BY <1>3, <2>2, <2>3, <2>6 DEF Beginning
    <3>2. ASSUME NEW i \in 2 .. m + 2
          PROVE  up'[i] = Message(i - 1)'
      <4>1. CASE i = m + 2
        BY <2>3, <2>4, <2>5, <3>1, <4>1
      <4>2. CASE i # m + 2
        <5>1. i \in 2 .. Len(up) /\ i \in 1 .. Len(up)
          BY <2>3, <3>1, <4>2
        <5> QED
          BY <2>4, <2>5, <2>6, <5>1 DEF Beginning
      <4> QED
        BY <4>1, <4>2
    <3>3. Len(up') = 1 + Len(Current') + Ends' /\ up'[1] = Start /\ Len(up') = m + 2
      <4>1. 1 \in 1 .. Len(up)
        BY <2>3, <3>1
      <4> QED
        BY <1>3, <2>3, <2>4, <3>1, <4>1
    <3>4. acks' = 0 /\ turn' = 0
      BY <1>1, <2>6 DEF Beginning
    <3> QED
      BY <1>3, <3>2, <3>3, <3>4 DEF Beginning
  <2>7. CASE Underway
    <3>0. PICK b : b = Len(buffer)
      OBVIOUS
    <3>1. /\ b + Len(up) = m /\ b <= m /\ b \in Nat
          /\ \A i \in 1 .. b : buffer[i] = Current[i]
          /\ \A i \in 1 .. Len(up) : up[i] = Message(b + i)
      BY <1>3, <2>2, <2>3, <2>7, <3>0, LenProperties DEF Underway, Typed, PumpTyped
    <3>2. Len(buffer') = b
      BY <1>1, <3>0
    <3>3. ASSUME NEW i \in 1 .. Len(up')
          PROVE  up'[i] = Message(b + i)'
      <4>1. CASE i = Len(up) + 1
        <5>1. PICK n : n = b + i
          OBVIOUS
        <5>2. n = m + 1
          BY <2>3, <2>4, <3>1, <4>1, <5>1
        <5>3. Message(n)' = End
          BY <2>5, <5>2 DEF End
        <5> QED
          BY <2>4, <4>1, <5>1, <5>3
      <4>2. CASE i # Len(up) + 1
        <5>1. i \in 1 .. Len(up)
          BY <2>4, <4>2
        <5> QED
          BY <2>4, <2>5, <3>1, <5>1
      <4> QED
        BY <4>1, <4>2
    <3>4. Len(buffer') + Len(up') = Len(Current') + Ends' /\ Len(buffer') <= Len(Current')
      BY <1>3, <2>3, <2>4, <3>1, <3>2
    <3>5. \A i \in 1 .. Len(buffer') : buffer'[i] = Current'[i]
      BY <1>1, <1>3, <3>1, <3>2
    <3>6. acks' = 0 /\ turn' # 0
      BY <1>1, <2>7 DEF Underway
    <3> QED
      BY <1>3, <3>2, <3>3, <3>4, <3>5, <3>6 DEF Underway
  <2> QED
    BY <2>1, <2>6, <2>7
<1>6. Held' /\ Replaying'
  BY <1>1, <1>2 DEF Held, Replaying, Idle
<1>7. Contents'
  <2>1. ASSUME NEW id \in DOMAIN frames
        PROVE  Answer(frames[id])'
    <3>1. CASE id = currentTurnId
      <4>1. frames[id] = Whole(Presses) /\ frames[id] # <<>>
        BY <1>2, <3>1 DEF Current, Store, Typed, ClientTyped
      <4>2. spoken[Presses] > 0
        BY <1>2, <4>1, WholeAnswer, Empty, Bounds DEF Typed
      <4>3. Presses' = Presses /\ Whole(Presses)' = Whole(Presses)
        BY <1>1 DEF Presses, Whole
      <4>4. PICK p : p = Presses
        OBVIOUS
      <4>5. Over(p)' /\ p \in 1 .. Presses' /\ Whole(p)' = Whole(p) /\ frames[id] = Whole(p)
        BY <1>1, <1>2, <4>1, <4>2, <4>3, <4>4 DEF Over, Whole
      <4> QED
        BY <1>1, <4>5 DEF Answer
    <3>2. CASE id # currentTurnId
      <4>1. Answer(frames[id])
        BY <3>2 DEF Tracking, Contents
      <4>2. PICK s : s = frames[id]
        OBVIOUS
      <4>3. Answer(s)'
        BY <1>4, <4>1, <4>2
      <4> QED
        BY <1>1, <4>2, <4>3
    <3> QED
      BY <3>1, <3>2
  <2> QED
    BY <1>1, <1>4, <2>1 DEF Tracking, Contents
<1>8. Single'
  BY <1>1, <1>4 DEF Tracking, Single
<1>9. Safe'
  BY <1>1 DEF Tracking, Safe, Somewhere, Presses, Whole
<1> QED
  BY <1>5, <1>6, <1>7, <1>8, <1>9 DEF Tracking

(* Only what was on its way is lost, and the store has that too. *)
LEMMA DropTracked ==
    ASSUME Typed, Tracking, Drop
    PROVE  Tracking'
<1>1. /\ UNCHANGED <<holding, spoken, currentTurnId, bufferTurnId, frames, replay, connection,
                     flushes, segments, acked>>
      /\ link' = "down"
  BY DEF Drop, page, client, storage, history
<1>2. OneTurn'
  BY <1>1 DEF OneTurn
<1>3. Held'
  <2>1. Here' = Here /\ Current' = Current /\ Presses' = Presses /\ Whole(Presses)' = Whole(Presses)
    BY <1>1 DEF Here, Current, Store, Presses, Whole
  <2> QED
    BY <1>1, <2>1 DEF Tracking, Held, Idle
<1>4. Replaying'
  BY <1>1 DEF Tracking, Replaying, Idle
<1>5. Contents' /\ Single' /\ Safe'
  BY <1>1, ContentsStay DEF Tracking, page
<1> QED
  BY <1>2, <1>3, <1>4, <1>5 DEF Tracking

(* A new connection starts with nothing on its way. *)
LEMMA ReconnectTracked ==
    ASSUME Typed, Tracking, Reconnect, careful'
    PROVE  Tracking'
<1>1. /\ UNCHANGED <<holding, spoken, currentTurnId, bufferTurnId, frames, up, acks, turn, buffer,
                     flushes, segments, acked>>
      /\ ~holding /\ link = "down" /\ replay = Idle /\ replay'.took = <<>>
      /\ connection' = connection + 1
  BY DEF Reconnect, page, client, pump, storage, Idle
<1>2. Here' = {}
  <2>1. connection \in Nat /\ \A f \in flushes : f.connection \in 1 .. connection
    BY Bounds DEF Typed, StorageTyped, WireTyped
  <2> QED
    BY <1>1, <2>1 DEF Here
<1>3. Quiet'
  BY <1>1, <1>2 DEF Quiet, Typed, WireTyped
<1>4. OneTurn' /\ Held' /\ Replaying'
  BY <1>1, <1>3 DEF OneTurn, Held, Replaying
<1>5. Contents' /\ Single' /\ Safe'
  <2>1. replay'.took = replay.took
    BY <1>1 DEF Idle
  <2> QED
    BY <1>1, <2>1, ContentsStay DEF Tracking, page
<1> QED
  BY <1>4, <1>5 DEF Tracking

(* What is taken out of the store is in the hands of the replay. *)
LEMMA TakeTracked ==
    ASSUME Typed, Tracking, takeIncompleteTurn
    PROVE  Tracking'
<1>1. /\ UNCHANGED <<holding, spoken, link, up, acks, connection, turn, buffer, flushes, segments,
                     acked, currentTurnId>>
      /\ replay.pc = "reading"
  BY DEF takeIncompleteTurn, page, client, wire, pump, storage, history
<1>2. replay # Idle /\ replay.took = <<>>
  BY <1>1 DEF Idle, Typed, ReplayTyped
<1>3. ~holding /\ (link = "open" => Quiet)
  BY <1>2 DEF Tracking, Replaying
<1>4. Here' = Here /\ (link' = "open" => Quiet')
  BY <1>1, <1>3 DEF Here, Quiet
<1>5. OneTurn' /\ Held' /\ Replaying'
  BY <1>1, <1>3, <1>4 DEF OneTurn, Held, Replaying
<1>6. Contents' /\ Single' /\ Safe'
  <2>1. CASE replay' = Idle /\ UNCHANGED client
    <3>1. replay'.took = replay.took
      BY <1>2, <2>1 DEF Idle
    <3> QED
      BY <1>1, <2>1, <3>1, ContentsStay DEF Tracking, page, client
  <2>2. ASSUME NEW id \in DOMAIN frames,
               replay' = [pc |-> "taken", took |-> frames[id]],
               frames' = Without(id)
        PROVE  Contents' /\ Single' /\ Safe'
    <3>1. replay'.took = frames[id]
      BY <2>2
    <3>2. /\ DOMAIN frames' = DOMAIN frames \ {id}
          /\ \A i \in DOMAIN frames' : frames'[i] = frames[i]
      BY <2>2 DEF Without
    <3>3. /\ \A p : Over(p) => Over(p)' /\ Whole(p)' = Whole(p)
          /\ \A s : Answer(s) => Answer(s)'
      BY <1>1, OverStays DEF page
    <3>4. \A i \in DOMAIN frames : Answer(frames[i])
      BY <1>3 DEF Tracking, Contents
    <3>5. Contents'
      BY <1>1, <3>1, <3>2, <3>3, <3>4 DEF Tracking, Contents
    <3>6. Single'
      BY <1>1, <3>1, <3>2, <3>3 DEF Tracking, Single
    <3>7. Safe'
      <4> SUFFICES ASSUME NEW p \in 1 .. Presses, spoken[p] > 0
                   PROVE  Somewhere(Whole(p))'
        BY <1>1 DEF Safe, Presses
      <4>1. Whole(p)' = Whole(p) /\ Whole(p) # <<>> /\ Somewhere(Whole(p))
        BY <1>1, WholeStarts DEF Whole, Tracking, Safe, Typed
      <4>2. CASE Whole(p) \in segments
        BY <1>1, <4>1, <4>2 DEF Somewhere
      <4>3. ASSUME NEW i \in DOMAIN frames, Whole(p) = frames[i]
            PROVE  Somewhere(Whole(p))'
        BY <3>1, <3>2, <4>1, <4>3 DEF Somewhere
      <4> QED
        BY <1>2, <4>1, <4>2, <4>3 DEF Somewhere
    <3> QED
      BY <3>5, <3>6, <3>7
  <2> QED
    BY <2>1, <2>2 DEF takeIncompleteTurn
<1> QED
  BY <1>5, <1>6 DEF Tracking

(* The replay stores what it took before it sends it. *)
LEMMA ReplayTracked ==
    ASSUME Typed, Typed', Tracking, Replay
    PROVE  Tracking'
<1>1. /\ UNCHANGED <<holding, spoken, link, acks, connection, turn, buffer, flushes, segments, acked>>
      /\ replay.pc = "taken" /\ replay' = Idle
  BY DEF Replay, page, pump, storage, history
<1>2. replay # Idle /\ replay'.took = <<>>
  BY <1>1 DEF Idle
<1>3. ~holding /\ (link = "open" => Quiet)
  BY <1>2 DEF Tracking, Replaying
<1>4. PICK s : s = replay.took
  OBVIOUS
<1>5. PICK id : id = ids'
  OBVIOUS
<1>6. /\ s \in Seq(Frame) /\ s # <<>> /\ currentTurnId' = id
      /\ id \notin DOMAIN frames /\ DOMAIN frames' = DOMAIN frames \cup {id}
      /\ frames'[id] = s /\ \A i \in DOMAIN frames : frames'[i] = frames[i]
  BY <1>4, <1>5, ReplayStep
<1>7. Current' = s /\ Ends' = 1 /\ Here' = Here
  BY <1>1, <1>3, <1>6 DEF Current, Store, Ends, Here
<1>8. OneTurn'
  <2> SUFFICES ASSUME link' = "open"
               PROVE  Beginning'
    BY <1>1, <1>3 DEF OneTurn
  <2>1. link = "open" /\ up = <<>> /\ Len(up) = 0 /\ acks = 0 /\ turn = 0 /\ Here = {}
    BY <1>1, <1>3, Empty DEF Quiet
  <2>2. PICK m : m = Len(s)
    OBVIOUS
  <2>3. m \in Nat
    BY <1>6, <2>2, LenProperties
  <2>4. /\ Len(up') = m + 2 /\ up'[1] = Start /\ up'[m + 2] = End
        /\ \A i \in 1 .. m : up'[i + 1] = s[i]
    <3>1. /\ Len(up') = 0 + (m + 2) /\ up'[0 + 1] = Start /\ up'[0 + (m + 2)] = End
          /\ \A i \in 1 .. m : up'[0 + (i + 1)] = s[i]
      BY <1>4, <2>1, <2>2, ReplayStep
    <3>2. \A i \in 1 .. m : 0 + (i + 1) = i + 1
      BY <2>3
    <3> QED
      BY <2>3, <3>1, <3>2
  <2>5. ASSUME NEW i \in 2 .. m + 2
        PROVE  up'[i] = Message(i - 1)'
    <3>1. CASE i = m + 2
      <4>1. ~(i - 1 <= m)
        BY <2>3, <3>1
      <4> QED
        BY <1>7, <2>2, <2>4, <3>1, <4>1 DEF Message, End
    <3>2. CASE i # m + 2
      <4>1. i - 1 \in 1 .. m /\ (i - 1) + 1 = i /\ i - 1 <= m
        BY <2>3, <3>2
      <4> QED
        BY <1>7, <2>2, <2>4, <4>1 DEF Message
    <3> QED
      BY <3>1, <3>2
  <2>6. Len(up') = 1 + Len(Current') + Ends'
    BY <1>7, <2>2, <2>3, <2>4
  <2>7. acks' = 0 /\ turn' = 0 /\ Here' = {}
    BY <1>1, <1>7, <2>1
  <2> QED
    BY <2>4, <2>5, <2>6, <2>7 DEF Beginning, Start
<1>9. Held' /\ Replaying'
  BY <1>1, <1>3 DEF Held, Replaying, Idle
<1>10. /\ \A p : Over(p) => Over(p)' /\ Whole(p)' = Whole(p)
       /\ \A t : Answer(t) => Answer(t)'
       /\ \A p : Over(p) => Whole(p) # <<>>
  BY <1>1, OverStays, AnswerFacts DEF page, Typed
<1>11. Contents'
  <2>1. \A i \in DOMAIN frames' : Answer(frames'[i])
    BY <1>3, <1>4, <1>6 DEF Tracking, Contents
  <2>2. \A i \in DOMAIN frames' : Answer(frames[i])'
    BY <1>10, <2>1
  <2> QED
    BY <1>1, <1>2, <1>10, <2>2 DEF Tracking, Contents
<1>12. Single'
  <2>1. \A i \in DOMAIN frames' : frames'[i] # replay'.took
    BY <1>2 DEF Typed, ClientTyped
  <2>2. \A i, j \in DOMAIN frames' : frames'[i] = frames'[j] => i = j
    BY <1>4, <1>6 DEF Tracking, Single
  <2>3. ASSUME NEW p \in acked'
        PROVE  /\ Over(p)' /\ Whole(p)' # replay'.took
               /\ \A i \in DOMAIN frames' : frames'[i] # Whole(p)'
    BY <1>1, <1>2, <1>4, <1>6, <1>10 DEF Tracking, Single
  <2> QED
    BY <2>1, <2>2, <2>3 DEF Single
<1>13. Safe'
  <2> SUFFICES ASSUME NEW p \in 1 .. Presses, spoken[p] > 0
               PROVE  Somewhere(Whole(p))'
    BY <1>1 DEF Safe, Presses
  <2>1. Whole(p)' = Whole(p) /\ Somewhere(Whole(p))
    BY <1>1 DEF Whole, Tracking, Safe
  <2> QED
    BY <1>1, <1>4, <1>6, <2>1 DEF Somewhere
<1> QED
  BY <1>8, <1>9, <1>11, <1>12, <1>13 DEF Tracking

(* An acknowledgement that comes is that of the current turn. *)
LEMMA CompleteTracked ==
    ASSUME Typed, Tracking, turn_complete
    PROVE  Tracking'
<1>1. /\ UNCHANGED <<holding, spoken, replay, link, up, connection, turn, buffer, flushes, segments>>
      /\ acks > 0 /\ acks' = acks - 1
  BY DEF turn_complete, page, pump, storage
<1>2. link = "open"
  BY <1>1 DEF Typed, WireTyped
<1>3. ~holding /\ Stored /\ replay = Idle
  <2>1. ~Quiet /\ ~Beginning /\ ~Underway /\ ~Ended
    BY <1>1 DEF Quiet, Beginning, Underway, Ended
  <2>2. ~holding /\ Stored
    BY <1>2, <2>1 DEF Tracking, OneTurn
  <2>3. replay = Idle
    BY <1>2, <2>1 DEF Tracking, Replaying
  <2> QED
    BY <2>2, <2>3
<1>4. Quiet'
  BY <1>1, <1>3 DEF Stored, Quiet, Here
<1>5. OneTurn' /\ Held' /\ Replaying'
  BY <1>1, <1>3, <1>4 DEF OneTurn, Held, Replaying
<1>6. Contents' /\ Single' /\ Safe'
  <2>1. CASE currentTurnId = 0
    <3>1. UNCHANGED <<client, acked>>
      BY <2>1 DEF turn_complete
    <3> QED
      BY <1>1, <3>1, ContentsStay DEF Tracking, page, client
  <2>2. CASE currentTurnId # 0
    <3>1. /\ frames' = Without(currentTurnId)
          /\ acked' = IF currentTurnId \in DOMAIN frames
                      THEN acked \cup {f[1] : f \in Range(frames[currentTurnId])}
                      ELSE acked
      BY <2>2 DEF turn_complete
    <3>2. /\ DOMAIN frames' = DOMAIN frames \ {currentTurnId}
          /\ \A i \in DOMAIN frames' : frames'[i] = frames[i]
      BY <3>1 DEF Without
    <3>3. /\ \A p : Over(p) => Over(p)' /\ Whole(p)' = Whole(p)
          /\ \A s : Answer(s) => Answer(s)'
      BY <1>1, OverStays DEF page
    <3>4. Contents'
      <4>1. \A i \in DOMAIN frames' : Answer(frames'[i])
        BY <1>3, <3>2 DEF Tracking, Contents
      <4>2. \A i \in DOMAIN frames' : Answer(frames[i])'
        BY <3>3, <4>1
      <4> QED
        BY <1>1, <3>3, <4>2 DEF Tracking, Contents
    <3>5. Single'
      <4>1. \A i, j \in DOMAIN frames' : frames'[i] = frames'[j] => i = j
        BY <3>2 DEF Tracking, Single
      <4>2. \A i \in DOMAIN frames' : frames'[i] # replay'.took
        BY <1>1, <3>2 DEF Tracking, Single
      <4>3. ASSUME NEW p \in acked
            PROVE  /\ Over(p)' /\ Whole(p)' # replay'.took
                   /\ \A i \in DOMAIN frames' : frames'[i] # Whole(p)'
        BY <1>1, <3>2, <3>3 DEF Tracking, Single
      <4>4. ASSUME NEW p \in acked', p \notin acked
            PROVE  /\ Over(p)' /\ Whole(p)' # replay'.took
                   /\ \A i \in DOMAIN frames' : frames'[i] # Whole(p)'
        <5>1. /\ currentTurnId \in DOMAIN frames
              /\ \E f \in Range(frames[currentTurnId]) : p = f[1]
          BY <3>1, <4>4
        <5>2. PICK f \in Range(frames[currentTurnId]) : p = f[1]
          BY <5>1
        <5>3. PICK q \in 1 .. Presses : Over(q) /\ frames[currentTurnId] = Whole(q)
          BY <1>3, <5>1 DEF Tracking, Contents, Answer
        <5>4. PICK k \in DOMAIN Whole(q) : f = Whole(q)[k]
          BY <5>2, <5>3 DEF Range
        <5>5. f = <<q, k>>
          BY <5>4, WholeAnswer DEF Typed
        <5>6. p = q
          BY <5>2, <5>5
        <5>7. Over(p)' /\ Whole(p)' = frames[currentTurnId]
          BY <3>3, <5>3, <5>6
        <5>8. /\ frames[currentTurnId] # replay.took
              /\ \A i \in DOMAIN frames : i # currentTurnId => frames[i] # frames[currentTurnId]
          BY <5>1 DEF Tracking, Single
        <5> QED
          BY <1>1, <3>2, <5>7, <5>8
      <4> QED
        BY <4>1, <4>2, <4>3, <4>4 DEF Single
    <3>6. Safe'
      <4> SUFFICES ASSUME NEW p \in 1 .. Presses, spoken[p] > 0
                   PROVE  Somewhere(Whole(p))'
        BY <1>1 DEF Safe, Presses
      <4>1. Whole(p)' = Whole(p) /\ Somewhere(Whole(p)) /\ Whole(p) # <<>>
        BY <1>1, WholeStarts DEF Whole, Tracking, Safe, Typed
      <4>2. ASSUME NEW i \in DOMAIN frames, Whole(p) = frames[i]
            PROVE  Somewhere(Whole(p))'
        <5>1. CASE i = currentTurnId
          <6>1. Whole(p) \in segments
            BY <1>3, <4>1, <4>2, <5>1 DEF Stored, Current, Store
          <6> QED
            BY <1>1, <4>1, <6>1 DEF Somewhere
        <5>2. CASE i # currentTurnId
          BY <3>2, <4>1, <4>2, <5>2 DEF Somewhere
        <5> QED
          BY <5>1, <5>2
      <4> QED
        BY <1>1, <4>1, <4>2 DEF Somewhere
    <3> QED
      BY <3>4, <3>5, <3>6
  <2> QED
    BY <2>1, <2>2
<1> QED
  BY <1>5, <1>6 DEF Tracking

(* The gateway reads the start, then the frames one by one, then the end. *)
LEMMA ReceiveTracked ==
    ASSUME Typed, Typed', Tracking, Receive
    PROVE  Tracking'
<1>1. /\ UNCHANGED <<holding, spoken, currentTurnId, bufferTurnId, frames, replay, link, acks,
                     connection, segments, acked>>
      /\ link = "open" /\ up # <<>>
  BY ReceiveStep DEF Receive, page, client, history
<1>2. /\ Len(up) \in Nat /\ Len(up) > 0 /\ Head(up) = up[1]
      /\ Len(up') = Len(up) - 1
      /\ \A i \in 1 .. Len(up) - 1 : up'[i] = up[i + 1]
  BY ReceiveStep, LenProperties
<1>3. Current' = Current /\ Ends' = Ends /\ \A n : Message(n)' = Message(n)
  BY <1>1 DEF Current, Store, Ends, Message
<1>4. Current \in Seq(Frame) /\ Len(Current) \in Nat /\ DOMAIN Current = 1 .. Len(Current)
  <2>1. Current \in Seq(Frame)
    BY Empty DEF Current, Store, Typed, ClientTyped
  <2> QED
    BY <2>1, LenProperties
<1>5. /\ Beginning \/ Underway
      /\ replay = Idle
  BY <1>1 DEF Tracking, OneTurn, Replaying, Quiet, Ended, Stored
<1>6. \A n \in 1 .. Len(Current) : Message(n) \in Frame
  BY <1>4, ElementOfSeq DEF Message
<1>7. ASSUME UNCHANGED flushes, Underway'
      PROVE  Tracking'
  <2>1. Here' = Here
    BY <1>1, <1>7 DEF Here
  <2>2. OneTurn'
    BY <1>7 DEF OneTurn
  <2>3. Held' /\ Replaying'
    BY <1>1, <1>3, <1>5, <2>1 DEF Tracking, Held, Replaying, Idle, Presses, Whole
  <2>4. Contents' /\ Single' /\ Safe'
    BY <1>1, <1>7, ContentsStay DEF Tracking, page
  <2> QED
    BY <2>2, <2>3, <2>4 DEF Tracking
<1>8. CASE Beginning
  <2>1. up[1] = Start /\ Len(up) = 1 + Len(Current) + Ends
    BY <1>8 DEF Beginning
  <2>2. activity_start
    BY <1>2, <2>1, Packets DEF Receive, activity_end, audio_frame
  <2>3. turn' # 0 /\ buffer' = <<>> /\ flushes' = flushes /\ acks' = 0
    BY <1>1, <1>8, <2>2 DEF activity_start, Beginning, Typed, PumpTyped
  <2>4. Len(buffer') = 0
    BY <2>3, Empty
  <2>5. Here' = {}
    BY <1>1, <1>8, <2>3 DEF Beginning, Here
  <2>6. Ends \in Nat
    BY DEF Ends
  <2>7. ASSUME NEW i \in 1 .. Len(up')
        PROVE  up'[i] = Message(Len(buffer) + i)'
    <3>1. i \in 1 .. Len(up) - 1 /\ i + 1 \in 2 .. Len(up) /\ (i + 1) - 1 = i
      BY <1>2
    <3>2. up[i + 1] = Message((i + 1) - 1)
      BY <1>8, <3>1 DEF Beginning
    <3>3. up'[i] = Message(i)
      BY <1>2, <3>1, <3>2
    <3>4. Message(i)' = Message(i) /\ Len(buffer') + i = i
      BY <1>3, <2>4, <3>1
    <3> QED
      BY <3>3, <3>4 DEF Message
  <2>8. Len(buffer') + Len(up') = Len(Current') + Ends' /\ Len(buffer') <= Len(Current')
    BY <1>2, <1>3, <1>4, <2>1, <2>4, <2>6
  <2>9. \A i \in 1 .. Len(buffer') : buffer'[i] = Current'[i]
    BY <2>4
  <2>10. Underway'
    BY <2>3, <2>5, <2>7, <2>8, <2>9 DEF Underway
  <2> QED
    BY <1>7, <2>3, <2>10
<1>9. CASE Underway
  <2>1. PICK b : b = Len(buffer)
    OBVIOUS
  <2>2. /\ b \in Nat /\ buffer \in Seq(Frame) /\ b + Len(up) = Len(Current) + Ends
        /\ b <= Len(Current) /\ turn # 0 /\ acks = 0 /\ Here = {}
        /\ \A i \in 1 .. b : buffer[i] = Current[i]
        /\ \A i \in 1 .. Len(up) : up[i] = Message(b + i)
    BY <1>9, <2>1, LenProperties DEF Underway, Typed, PumpTyped
  <2>3. up[1] = Message(b + 1)
    <3>1. 1 \in 1 .. Len(up)
      BY <1>2
    <3> QED
      BY <2>2, <3>1
  <2>4. CASE b < Len(Current)
    <3>1. up[1] = Current[b + 1] /\ up[1] \in Frame /\ b + 1 \in 1 .. Len(Current)
      <4>1. b + 1 \in 1 .. Len(Current) /\ b + 1 <= Len(Current)
        BY <1>4, <2>2, <2>4
      <4> QED
        BY <1>6, <2>3, <4>1 DEF Message
    <3>2. audio_frame
      BY <1>2, <3>1, Packets DEF Receive, activity_start, activity_end
    <3>3. flushes' = flushes /\ turn' = turn /\ buffer' = Append(buffer, up[1])
      BY <1>2, <2>2, <3>2 DEF audio_frame
    <3>4. /\ Len(buffer') = b + 1 /\ buffer'[b + 1] = up[1]
          /\ \A i \in 1 .. b : buffer'[i] = buffer[i]
      BY <2>1, <2>2, <3>1, <3>3, Appended
    <3>5. \A i \in 1 .. Len(buffer') : buffer'[i] = Current'[i]
      <4> SUFFICES ASSUME NEW i \in 1 .. b + 1
                   PROVE  buffer'[i] = Current[i]
        BY <1>3, <3>4
      <4>1. CASE i = b + 1
        BY <3>1, <3>4, <4>1
      <4>2. CASE i # b + 1
        <5>1. i \in 1 .. b
          BY <2>2, <4>2
        <5> QED
          BY <2>2, <3>4, <5>1
      <4> QED
        BY <4>1, <4>2
    <3>6. ASSUME NEW i \in 1 .. Len(up')
          PROVE  up'[i] = Message(Len(buffer) + i)'
      <4>1. i \in 1 .. Len(up) - 1 /\ i + 1 \in 1 .. Len(up)
        BY <1>2
      <4>2. PICK n : n = b + (i + 1)
        OBVIOUS
      <4>3. up'[i] = Message(n) /\ Len(buffer') + i = n
        <5>1. up'[i] = up[i + 1] /\ up[i + 1] = Message(b + (i + 1))
          BY <1>2, <2>2, <4>1
        <5>2. Len(buffer') + i = n
          BY <2>2, <3>4, <4>1, <4>2
        <5> QED
          BY <4>2, <5>1, <5>2
      <4>4. Message(n)' = Message(n)
        BY <1>3
      <4> QED
        BY <4>3, <4>4 DEF Message
    <3>7. Len(buffer') + Len(up') = Len(Current') + Ends' /\ Len(buffer') <= Len(Current')
      <4>1. Ends \in Nat
        BY DEF Ends
      <4> QED
        BY <1>2, <1>3, <1>4, <2>2, <2>4, <3>4, <4>1
    <3>8. Here' = {} /\ acks' = 0 /\ turn' # 0
      BY <1>1, <2>2, <3>3 DEF Here
    <3>9. Underway'
      BY <3>5, <3>6, <3>7, <3>8 DEF Underway
    <3> QED
      BY <1>7, <3>3, <3>9
  <2>5. CASE ~(b < Len(Current))
    <3>1. b = Len(Current) /\ ~(b + 1 <= Len(Current))
      <4>1. PICK m : m = Len(Current)
        OBVIOUS
      <4>2. m \in Nat /\ b \in Nat /\ b <= m /\ ~(b < m)
        BY <1>4, <2>2, <2>5, <4>1
      <4>3. b = m /\ ~(b + 1 <= m)
        BY ONLY <4>2
      <4> QED
        BY <4>1, <4>3
    <3>2. ~holding /\ Len(up) = 1 /\ up[1] = End
      BY <1>2, <1>4, <2>2, <2>3, <3>1 DEF Ends, Message
    <3>3. activity_end
      BY <1>2, <3>2, Packets DEF Receive, activity_start, audio_frame
    <3>4. buffer = Current
      BY <1>4, <2>1, <2>2, <3>1, SeqEqual
    <3>5. PICK new : new = [turn |-> turn, connection |-> connection, pcm |-> buffer]
      OBVIOUS
    <3>6. /\ flushes' = flushes \cup {new} /\ turn' = 0 /\ new.pcm = Current
          /\ new.connection = connection
      BY <2>2, <3>3, <3>4, <3>5 DEF activity_end
    <3>7. up' = <<>>
      <4>1. Len(up') = 0 /\ up' \in Seq(Packet)
        BY <1>2, <3>2, ReceiveStep
      <4> QED
        BY <4>1, Empty
    <3>8. Here' = {new}
      BY <1>1, <2>2, <3>6 DEF Here
    <3>9. Ended'
      BY <1>1, <1>3, <2>2, <3>6, <3>7, <3>8 DEF Ended
    <3>10. OneTurn' /\ Held' /\ Replaying'
      BY <1>1, <1>5, <3>2, <3>9 DEF OneTurn, Held, Replaying, Idle
    <3>11. Current = <<>> \/ Answer(Current)
      BY <3>2 DEF Tracking, Contents, Current, Store
    <3>12. Contents' /\ Single' /\ Safe'
      BY <1>1, <3>6, <3>11, ContentsStay DEF Tracking, page
    <3> QED
      BY <3>10, <3>12 DEF Tracking
  <2> QED
    BY <2>4, <2>5
<1> QED
  BY <1>5, <1>8, <1>9

(* A flush of this connection is the one of the turn that has ended. *)
LEMMA FlushTracked ==
    ASSUME Typed, Tracking, Flush
    PROVE  Tracking'
<1>1. /\ UNCHANGED <<holding, spoken, currentTurnId, bufferTurnId, frames, replay, link, up,
                     connection, turn, buffer, acked>>
  BY DEF Flush, page, client, pump, history
<1>2. PICK f \in flushes :
        /\ flushes' = flushes \ {f}
        /\ segments' = segments \cup {f.pcm}
        /\ acks' = IF link = "open" /\ f.connection = connection THEN acks + 1 ELSE acks
  BY DEF Flush
<1>3. Current' = Current
  BY <1>1 DEF Current, Store
<1>4. Contents' /\ Single' /\ Safe'
  <2>1. f.pcm = <<>> \/ Answer(f.pcm)
    BY DEF Tracking, Contents
  <2> QED
    BY <1>1, <1>2, <2>1, ContentsStay DEF Tracking, page
<1>5. Here' = Here \ {f}
  BY <1>1, <1>2 DEF Here
<1>6. CASE f \in Here
  <2>1. ~Quiet /\ ~Beginning /\ ~Underway /\ ~Stored
    BY <1>6 DEF Quiet, Beginning, Underway, Stored
  <2>2. Held' /\ Replaying'
    <3>1. ~holding
      BY <1>6 DEF Tracking, Held
    <3> QED
      BY <1>1, <2>1, <3>1 DEF Tracking, Held, Replaying, Idle
  <2>3. OneTurn'
    <3> SUFFICES ASSUME link' = "open"
                 PROVE  Stored' /\ ~holding'
      BY DEF OneTurn
    <3>1. link = "open" /\ Ended /\ ~holding
      BY <1>1, <2>1 DEF Tracking, OneTurn
    <3>2. f.pcm = Current /\ Here = {f} /\ acks = 0 /\ turn = 0 /\ up = <<>>
      BY <1>6, <3>1 DEF Ended
    <3>3. acks' = 1
      BY <1>2, <1>6, <3>1, <3>2 DEF Here
    <3> QED
      BY <1>1, <1>2, <1>3, <1>5, <3>1, <3>2, <3>3 DEF Stored
  <2> QED
    BY <1>4, <2>2, <2>3 DEF Tracking
<1>7. CASE f \notin Here
  <2>1. Here' = Here /\ acks' = acks
    BY <1>2, <1>5, <1>7 DEF Here
  <2>2. /\ Quiet => Quiet'
        /\ Beginning => Beginning'
        /\ Underway => Underway'
    BY <1>1, <2>1, TurnStays
  <2>3. Ended => Ended'
    BY <1>1, <1>2, <1>3, <1>7, <2>1 DEF Ended
  <2>4. Stored => Stored'
    BY <1>1, <1>2, <1>3, <2>1 DEF Stored
  <2>5. OneTurn'
    BY <1>1, <2>2, <2>3, <2>4 DEF Tracking, OneTurn
  <2>6. Held'
    BY <1>1, <1>3, <2>1 DEF Tracking, Held, Idle, Presses, Whole
  <2>7. Replaying'
    BY <1>1, <2>2 DEF Tracking, Replaying, Idle
  <2> QED
    BY <1>4, <2>5, <2>6, <2>7 DEF Tracking
<1> QED
  BY <1>6, <1>7

(* A flush that raises leaves the turn with the browser. *)
LEMMA RaisesTracked ==
    ASSUME Typed, Tracking, FlushRaises
    PROVE  Tracking'
<1>1. /\ UNCHANGED <<holding, spoken, currentTurnId, bufferTurnId, frames, replay, link, up, acks,
                     connection, turn, buffer, segments, acked>>
  BY DEF FlushRaises, page, client, wire, pump, history
<1>2. PICK f \in flushes : flushes' = flushes \ {f}
  BY DEF FlushRaises
<1>3. Current' = Current
  BY <1>1 DEF Current, Store
<1>4. Contents' /\ Single' /\ Safe'
  BY <1>1, <1>2, ContentsStay DEF Tracking, page
<1>5. Here' = Here \ {f}
  BY <1>1, <1>2 DEF Here
<1>6. CASE f \in Here
  <2>1. ~Quiet /\ ~Beginning /\ ~Underway /\ ~Stored
    BY <1>6 DEF Quiet, Beginning, Underway, Stored
  <2>2. Held' /\ Replaying'
    <3>1. ~holding
      BY <1>6 DEF Tracking, Held
    <3> QED
      BY <1>1, <2>1, <3>1 DEF Tracking, Held, Replaying, Idle
  <2>3. OneTurn'
    <3> SUFFICES ASSUME link' = "open"
                 PROVE  Quiet' /\ ~holding'
      BY DEF OneTurn
    <3>1. link = "open" /\ Ended /\ ~holding
      BY <1>1, <2>1 DEF Tracking, OneTurn
    <3>2. Here = {f} /\ acks = 0 /\ turn = 0 /\ up = <<>>
      BY <1>6, <3>1 DEF Ended
    <3> QED
      BY <1>1, <1>5, <3>1, <3>2 DEF Quiet
  <2> QED
    BY <1>4, <2>2, <2>3 DEF Tracking
<1>7. CASE f \notin Here
  <2>1. Here' = Here
    BY <1>5, <1>7
  <2>2. /\ Quiet => Quiet'
        /\ Beginning => Beginning'
        /\ Underway => Underway'
    BY <1>1, <2>1, TurnStays
  <2>3. Ended => Ended'
    BY <1>1, <1>2, <1>3, <1>7, <2>1 DEF Ended
  <2>4. Stored => Stored'
    BY <1>1, <1>3, <2>1 DEF Stored
  <2>5. OneTurn'
    BY <1>1, <2>2, <2>3, <2>4 DEF Tracking, OneTurn
  <2>6. Held'
    BY <1>1, <1>3, <2>1 DEF Tracking, Held, Idle, Presses, Whole
  <2>7. Replaying'
    BY <1>1, <2>2 DEF Tracking, Replaying, Idle
  <2> QED
    BY <1>4, <2>5, <2>6, <2>7 DEF Tracking
<1> QED
  BY <1>6, <1>7

(* As long as everybody is careful, every step keeps track. *)
LEMMA NextTracked == Typed /\ Tracked /\ [Next]_vars => Tracked'
<1> SUFFICES ASSUME Typed, Tracked, [Next]_vars, careful' PROVE Tracking'
  BY DEF Tracked, Tracking
<1>1. Typed'
  BY NextTyped
<1>2. careful
  BY DEF Next, Candidate, System, Press, Speak, Release, Reconnect, takeIncompleteTurn, Replay,
         turn_complete, Receive, Flush, Drop, FlushRaises, vars, history
<1>3. Tracking
  BY <1>2 DEF Tracked, Tracking
<1>4. CASE Candidate
  BY <1>1, <1>3, <1>4, PressTracked, SpeakTracked, ReleaseTracked DEF Candidate
<1>5. CASE System
  BY <1>1, <1>3, <1>5, ReconnectTracked, TakeTracked, ReplayTracked, CompleteTracked,
     ReceiveTracked, FlushTracked DEF System
<1>6. CASE Drop \/ FlushRaises
  BY <1>3, <1>6, DropTracked, RaisesTracked
<1>7. CASE UNCHANGED vars
  <2>1. /\ UNCHANGED <<holding, spoken, currentTurnId, bufferTurnId, frames, replay, link, up>>
        /\ UNCHANGED <<acks, connection, turn, buffer, flushes, segments, acked>>
    BY <1>7 DEF vars, page, client, wire, pump, storage, history
  <2>2. Current' = Current /\ Here' = Here
    BY <2>1 DEF Current, Store, Here
  <2>3. Contents' /\ Single' /\ Safe'
    BY <1>3, <2>1, ContentsStay DEF Tracking, page
  <2>4. /\ Quiet => Quiet'
        /\ Beginning => Beginning'
        /\ Underway => Underway'
    BY <2>1, <2>2, TurnStays
  <2>5. (Ended => Ended') /\ (Stored => Stored')
    BY <2>1, <2>2 DEF Ended, Stored
  <2>6. OneTurn'
    BY <1>3, <2>1, <2>4, <2>5 DEF Tracking, OneTurn
  <2>7. Held'
    BY <1>3, <2>1, <2>2 DEF Tracking, Held, Idle, Presses, Whole
  <2>8. Replaying'
    BY <1>3, <2>1, <2>4 DEF Tracking, Replaying, Idle
  <2> QED
    BY <2>3, <2>6, <2>7, <2>8 DEF Tracking
<1> QED
  BY <1>4, <1>5, <1>6, <1>7 DEF Next

----------------------------------------------------------------------------
(* What a careful candidate is promised *)

(* The places where a careful candidate's answers are. *)
LEMMA TrackedGives ==
    Typed /\ Tracked => Kept /\ AckedIsGone /\ SegmentIsOneAnswer
<1> SUFFICES ASSUME Typed, Tracked, careful
             PROVE  Kept /\ AckedIsGone /\ SegmentIsOneAnswer
  BY DEF Kept, AckedIsGone, SegmentIsOneAnswer
<1>1. Tracking
  BY DEF Tracked, Tracking
<1>2. Kept
  <2> SUFFICES ASSUME NEW p \in 1 .. Presses, spoken[p] > 0
               PROVE  Whole(p) \in segments \cup Range(frames) \cup {replay.took}
    BY DEF Kept
  <2>1. Somewhere(Whole(p))
    BY <1>1 DEF Tracking, Safe
  <2> QED
    BY <2>1 DEF Somewhere, Range
<1>3. AckedIsGone
  <2> SUFFICES ASSUME NEW s \in Range(frames) \cup {replay.took}, NEW f \in Range(s)
               PROVE  f[1] \notin acked
    BY DEF AckedIsGone
  <2>1. PICK k \in DOMAIN s : f = s[k]
    BY DEF Range
  <2>2. s # <<>>
    BY <2>1, Empty
  <2>3. \A p \in acked : s # Whole(p)
    BY <1>1 DEF Tracking, Single, Range
  <2>4. ASSUME NEW p \in 1 .. Presses, s = Whole(p)
        PROVE  f[1] \notin acked
    <3>1. k \in 1 .. spoken[p] /\ f = <<p, k>>
      BY <2>1, <2>4, WholeAnswer DEF Typed
    <3> QED
      BY <2>3, <2>4, <3>1
  <2>5. CASE Answer(s)
    BY <2>4, <2>5 DEF Answer
  <2>6. CASE ~Answer(s)
    <3>1. s # replay.took
      BY <1>1, <2>2, <2>6 DEF Tracking, Contents
    <3>2. PICK id \in DOMAIN frames : s = frames[id]
      BY <3>1 DEF Range
    <3>3. holding /\ id = currentTurnId
      BY <1>1, <2>6, <3>2 DEF Tracking, Contents
    <3>4. s = Whole(Presses) /\ Presses \in 1 .. Presses
      BY <1>1, <3>2, <3>3, LastPress DEF Tracking, Held, Current, Store, Typed
    <3> QED
      BY <2>4, <3>4
  <2> QED
    BY <2>5, <2>6
<1>4. SegmentIsOneAnswer
  BY <1>1 DEF SegmentIsOneAnswer, Tracking, Contents, Answer
<1> QED
  BY <1>2, <1>3, <1>4

(* Both are invariants. *)
LEMMA SocketTracked == Spec => [](Typed /\ Tracked)
<1>1. Init => Typed /\ Tracked
  BY InitTyped, InitTracked
<1>2. Typed /\ Tracked /\ [Next]_vars => (Typed /\ Tracked)'
  BY NextTyped, NextTracked
<1> QED
  BY <1>1, <1>2, PTL DEF Spec

(* For any numbers of answers, frames, lost connections and failed         *)
(* flushes: all that a careful candidate has said is stored whole, or is   *)
(* whole in the browser, to be sent (TurnBuffer, takeIncompleteTurn and    *)
(* replayIncompleteTurn; turn-buffer.ts, "never silently lost").           *)
THEOREM SocketKept == Spec => []Kept
<1>1. Typed /\ Tracked => Kept
  BY TrackedGives
<1> QED
  BY <1>1, SocketTracked, PTL

(* What was acknowledged to a careful candidate is not sent again          *)
(* (completeTurn, takeIncompleteTurn).                                     *)
THEOREM SocketAckedIsGone == Spec => []AckedIsGone
<1>1. Typed /\ Tracked => AckedIsGone
  BY TrackedGives
<1> QED
  BY <1>1, SocketTracked, PTL

(* A segment of a careful candidate is one answer, all of it               *)
(* (pump_client_to_gemini's turn_id and buffer, replayIncompleteTurn).     *)
THEOREM SocketSegmentIsOneAnswer == Spec => []SegmentIsOneAnswer
<1>1. Typed /\ Tracked => SegmentIsOneAnswer
  BY TrackedGives
<1> QED
  BY <1>1, SocketTracked, PTL
=============================================================================
