------------------------- MODULE EventRecorderProofs --------------------------
(***************************************************************************)
(* What holds of the event recorder for every value of the constants: an   *)
(* event file misses no packet although the queue drops some and the ring  *)
(* is trimmed and cleared, and no file spans a camera interruption.  The   *)
(* invariant follows the packets from the encoder to the file: each packet *)
(* says of the one that was accepted before it whether it is its neighbour.*)
(***************************************************************************)
EXTENDS EventRecorder, FiniteSetTheorems, TLAPS

\* b comes later than a, and is a's neighbour unless it says otherwise.
Follows(a, b) == a.pts < b.pts /\ (~b.gap => b.idx = a.idx + 1)

\* The packets that exist, and those among them that may be the last the queue
\* accepted: the next one will follow it.
Made == {a \in Packets : a.idx # 0 /\ a.pts <= last_pts}
Latest == {a \in Packets : a.pts <= last_pts /\ (~gap => a.idx = submitted)}

\* What may be the packet before the first of the queue, or of the encoder.
Awaited == IF queue = <<>> THEN Latest ELSE {a \in Packets : Follows(a, queue[1])}

\* The recorder has taken a packet and not yet decided what becomes of it.
InFlight ==
  /\ packet # NoPacket
  /\ \/ pc \in {"cutoff", "packet", "record"}
     \/ pc = "finish" /\ reason \in {"capture_restart", "encoded_packet_gap"}

\* What may be the packet that the ring or the file ends with.
Ending == IF InFlight THEN {a \in Packets : Follows(a, packet)} ELSE Awaited

\* The packets from after every reset that is known and from before all the others.
Current == {a \in Packets : \A r \in resets : r <= cutoff \/ a.pts < r}
Between == {a \in Current : a.pts >= cutoff}

\* A sequence without losses from a key frame on, which ends with one of last.
Playable(s, last) ==
  /\ s # <<>> /\ s[1].key /\ s[Len(s)] \in last
  /\ \A i \in 2..Len(s) : s[i].idx = s[i - 1].idx + 1

\* The queue holds the encoder's output with every loss marked, up to one of last.
Marked(s, last) ==
  /\ \A i \in 2..Len(s) : Follows(s[i - 1], s[i])
  /\ s # <<>> => s[Len(s)] \in last

\* Where run() is tells what it knows of packet and file.
Located ==
  /\ file.open \/ file = NoFile
  /\ pc = "finish" => file.open /\ reason \in Reasons
  /\ pc \in {"idle", "closed"} => packet = NoPacket
  /\ pc \in {"packet", "record"} => packet # NoPacket
  /\ pc = "finish" /\ reason = "encoded_packet_gap" => packet # NoPacket
  /\ pc = "finish" /\ reason \in {"input_timeout", "shutdown"} => packet = NoPacket
  /\ pc = "record" /\ packet.gap => ring = <<>> /\ ~file.open

\* The clocks, and the packets that were made before now.
Timed ==
  /\ now # 0 /\ last_pts <= now /\ reset_pts <= now /\ cutoff <= reset_pts
  /\ \A r \in resets : r <= reset_pts
  /\ packet # NoPacket => packet \in Made
  /\ queue \in Seq(Made) /\ ring \in Seq(Made) /\ file.packets \in Seq(Made)

\* Packets go from the encoder to the file in their order.  A file about to be
\* closed may lack the last packet, when its time or its space ran out.
Chained ==
  /\ Marked(queue, Latest)
  /\ InFlight => packet \in Awaited
  /\ ring # <<>> => Playable(ring, Ending)
  /\ file.open => Playable(file.packets, IF pc = "finish" THEN Packets ELSE Ending)

Sided ==
  /\ OneSideOfReset
  /\ ~(pc = "finish" /\ reason = "capture_restart") =>
       ring \in Seq(Between) /\ file.packets \in Seq(Between)
  /\ InFlight /\ pc # "cutoff" => packet \in Current
  /\ pc = "record" \/ (pc = "finish" /\ reason = "encoded_packet_gap") => packet \in Between

\* What was handled covers the files that were opened and the resets.
Handled ==
  /\ trigger_until # 0 => trigger_until > TailTime
  /\ served <= handled_until
  /\ cutoff # 0 /\ ~(pc = "finish" /\ reason = "capture_restart")
       => handled_until >= cutoff + TailTime

RecorderIInv ==
  TypeOK /\ Located /\ Timed /\ Chained /\ Sided /\ Handled /\ PreRecorded /\ StatusMatches

-------------------------------------------------------------------------------
(* Sequences and maxima. *)

LEMMA MaxIsGreatest ==
  ASSUME NEW S, IsFiniteSet(S), S \subseteq Int, S # {}
  PROVE  Max(S) \in S /\ \A x \in S : Max(S) >= x
<1> DEFINE Above(i) == {x \in S : x > i}
           T == {Above(i) : i \in S}
<1>1. T \subseteq FiniteSubsetsOf(S) /\ T # {}
  <2>1. \A i \in S : Above(i) \in SUBSET S /\ IsFiniteSet(Above(i))
    BY FS_Subset
  <2> QED
    BY <2>1 DEF FiniteSubsetsOf
<1>2. PICK U \in T : \A V \in T : ~(<<V, U>> \in StrictSubsetOrdering(S))
  <2> HIDE DEF T
  <2> QED
    BY <1>1, WFMin, FS_StrictSubsetOrderingWellFounded
<1>3. PICK i \in S : U = Above(i)
  BY <1>2
<1>4. ASSUME NEW x \in S, x > i PROVE FALSE
  <2>1. Above(x) \in T /\ Above(x) \in SUBSET S /\ U \in SUBSET S
    BY <1>3
  <2>2. Above(x) \subseteq U /\ x \in U /\ x \notin Above(x)
    <3>1. \A y \in S : y > x => y > i
      BY <1>4
    <3>2. Above(x) \subseteq Above(i) /\ x \in Above(i)
      BY <1>4, <3>1
    <3>3. ~(x > x)
      OBVIOUS
    <3> QED
      BY <1>3, <3>2, <3>3
  <2>3. <<Above(x), U>> \in StrictSubsetOrdering(S)
    BY <2>1, <2>2 DEF StrictSubsetOrdering
  <2> QED
    BY <1>2, <2>1, <2>3
<1>5. i \in S /\ \A x \in S : i >= x
  BY <1>3, <1>4
<1> QED
  BY <1>5 DEF Max

\* Sequences over sets of packets.
LEMMA SeqWider ==
  ASSUME NEW S, NEW T, S \subseteq T, NEW s \in Seq(S)
  PROVE  s \in Seq(T)
<1>1. \A i \in 1..Len(s) : s[i] \in T
  OBVIOUS
<1> QED
  BY <1>1

LEMMA SeqBoth ==
  ASSUME NEW S, NEW T, NEW s \in Seq(S), s \in Seq(T)
  PROVE  s \in Seq(S \cap T)
<1>1. \A i \in 1..Len(s) : s[i] \in S \cap T
  OBVIOUS
<1> QED
  BY <1>1

LEMMA EmptySeq == Len(<<>>) = 0 /\ \A S : <<>> \in Seq(S)
OBVIOUS

LEMMA LastItem ==
  ASSUME NEW S, NEW s \in Seq(S), s # <<>>
  PROVE  s[Len(s)] \in S
OBVIOUS

LEMMA Sizes ==
  /\ 0 \in Nat /\ QueueCapacity \in Nat \ {0} /\ TailTime \in Nat \ {0} /\ IdleLimit \in Nat \ {0}
  /\ RingLimit \in Nat /\ 0 <= RingLimit
BY SizeAssumption, TimeAssumption DEF SizeAssumption, TimeAssumption

\* A part of a sequence that reaches to its end.
LEMMA EndOfSequence ==
  ASSUME NEW T, NEW s \in Seq(T), NEW m \in 1..Len(s)
  PROVE  /\ SubSeq(s, m, Len(s)) \in Seq(T)
         /\ Len(SubSeq(s, m, Len(s))) = Len(s) - m + 1
         /\ \A i \in 1..Len(s) - m + 1 : SubSeq(s, m, Len(s))[i] = s[i + m - 1]
OBVIOUS

-------------------------------------------------------------------------------
(* Packets and their sequences. *)

LEMMA PacketFields ==
  ASSUME NEW p \in Packets
  PROVE  p.idx \in Nat /\ p.pts \in Nat /\ p.key \in BOOLEAN /\ p.gap \in BOOLEAN
BY DEF Packets

LEMMA FileFields ==
  ASSUME NEW f \in [open : BOOLEAN, packets : Seq(Packets), good : BOOLEAN]
  PROVE  f.packets \in Seq(Packets) /\ f.open \in BOOLEAN
OBVIOUS

LEMMA NothingYet ==
  /\ NoPacket \in Packets /\ NoPacket.idx = 0
  /\ NoFile \in [open : BOOLEAN, packets : Seq(Packets), good : BOOLEAN]
  /\ ~NoFile.open /\ NoFile.packets = <<>> /\ DOMAIN NoFile.packets = {}
BY DEF NoPacket, NoFile, Packets

\* TypeOK, taken apart.
LEMMA Typed ==
  ASSUME TypeOK
  PROVE  /\ queue \in Seq(Packets) /\ ring \in Seq(Packets) /\ file.packets \in Seq(Packets)
         /\ Len(queue) <= QueueCapacity /\ Len(ring) <= RingLimit
         /\ packet \in Packets /\ packet.idx \in Nat /\ packet.pts \in Nat
         /\ now \in Nat /\ last_pts \in Nat /\ reset_pts \in Nat /\ cutoff \in Nat
         /\ handled_until \in Nat /\ trigger_until \in Nat /\ served \in Nat
         /\ submitted \in Nat /\ triggers \in Nat /\ since \in Nat
         /\ resets \subseteq Nat /\ caller \in [Callers -> Nat] /\ idle \in 0..IdleLimit
<1>1. /\ queue \in Seq(Packets) /\ ring \in Seq(Packets) /\ packet \in Packets
      /\ file \in [open : BOOLEAN, packets : Seq(Packets), good : BOOLEAN]
  BY Zenon DEF TypeOK
<1>2. file.packets \in Seq(Packets) /\ packet.idx \in Nat /\ packet.pts \in Nat
  BY <1>1, FileFields, PacketFields
<1> QED
  BY <1>1, <1>2, Zenon DEF TypeOK

LEMMA PlayableWider ==
  ASSUME NEW s, NEW S, NEW T, S \subseteq T, Playable(s, S)
  PROVE  Playable(s, T)
BY DEF Playable

\* Adding the next packet.
LEMMA PlayableGoesOn ==
  ASSUME NEW s \in Seq(Packets), NEW p \in Packets, ~p.gap,
         Playable(s, {a \in Packets : Follows(a, p)})
  PROVE  Playable(Append(s, p), {p})
<1>1. /\ Append(s, p) # <<>> /\ Len(Append(s, p)) = Len(s) + 1 /\ Append(s, p)[Len(s) + 1] = p
      /\ \A i \in 1..Len(s) : Append(s, p)[i] = s[i]
  OBVIOUS
<1>2. Len(s) \in Nat /\ 1 \in 1..Len(s)
  BY DEF Playable
<1>3. s[1].key /\ Follows(s[Len(s)], p) /\ \A i \in 2..Len(s) : s[i].idx = s[i - 1].idx + 1
  BY DEF Playable
<1>4. ASSUME NEW i \in 2..Len(s) + 1
      PROVE  Append(s, p)[i].idx = Append(s, p)[i - 1].idx + 1
  <2>1. CASE i = Len(s) + 1
    BY <1>1, <1>2, <1>3, <2>1 DEF Follows
  <2>2. CASE i # Len(s) + 1
    <3>1. i \in 2..Len(s) /\ i \in 1..Len(s) /\ i - 1 \in 1..Len(s)
      BY <1>2, <2>2
    <3> QED
      BY <1>1, <1>3, <3>1
  <2> QED
    BY <2>1, <2>2
<1> QED
  BY <1>1, <1>2, <1>3, <1>4 DEF Playable

\* Leaving out the packets before a key frame.
LEMMA PlayableFromKey ==
  ASSUME NEW s \in Seq(Packets), NEW S, Playable(s, S), NEW m \in 2..Len(s), s[m].key
  PROVE  Playable(SubSeq(s, m, Len(s)), S) /\ SubSeq(s, m, Len(s))[1] = s[m]
<1> DEFINE t == SubSeq(s, m, Len(s))
<1>1. /\ t \in Seq(Packets) /\ Len(t) = Len(s) - m + 1
      /\ \A i \in 1..Len(s) - m + 1 : t[i] = s[i + m - 1]
  BY EndOfSequence
<1>2. Len(s) \in Nat /\ s[Len(s)] \in S /\ \A i \in 2..Len(s) : s[i].idx = s[i - 1].idx + 1
  BY DEF Playable
<1> HIDE DEF t
<1>3. t # <<>> /\ t[1] = s[m] /\ t[Len(t)] = s[Len(s)]
  <2>1. Len(t) \in 1..Len(s) - m + 1 /\ Len(t) + m - 1 = Len(s) /\ 1 + m - 1 = m
    BY <1>1, <1>2
  <2>2. 1 \in 1..Len(s) - m + 1 /\ t # <<>>
    BY <1>1, <2>1
  <2> QED
    BY <1>1, <2>1, <2>2
<1>4. ASSUME NEW i \in 2..Len(t) PROVE t[i].idx = t[i - 1].idx + 1
  <2>1. /\ i + m - 1 \in 2..Len(s) /\ (i - 1) + m - 1 = (i + m - 1) - 1
        /\ i \in 1..Len(s) - m + 1 /\ i - 1 \in 1..Len(s) - m + 1
    <3>1. i \in 2..Len(s) - m + 1 /\ m \in 2..Len(s) /\ Len(s) \in Nat
      BY <1>1, <1>2
    <3> QED
      BY <3>1
  <2>2. t[i] = s[i + m - 1] /\ t[i - 1] = s[(i - 1) + m - 1]
    BY <1>1, <2>1
  <2> QED
    BY <1>2, <2>1, <2>2
<1>5. Playable(t, S)
  BY <1>2, <1>3, <1>4 DEF Playable
<1> QED
  BY <1>3, <1>5 DEF t

\* No key frame but the first is old enough.
Trim(s) == \A i \in 2..Len(s) : s[i].key => packet.pts <= s[i].pts + PreTime

\* Trimming cuts at the last key frame that is old enough.
LEMMA TrimmedEnds ==
  ASSUME NEW s \in Seq(Packets), packet \in Packets
  PROVE  /\ Trim(Trimmed(s))
         /\ \/ Trimmed(s) = s
            \/ \E m \in 2..Len(s) : /\ Trimmed(s) = SubSeq(s, m, Len(s))
                                    /\ s[m].key /\ s[m].pts + PreTime < packet.pts
<1> DEFINE old == {i \in 2..Len(s) : s[i].key /\ s[i].pts + PreTime < packet.pts}
<1>0. ASSUME NEW i \in 2..Len(s), i \notin old, s[i].key
      PROVE  packet.pts <= s[i].pts + PreTime
  <2>1. s[i] \in Packets
    OBVIOUS
  <2>2. s[i].pts \in Nat /\ packet.pts \in Nat /\ PreTime \in Nat
    BY <2>1, PacketFields, TimeAssumption DEF TimeAssumption
  <2>3. ~(s[i].pts + PreTime < packet.pts)
    BY <1>0
  <2> QED
    BY <2>2, <2>3
<1>1. CASE old = {}
  <2>1. Trimmed(s) = s
    BY <1>1 DEF Trimmed
  <2> QED
    BY <1>0, <1>1, <2>1 DEF Trim
<1>2. CASE old # {}
  <2>1. IsFiniteSet(old) /\ old \subseteq Int
    BY FS_Interval, FS_Subset
  <2>2. Max(old) \in old /\ \A i \in old : i <= Max(old)
    <3> HIDE DEF old
    <3> QED
      BY <1>2, <2>1, MaxIsGreatest
  <2>3. Trimmed(s) = SubSeq(s, Max(old), Len(s))
    BY <1>2 DEF Trimmed
  <2>4. PICK m \in 2..Len(s) : m = Max(old)
    BY <2>2
  <2>5. Trim(SubSeq(s, m, Len(s)))
    <3>1. Len(s) \in Nat /\ Len(SubSeq(s, m, Len(s))) = Len(s) - m + 1
      OBVIOUS
    <3>2. ASSUME NEW i \in 2..(Len(s) - m + 1), SubSeq(s, m, Len(s))[i].key
          PROVE  packet.pts <= SubSeq(s, m, Len(s))[i].pts + PreTime
      <4>1. SubSeq(s, m, Len(s))[i] = s[i + m - 1]
        BY <3>1
      <4>2. i + m - 1 \in 2..Len(s) /\ ~(i + m - 1 <= m)
        BY <3>1
      <4>3. i + m - 1 \notin old
        BY <2>2, <2>4, <4>2
      <4> HIDE DEF old
      <4> QED
        BY <1>0, <3>2, <4>1, <4>2, <4>3
    <3> QED
      BY <3>1, <3>2 DEF Trim
  <2> QED
    BY <2>2, <2>3, <2>4, <2>5
<1> QED
  BY <1>1, <1>2

\* The ring after a packet is empty, or it can be played up to that packet, and starts
\* where it did, at the packet, or early enough.
LEMMA NewRingEnds ==
  ASSUME TypeOK,
         ring # <<>> => ~packet.gap /\ Playable(ring, {a \in Packets : Follows(a, packet)})
  PROVE  /\ Len(NewRing) <= RingLimit
         /\ \A S \in SUBSET Packets : ring \in Seq(S) /\ packet \in S => NewRing \in Seq(S)
         /\ Trim(NewRing)
         /\ NewRing # <<>> =>
              /\ Playable(NewRing, {packet})
              /\ \/ NewRing[1] = IF ring = <<>> THEN packet ELSE ring[1]
                 \/ NewRing[1].pts + PreTime < packet.pts
<1> DEFINE s == Append(ring, packet)
<1>1. RingLimit \in Nat /\ ring \in Seq(Packets) /\ packet \in Packets
  BY Sizes, Typed
<1>2. ASSUME NewRing = <<>>
      PROVE  Len(NewRing) <= RingLimit /\ Trim(NewRing) /\ \A S : NewRing \in Seq(S)
  <2>1. Len(<<>>) = 0 /\ \A S : <<>> \in Seq(S)
    OBVIOUS
  <2>2. Trim(<<>>)
    BY <2>1 DEF Trim
  <2> QED
    BY <1>1, <1>2, <2>1, <2>2
<1>3. CASE ~(packet.key \/ ring # <<>>) \/ Len(Trimmed(s)) > RingLimit
  <2>1. NewRing = <<>>
    <3>1. CASE ~(packet.key \/ ring # <<>>)
      BY <1>1, <3>1 DEF NewRing
    <3>2. CASE (packet.key \/ ring # <<>>) /\ Len(Trimmed(s)) > RingLimit
      BY <3>2 DEF NewRing
    <3> QED
      BY <1>3, <3>1, <3>2
  <2> QED
    BY <1>2, <2>1
<1>4. CASE (packet.key \/ ring # <<>>) /\ ~(Len(Trimmed(s)) > RingLimit)
  <2>1. NewRing = Trimmed(s)
    BY <1>4 DEF NewRing
  <2>2. s \in Seq(Packets) /\ Playable(s, {packet})
    <3>1. CASE ring = <<>>
      BY <1>1, <1>4, <3>1 DEF Playable
    <3>2. CASE ring # <<>>
      BY <1>1, <3>2, PlayableGoesOn
    <3> QED
      BY <3>1, <3>2
  <2>3. s[1] = IF ring = <<>> THEN packet ELSE ring[1]
    <3>1. CASE ring = <<>>
      BY <1>1, <3>1
    <3>2. CASE ring # <<>>
      BY <1>1, <3>2
    <3> QED
      BY <3>1, <3>2
  <2>4. \A S \in SUBSET Packets : ring \in Seq(S) /\ packet \in S => s \in Seq(S)
    OBVIOUS
  <2> HIDE DEF s
  <2>0. Trim(NewRing)
    BY <1>1, <2>1, <2>2, TrimmedEnds
  <2>5. CASE Trimmed(s) = s
    <3>1. Len(s) \in Nat
      BY <2>2
    <3>2. Len(NewRing) <= RingLimit
      BY <1>1, <1>4, <2>1, <2>5, <3>1
    <3> QED
      BY <2>0, <2>1, <2>2, <2>3, <2>4, <2>5, <3>2, Zenon DEF s
  <2>6. CASE Trimmed(s) # s
    <3>1. PICK m \in 2..Len(s) : /\ Trimmed(s) = SubSeq(s, m, Len(s))
                                 /\ s[m].key /\ s[m].pts + PreTime < packet.pts
      BY <1>1, <2>2, <2>6, TrimmedEnds
    <3>2. m \in 1..Len(s)
      OBVIOUS
    <3>3. Playable(NewRing, {packet}) /\ NewRing[1].pts + PreTime < packet.pts
      BY <2>1, <2>2, <3>1, PlayableFromKey
    <3>4. Len(NewRing) <= RingLimit
      <4>1. Len(NewRing) \in Nat
        BY <2>1, <2>2, <3>1, <3>2, EndOfSequence
      <4> QED
        BY <1>1, <1>4, <2>1, <4>1
    <3>5. ASSUME NEW S \in SUBSET Packets, ring \in Seq(S), packet \in S
          PROVE  NewRing \in Seq(S)
      BY <2>1, <2>4, <3>1, <3>2, <3>5, EndOfSequence
    <3> QED
      BY <2>0, <3>3, <3>4, <3>5
  <2> QED
    BY <2>5, <2>6
<1> QED
  BY <1>3, <1>4

-------------------------------------------------------------------------------
(* The other threads keep the invariant. *)

LEMMA RecorderInitially == Init => RecorderIInv
<1> SUFFICES ASSUME Init PROVE RecorderIInv
  OBVIOUS
<1>1. /\ queue = <<>> /\ ring = <<>> /\ resets = {} /\ packet = NoPacket /\ file = NoFile
      /\ pc = "pop" /\ current = "idle" /\ caller = [c \in Callers |-> 0]
      /\ now = 1 /\ last_pts = 0 /\ reset_pts = 0 /\ cutoff = 0 /\ idle = 0
      /\ trigger_until = 0 /\ served = 0 /\ handled_until = 0
  BY Zenon DEF Init
<1>2. Len(<<>>) = 0 /\ \A S : <<>> \in Seq(S)
  OBVIOUS
<1>3. TypeOK
  <2>1. idle \in 0..IdleLimit /\ Len(queue) <= QueueCapacity /\ Len(ring) <= RingLimit
    BY <1>1, <1>2, Sizes
  <2>2. queue \in Seq(Packets) /\ ring \in Seq(Packets) /\ caller \in [Callers -> Nat]
    BY <1>1
  <2>3. 0 \in Nat /\ 1 \in Nat
    OBVIOUS
  <2> QED
    BY <2>1, <2>2, <2>3, NothingYet, Zenon DEF Init, TypeOK
<1>4. Located
  BY <1>1 DEF Located
<1>5. Timed
  BY <1>1, <1>2, NothingYet DEF Timed
<1>6. Handled
  BY <1>1 DEF Handled
<1>7. Chained
  BY <1>1, <1>2, NothingYet DEF Chained, InFlight, Marked
<1>8. Sided
  BY <1>1, <1>2, NothingYet DEF Sided, OneSideOfReset, InFlight
<1>9. PreRecorded /\ StatusMatches
  BY <1>1, NothingYet DEF PreRecorded, StatusMatches
<1> QED
  BY <1>3, <1>4, <1>5, <1>6, <1>7, <1>8, <1>9 DEF RecorderIInv

LEMMA OthersKeep ==
  ASSUME RecorderIInv,
         \/ Tick \/ Reset \/ Stop
         \/ \E c \in Callers : \/ \E pts \in {now - 1, now} \ {0} : TriggerCheck(c, pts)
                               \/ TriggerRaise(c)
  PROVE  RecorderIInv'
<1>1. /\ pc' = pc /\ packet' = packet /\ reason' = reason /\ ring' = ring /\ file' = file
      /\ handled_until' = handled_until /\ cutoff' = cutoff /\ idle' = idle
      /\ current' = current /\ served' = served /\ since' = since
      /\ queue' = queue /\ gap' = gap /\ last_pts' = last_pts /\ submitted' = submitted
  BY DEF Tick, Reset, Stop, TriggerCheck, TriggerRaise, ThreadFrame, recording, sharedvars, world
<1>2. TypeOK /\ Timed /\ Chained /\ Located /\ PreRecorded /\ StatusMatches /\ Sided /\ Handled
  BY DEF RecorderIInv
<1>3. /\ now \in Nat /\ now # 0 /\ reset_pts \in Nat /\ reset_pts <= now /\ cutoff <= reset_pts
      /\ cutoff \in Nat /\ last_pts \in Nat /\ last_pts <= now
      /\ resets \subseteq Nat /\ \A r \in resets : r <= reset_pts
  BY <1>2, Typed DEF Timed
<1>4. /\ trigger_until \in Nat /\ caller \in [Callers -> Nat] /\ triggers \in Nat
      /\ trigger_until # 0 => trigger_until > TailTime
  BY <1>2, Typed DEF Handled
<1> DEFINE Onward ==
             /\ now' \in Nat /\ now' >= now /\ reset_pts' \in Nat /\ reset_pts' >= reset_pts
             /\ reset_pts' <= now' /\ resets' \subseteq Nat
             /\ \A r \in resets' : r <= reset_pts' /\ (r \in resets \/ r > now)
             /\ trigger_until' \in Nat /\ triggers' \in Nat
             /\ caller' \in [Callers -> Nat]
             /\ trigger_until' # 0 => trigger_until' > TailTime
<1>5. Onward
  <2>1. CASE Tick
    BY <1>3, <1>4, <2>1 DEF Tick, sharedvars
  <2>2. CASE Reset
    BY <1>3, <1>4, <2>2 DEF Reset
  <2>3. CASE Stop
    BY <1>3, <1>4, <2>3 DEF Stop, world
  <2>4. ASSUME NEW c \in Callers, NEW pts \in {now - 1, now} \ {0}, TriggerCheck(c, pts)
        PROVE  Onward
    <3>1. pts \in Nat
      BY <1>3
    <3>2. caller' \in [Callers -> Nat]
      BY <1>4, <2>4, <3>1 DEF TriggerCheck
    <3>3. triggers' \in Nat
      BY <1>4, <2>4 DEF TriggerCheck
    <3>4. UNCHANGED <<now, reset_pts, resets, trigger_until>>
      BY <2>4 DEF TriggerCheck, sharedvars
    <3> QED
      BY <1>3, <1>4, <3>2, <3>3, <3>4
  <2>5. ASSUME NEW c \in Callers, TriggerRaise(c)
        PROVE  Onward
    <3>1. caller' \in [Callers -> Nat]
      BY <1>4, <2>5 DEF TriggerRaise
    <3>2. caller[c] \in Nat /\ caller[c] # 0 /\ TailTime \in Nat
      BY <1>4, <2>5, Sizes DEF TriggerRaise
    <3>3. trigger_until' \in Nat /\ trigger_until' > TailTime
      BY <1>4, <2>5, <3>2 DEF TriggerRaise, MaxOf
    <3>4. now' = now /\ reset_pts' = reset_pts /\ resets' = resets /\ triggers' = triggers
      BY <2>5 DEF TriggerRaise
    <3> QED
      BY <1>3, <1>4, <3>1, <3>3, <3>4
  <2> QED
    BY <2>1, <2>2, <2>3, <2>4, <2>5
<1>6. TypeOK'
  <2>1. closed' \in BOOLEAN
    BY <1>2, Zenon DEF TypeOK, Tick, Reset, Stop, TriggerCheck, TriggerRaise, sharedvars
  <2> QED
    BY <1>1, <1>2, <1>5, <2>1 DEF TypeOK
<1>7. Located'
  BY <1>1, <1>2 DEF Located
<1>8. PreRecorded'
  BY <1>1, <1>2 DEF PreRecorded
<1>9. StatusMatches'
  BY <1>1, <1>2, Zenon DEF StatusMatches
<1>10. Handled'
  BY <1>1, <1>2, <1>5 DEF Handled
<1>11. Made' = Made /\ Latest' = Latest /\ (InFlight' <=> InFlight)
  BY <1>1 DEF Made, Latest, InFlight
<1>12. Awaited' = Awaited /\ Ending' = Ending
  BY <1>1, <1>11 DEF Awaited, Ending
<1>13. Timed'
  <2>1. /\ now' # 0 /\ last_pts <= now' /\ reset_pts' <= now' /\ cutoff <= reset_pts'
        /\ \A r \in resets' : r <= reset_pts'
    BY <1>3, <1>5
  <2> QED
    BY <1>1, <1>2, <1>11, <2>1 DEF Timed
<1>14. Chained'
  BY <1>1, <1>2, <1>11, <1>12 DEF Chained
<1>15. Sided'
  <2>1. \A p \in Made : p.pts \in Nat /\ \A r \in resets' : r \in resets \/ p.pts < r
    BY <1>3, <1>5, PacketFields DEF Made
  <2>2. Current \cap Made \subseteq Current' /\ Between \cap Made \subseteq Between'
    BY <1>1, <2>1 DEF Current, Between
  <2>3. OneSideOfReset'
    <3>1. \A i \in DOMAIN file.packets : file.packets[i] \in Made
      BY <1>2 DEF Timed
    <3>2. ASSUME NEW r \in resets'
          PROVE  \/ \A i \in DOMAIN file.packets : file.packets[i].pts < r
                 \/ \A i \in DOMAIN file.packets : file.packets[i].pts >= r
      BY <1>2, <2>1, <3>1 DEF Sided, OneSideOfReset
    <3> QED
      BY <1>1, <3>2 DEF OneSideOfReset
  <2>4. \A s : s \in Seq(Between) /\ s \in Seq(Made) => s \in Seq(Between')
    BY <2>2, SeqBoth, SeqWider
  <2>5. InFlight /\ pc # "cutoff" => packet \in Current'
    BY <1>2, <2>2 DEF Sided, Timed, InFlight
  <2>6. pc = "record" \/ (pc = "finish" /\ reason = "encoded_packet_gap") => packet \in Between'
    BY <1>2, <2>2 DEF Sided, Timed, Located
  <2> QED
    BY <1>1, <1>2, <1>11, <2>3, <2>4, <2>5, <2>6 DEF Sided, Timed
<1> QED
  BY <1>6, <1>7, <1>8, <1>9, <1>10, <1>13, <1>14, <1>15 DEF RecorderIInv

\* A packet that is accepted follows whatever waited for it; one that is dropped is marked.
LEMMA SubmitKeeps ==
  ASSUME RecorderIInv, NEW pts \in last_pts + 1 .. now, NEW key \in BOOLEAN, Submit(pts, key),
         NEW p, p = [idx |-> submitted + 1, pts |-> pts, key |-> key, gap |-> gap]
  PROVE  RecorderIInv'
<1>1. /\ pc' = pc /\ packet' = packet /\ reason' = reason /\ ring' = ring /\ file' = file
      /\ handled_until' = handled_until /\ cutoff' = cutoff /\ idle' = idle
      /\ current' = current /\ served' = served /\ since' = since /\ closed' = closed
      /\ trigger_until' = trigger_until /\ reset_pts' = reset_pts /\ caller' = caller
      /\ now' = now /\ triggers' = triggers /\ resets' = resets
      /\ submitted' = submitted + 1 /\ last_pts' = pts
  BY DEF Submit, ThreadFrame, recording
<1>2. TypeOK /\ Timed /\ Chained /\ Located /\ PreRecorded /\ StatusMatches /\ Sided /\ Handled
  BY DEF RecorderIInv
<1>3. /\ queue \in Seq(Packets) /\ Len(queue) <= QueueCapacity /\ submitted \in Nat
      /\ last_pts \in Nat /\ now \in Nat /\ pts \in Nat /\ pts > last_pts /\ pts <= now
  BY <1>2, Typed
<1>4. p \in Packets /\ p.idx = submitted + 1 /\ p.pts = pts /\ (p.gap <=> gap)
  <2>1. gap \in BOOLEAN
    BY <1>2, Zenon DEF TypeOK
  <2> QED
    BY <1>3, <2>1 DEF Packets
<1>5. \/ queue' = Append(queue, p) /\ gap' = FALSE /\ Len(queue) # QueueCapacity
      \/ queue' = queue /\ gap' = TRUE
  BY Zenon DEF Submit, Accepts
<1>6. queue' \in Seq(Packets) /\ Len(queue') <= QueueCapacity
  <2>1. CASE queue' = queue
    BY <1>3, <2>1
  <2>2. CASE queue' = Append(queue, p) /\ Len(queue) # QueueCapacity
    BY <1>3, <1>4, <2>2, Sizes
  <2> QED
    BY <1>5, <2>1, <2>2
<1>7. TypeOK'
  <2>1. last_pts' \in Nat /\ submitted' \in Nat
    BY <1>1, <1>3
  <2>2. gap' \in BOOLEAN
    BY <1>5, Zenon
  <2> QED
    BY <1>1, <1>2, <1>6, <2>1, <2>2, Zenon DEF TypeOK
<1>8. Located'
  BY <1>1, <1>2 DEF Located
<1>9. PreRecorded'
  BY <1>1, <1>2 DEF PreRecorded
<1>10. StatusMatches'
  BY <1>1, <1>2, Zenon DEF StatusMatches
<1>11. Sided'
  BY <1>1, <1>2 DEF Sided, OneSideOfReset, Between, Current, InFlight
<1>12. Handled'
  BY <1>1, <1>2 DEF Handled
<1>13. Made \subseteq Made' /\ p \in Made'
  BY <1>1, <1>3, <1>4, PacketFields DEF Made
<1>14. Timed'
  <2>1. /\ packet # NoPacket => packet \in Made'
        /\ queue \in Seq(Made') /\ ring \in Seq(Made') /\ file.packets \in Seq(Made')
    BY <1>2, <1>13, SeqWider DEF Timed
  <2>2. queue' \in Seq(Made')
    BY <1>5, <1>13, <2>1
  <2> QED
    BY <1>1, <1>2, <1>3, <2>1, <2>2 DEF Timed
<1>15. Awaited \subseteq Awaited'
  <2>1. CASE queue' = queue /\ gap' = TRUE
    <3>1. Latest \subseteq Latest'
      BY <1>1, <1>3, <2>1, PacketFields DEF Latest
    <3> QED
      BY <2>1, <3>1 DEF Awaited
  <2>2. CASE queue' = Append(queue, p) /\ queue # <<>>
    <3>1. queue' # <<>> /\ queue'[1] = queue[1]
      BY <1>3, <1>4, <2>2
    <3> QED
      BY <2>2, <3>1 DEF Awaited
  <2>3. CASE queue' = Append(queue, p) /\ queue = <<>>
    <3>1. queue' # <<>> /\ queue'[1] = p
      BY <1>4, <2>3
    <3>2. \A a \in Latest : Follows(a, p)
      BY <1>3, <1>4, PacketFields DEF Latest, Follows
    <3> QED
      BY <2>3, <3>1, <3>2 DEF Awaited, Latest
  <2> QED
    BY <1>5, <2>1, <2>2, <2>3
<1>16. (InFlight' <=> InFlight) /\ Ending \subseteq Ending'
  <2>1. InFlight' <=> InFlight
    BY <1>1 DEF InFlight
  <2> QED
    BY <1>1, <1>15, <2>1 DEF Ending
<1>17. Marked(queue', Latest')
  <2>1. CASE queue' = queue /\ gap' = TRUE
    <3>1. Latest \subseteq Latest'
      BY <1>1, <1>3, <2>1, PacketFields DEF Latest
    <3> QED
      BY <1>2, <2>1, <3>1 DEF Chained, Marked
  <2>2. CASE queue' = Append(queue, p) /\ gap' = FALSE
    <3>1. /\ Len(queue') = Len(queue) + 1 /\ queue'[Len(queue) + 1] = p
          /\ \A i \in 1..Len(queue) : queue'[i] = queue[i]
      BY <1>3, <1>4, <2>2
    <3>2. p \in Latest'
      BY <1>1, <1>3, <1>4 DEF Latest
    <3>3. ASSUME NEW i \in 2..Len(queue') PROVE Follows(queue'[i - 1], queue'[i])
      <4>1. CASE i = Len(queue) + 1
        <5>1. i - 1 = Len(queue) /\ Len(queue) \in 1..Len(queue) /\ queue # <<>>
          BY <1>3, <3>1, <4>1
        <5>2. queue'[i] = p /\ queue'[i - 1] = queue[Len(queue)]
          BY <3>1, <4>1, <5>1
        <5>3. queue[Len(queue)] \in Latest
          BY <1>2, <5>1 DEF Chained, Marked
        <5> QED
          BY <1>3, <1>4, <5>2, <5>3, PacketFields DEF Latest, Follows
      <4>2. CASE i # Len(queue) + 1
        <5>1. i \in 2..Len(queue) /\ i - 1 \in 1..Len(queue) /\ i \in 1..Len(queue)
          BY <1>3, <3>1, <4>2
        <5> QED
          BY <1>2, <3>1, <5>1 DEF Chained, Marked
      <4> QED
        BY <4>1, <4>2
    <3> QED
      BY <1>3, <3>1, <3>2, <3>3 DEF Marked
  <2> QED
    BY <1>5, <2>1, <2>2
<1>18. Chained'
  <2>1. InFlight' => packet' \in Awaited'
    BY <1>1, <1>2, <1>15, <1>16 DEF Chained
  <2>2. ring' # <<>> => Playable(ring', Ending')
    BY <1>1, <1>2, <1>16, PlayableWider DEF Chained
  <2>3. file'.open => Playable(file'.packets, IF pc' = "finish" THEN Packets ELSE Ending')
    BY <1>1, <1>2, <1>16, PlayableWider DEF Chained
  <2> QED
    BY <1>17, <2>1, <2>2, <2>3 DEF Chained
<1> QED
  BY <1>7, <1>8, <1>9, <1>10, <1>11, <1>12, <1>14, <1>18 DEF RecorderIInv

-------------------------------------------------------------------------------
(* The recorder thread keeps the invariant. *)

\* What a step other than Pop and Record leaves of the packets.
LEMMA KeptParts ==
  ASSUME RecorderIInv, RunLocal, InFlight' <=> InFlight,
         (ring' = ring /\ since' = since) \/ ring' = <<>>,
         (file' = file /\ pc # "finish") \/ file' = NoFile,
         cutoff' \in Nat, cutoff' <= reset_pts
  PROVE  Timed' /\ Chained' /\ PreRecorded'
<1>1. TypeOK /\ Timed /\ Chained /\ PreRecorded
  BY DEF RecorderIInv
<1>2. /\ queue' = queue /\ packet' = packet /\ gap' = gap /\ reset_pts' = reset_pts
      /\ now' = now /\ last_pts' = last_pts /\ submitted' = submitted /\ resets' = resets
  BY DEF RunLocal, RunFrame, world
<1>3. Made' = Made /\ Latest' = Latest
  BY <1>2 DEF Made, Latest
<1>4. Awaited' = Awaited /\ Ending' = Ending /\ Ending \subseteq Packets
  <2>1. Awaited' = Awaited
    BY <1>2, <1>3 DEF Awaited
  <2>2. Ending' = Ending
    BY <1>2, <2>1 DEF Ending
  <2>3. Ending \subseteq Packets
    BY DEF Ending, Awaited, Latest
  <2> QED
    BY <2>1, <2>2, <2>3
<1>5. Timed'
  BY <1>1, <1>2, <1>3, NothingYet DEF Timed
<1>6. Chained'
  <2>1. file'.open => Playable(file'.packets, IF pc' = "finish" THEN Packets ELSE Ending')
    BY <1>1, <1>4, NothingYet, PlayableWider DEF Chained
  <2>2. Marked(queue', Latest') /\ (InFlight' => packet' \in Awaited')
    BY <1>1, <1>2, <1>3, <1>4 DEF Chained
  <2>3. ring' # <<>> => Playable(ring', Ending')
    BY <1>1, <1>4 DEF Chained
  <2> QED
    BY <2>1, <2>2, <2>3 DEF Chained
<1>7. PreRecorded'
  BY <1>1 DEF PreRecorded
<1> QED
  BY <1>5, <1>6, <1>7

\* Types after such a step.
LEMMA KeptTypes ==
  ASSUME RecorderIInv, RunLocal,
         (ring' = ring /\ since' = since) \/ (ring' = <<>> /\ since' = 0),
         file' = file \/ file' = NoFile,
         cutoff' \in Nat, handled_until' \in Nat, idle' \in 0..IdleLimit, served' = served,
         pc' \in {"pop", "cutoff", "idle", "closed", "packet", "record", "finish", "exit"},
         reason' \in Reasons \cup {""},
         current' \in {"idle", "recording", "completed", "incomplete", "error"}
  PROVE  TypeOK'
<1>1. TypeOK
  BY DEF RecorderIInv
<1>2. /\ queue' = queue /\ packet' = packet /\ gap' = gap /\ reset_pts' = reset_pts
      /\ closed' = closed /\ trigger_until' = trigger_until /\ caller' = caller
      /\ now' = now /\ last_pts' = last_pts /\ submitted' = submitted /\ resets' = resets
      /\ triggers' = triggers
  BY DEF RunLocal, RunFrame, world
<1>3. ring' \in Seq(Packets) /\ Len(ring') <= RingLimit /\ since' \in Nat
  <2>1. CASE ring' = ring /\ since' = since
    <3>1. ring \in Seq(Packets) /\ Len(ring) <= RingLimit /\ since \in Nat
      BY <1>1, Typed
    <3> QED
      BY <2>1, <3>1
  <2>2. CASE ring' = <<>> /\ since' = 0
    BY <2>2, EmptySeq, Sizes, Zenon
  <2> QED
    BY <2>1, <2>2
<1>4. file' \in [open : BOOLEAN, packets : Seq(Packets), good : BOOLEAN]
  BY <1>1, NothingYet, Zenon DEF TypeOK
<1> QED
  BY <1>1, <1>2, <1>3, <1>4, Zenon DEF TypeOK

LEMMA FinishKeeps ==
  ASSUME RecorderIInv, Finish
  PROVE  RecorderIInv'
<1>1. TypeOK /\ Located /\ Sided /\ Handled
  BY DEF RecorderIInv
<1>2. /\ pc = "finish" /\ file.open /\ reason \in Reasons /\ file' = NoFile
      /\ cutoff' = cutoff /\ idle' = idle /\ served' = served /\ reason' = "" /\ RunLocal
      /\ packet' = packet /\ trigger_until' = trigger_until /\ resets' = resets
      /\ reset_pts' = reset_pts
  BY <1>1 DEF Finish, Located, RunLocal, RunFrame, world
<1>3. current' \in {"completed", "incomplete", "error"}
  BY DEF Finish
<1>4. /\ cutoff \in Nat /\ cutoff <= reset_pts /\ handled_until \in Nat /\ trigger_until \in Nat
      /\ served \in Nat /\ served <= handled_until /\ TailTime \in Nat
  BY <1>1, Typed, Sizes DEF RecorderIInv, Timed, Handled
<1>5. /\ pc' = Resume(reason)
      /\ handled_until' = IF reason = "capture_restart"
                            THEN MaxOf(MaxOf(handled_until, trigger_until), cutoff + TailTime)
                            ELSE MaxOf(handled_until, trigger_until)
      /\ IF reason \in ClearingReasons THEN ring' = <<>> /\ since' = 0
                                       ELSE ring' = ring /\ since' = since
  BY DEF Finish, Continue
<1>6. /\ handled_until' \in Nat /\ handled_until' >= handled_until
      /\ reason = "capture_restart" => handled_until' >= cutoff + TailTime
  BY <1>4, <1>5 DEF MaxOf
<1>7. reason \in {"capture_restart", "encoded_packet_gap"} => ring' = <<>>
  BY <1>5 DEF ClearingReasons, Reasons
<1>8. /\ pc' \in {"pop", "idle", "closed", "packet", "record", "exit"}
      /\ pc' = "packet" => packet # NoPacket /\ reason = "capture_restart"
      /\ pc' = "record" => packet # NoPacket /\ reason = "encoded_packet_gap"
      /\ pc' \in {"idle", "closed"} => packet = NoPacket
      /\ reason = "capture_restart" /\ packet # NoPacket => pc' = "packet"
      /\ reason = "encoded_packet_gap" => pc' = "record"
  BY <1>1, <1>2, <1>5 DEF Resume, Located, Reasons
<1>9. InFlight' <=> InFlight
  BY <1>2, <1>8 DEF InFlight
<1>10. Timed' /\ Chained' /\ PreRecorded'
  BY <1>2, <1>4, <1>5, <1>9, KeptParts
<1>11. TypeOK'
  BY <1>1, <1>2, <1>3, <1>4, <1>5, <1>6, <1>8, KeptTypes, Typed
<1>12. Located'
  BY <1>2, <1>7, <1>8, NothingYet DEF Located
<1>13. Sided'
  <2>1. Current' = Current /\ Between' = Between
    BY <1>2 DEF Current, Between
  <2>2. OneSideOfReset'
    <3>1. DOMAIN file'.packets = {}
      BY <1>2, NothingYet
    <3> QED
      BY <3>1 DEF OneSideOfReset
  <2>3. ring' \in Seq(Between) /\ file'.packets \in Seq(Between)
    <3>1. <<>> \in Seq(Between) /\ file'.packets = <<>>
      BY <1>2, NothingYet, EmptySeq
    <3>2. CASE reason = "capture_restart"
      BY <1>7, <3>1, <3>2
    <3>3. CASE reason # "capture_restart"
      <4>1. ring \in Seq(Between)
        BY <1>1, <3>3 DEF Sided
      <4> QED
        BY <1>5, <3>1, <4>1
    <3> QED
      BY <3>2, <3>3
  <2>4. InFlight' => packet \in Current
    BY <1>1, <1>2, <1>9 DEF Sided
  <2>5. pc' = "record" => packet \in Between
    BY <1>1, <1>2, <1>8 DEF Sided
  <2> QED
    BY <1>2, <1>8, <2>1, <2>2, <2>3, <2>4, <2>5 DEF Sided
<1>14. Handled'
  <2>1. served' <= handled_until' /\ (trigger_until' # 0 => trigger_until' > TailTime)
    <3>1. served' <= handled_until'
      <4>1. served' = served
        BY <1>2, Zenon
      <4> QED
        BY <1>4, <1>6, <4>1
    <3>2. trigger_until # 0 => trigger_until > TailTime
      BY <1>1 DEF Handled
    <3> QED
      BY <1>2, <3>1, <3>2
  <2>2. ASSUME cutoff # 0 PROVE handled_until' >= cutoff + TailTime
    <3>1. CASE reason = "capture_restart"
      BY <1>6, <3>1
    <3>2. CASE reason # "capture_restart"
      <4>1. handled_until >= cutoff + TailTime
        BY <1>1, <2>2, <3>2 DEF Handled
      <4> QED
        BY <1>4, <1>6, <4>1
    <3> QED
      BY <3>1, <3>2
  <2> QED
    BY <1>2, <2>1, <2>2 DEF Handled
<1>15. StatusMatches'
  BY <1>2, <1>3, NothingYet DEF StatusMatches
<1> QED
  BY <1>10, <1>11, <1>12, <1>13, <1>14, <1>15 DEF RecorderIInv

LEMMA CutoffKeeps ==
  ASSUME RecorderIInv, Cutoff
  PROVE  RecorderIInv'
<1>1. TypeOK /\ Located /\ Timed /\ Sided /\ Handled /\ StatusMatches
  BY DEF RecorderIInv
<1>2. /\ pc = "cutoff" /\ file' = file /\ idle' = idle /\ served' = served /\ RunLocal
      /\ current' = current /\ packet' = packet /\ trigger_until' = trigger_until
      /\ resets' = resets /\ reset_pts' = reset_pts
  BY DEF Cutoff, RunLocal, RunFrame, world
<1>3. /\ cutoff \in Nat /\ reset_pts \in Nat /\ cutoff <= reset_pts /\ handled_until \in Nat
      /\ trigger_until \in Nat /\ served \in Nat /\ served <= handled_until /\ TailTime \in Nat
  BY <1>1, Typed, Sizes DEF Timed, Handled
<1>4. cutoff' = reset_pts
  BY <1>3 DEF Cutoff, MaxOf
<1>5. \/ /\ reset_pts > cutoff /\ file.open
         /\ pc' = "finish" /\ reason' = "capture_restart"
         /\ ring' = ring /\ since' = since /\ handled_until' = handled_until
      \/ /\ reset_pts > cutoff /\ ~file.open
         /\ pc' = Resume("capture_restart") /\ reason' = reason
         /\ ring' = <<>> /\ since' = 0 /\ handled_until' = MaxOf(handled_until, cutoff' + TailTime)
      \/ /\ reset_pts = cutoff
         /\ pc' = Resume("capture_restart") /\ reason' = reason
         /\ ring' = ring /\ since' = since /\ handled_until' = handled_until
  BY <1>3 DEF Cutoff, Interrupt, Continue, ClearingReasons, Reasons
<1>6. Resume("capture_restart") = IF packet = NoPacket THEN "idle" ELSE "packet"
  BY DEF Resume
<1>7. InFlight' <=> InFlight
  BY <1>2, <1>5, <1>6 DEF InFlight
<1>8. Timed' /\ Chained' /\ PreRecorded'
  BY <1>2, <1>3, <1>4, <1>5, <1>7, KeptParts
<1>9. handled_until' \in Nat /\ handled_until' >= handled_until
  BY <1>3, <1>4, <1>5 DEF MaxOf
<1>10. TypeOK'
  <2>1. reason \in Reasons \cup {""} /\ idle \in 0..IdleLimit /\ "capture_restart" \in Reasons
        /\ current \in {"idle", "recording", "completed", "incomplete", "error"}
    BY <1>1 DEF TypeOK, Reasons
  <2> QED
    BY <1>2, <1>3, <1>4, <1>5, <1>6, <1>9, <2>1, KeptTypes
<1>11. Located'
  BY <1>1, <1>2, <1>5, <1>6 DEF Located, Reasons
<1>12. Sided'
  <2>1. Current' = Packets
    BY <1>1, <1>2, <1>3, <1>4, Typed DEF Current, Timed
  <2>2. OneSideOfReset'
    BY <1>1, <1>2 DEF Sided, OneSideOfReset
  <2>3. packet \in Packets
    BY <1>1, Typed
  <2>4. ~(pc' = "finish" /\ reason' = "capture_restart") =>
          ring' \in Seq(Between') /\ file'.packets \in Seq(Between')
    <3>1. CASE reset_pts > cutoff
      BY <1>1, <1>2, <1>3, <1>5, <3>1, NothingYet DEF Located
    <3>2. CASE reset_pts = cutoff
      <4>1. Between' = Between
        BY <1>2, <1>4, <3>2 DEF Between, Current
      <4> QED
        BY <1>1, <1>2, <1>3, <1>5, <3>2, <4>1 DEF Sided
    <3> QED
      BY <1>3, <3>1, <3>2
  <2> QED
    BY <1>2, <1>5, <1>6, <2>1, <2>2, <2>3, <2>4 DEF Sided
<1>13. Handled'
  <2>1. cutoff' # 0 /\ ~(pc' = "finish" /\ reason' = "capture_restart")
          => handled_until' >= cutoff' + TailTime
    <3>1. CASE reset_pts > cutoff
      BY <1>3, <1>4, <1>5, <3>1 DEF MaxOf
    <3>2. CASE reset_pts = cutoff
      BY <1>1, <1>2, <1>3, <1>4, <1>5, <3>2 DEF Handled
    <3> QED
      BY <1>3, <3>1, <3>2
  <2> QED
    BY <1>1, <1>2, <1>3, <1>9, <2>1 DEF Handled
<1>14. StatusMatches'
  BY <1>1, <1>2, Zenon DEF StatusMatches
<1> QED
  BY <1>8, <1>10, <1>11, <1>12, <1>13, <1>14 DEF RecorderIInv

\* Idle, Closed and Packet leave the cutoff alone and stop the event for a reason of
\* their own.
LEMMA QuietKeeps ==
  ASSUME RecorderIInv, RunLocal, InFlight' <=> InFlight,
         pc \in {"idle", "closed", "packet"}, cutoff' = cutoff, file' = file, served' = served,
         current' = current, handled_until' = handled_until, idle' \in 0..IdleLimit,
         (ring' = ring /\ since' = since) \/ (ring' = <<>> /\ since' = 0),
         \/ pc' \in {"pop", "closed", "packet", "record", "exit"} /\ reason' = reason
         \/ /\ pc' = "finish" /\ file.open
            /\ reason' \in {"input_timeout", "shutdown", "encoded_packet_gap"},
         Located',
         pc' = "record" \/ (pc' = "finish" /\ reason' = "encoded_packet_gap")
           => pc = "packet" /\ packet.pts >= cutoff
  PROVE  RecorderIInv'
<1>1. TypeOK /\ Timed /\ Sided /\ Handled /\ StatusMatches
  BY DEF RecorderIInv
<1>2. /\ packet' = packet /\ trigger_until' = trigger_until /\ resets' = resets
  BY DEF RunLocal, RunFrame, world
<1>3. cutoff \in Nat /\ cutoff <= reset_pts /\ handled_until \in Nat
  BY <1>1, Typed DEF Timed
<1>4. Timed' /\ Chained' /\ PreRecorded'
  BY <1>3, KeptParts
<1>5. TypeOK'
  <2>1. reason' \in Reasons \cup {""}
    BY <1>1 DEF TypeOK, Reasons
  <2>2. current' \in {"idle", "recording", "completed", "incomplete", "error"}
    BY <1>1 DEF TypeOK
  <2> QED
    BY <1>3, <2>1, <2>2, KeptTypes
<1>6. Sided'
  <2>1. Current' = Current /\ Between' = Between
    BY <1>2 DEF Current, Between
  <2>2. OneSideOfReset'
    BY <1>1, <1>2 DEF Sided, OneSideOfReset
  <2>3. ring' \in Seq(Between) /\ file'.packets \in Seq(Between)
    BY <1>1, EmptySeq DEF Sided
  <2>4. InFlight' => packet \in Current
    BY <1>1 DEF Sided, InFlight
  <2>5. pc = "packet" /\ packet.pts >= cutoff => packet \in Between \/ packet = NoPacket
    BY <1>1 DEF Sided, InFlight, Between
  <2>6. pc' = "record" \/ (pc' = "finish" /\ reason' = "encoded_packet_gap") => packet \in Between
    BY <1>2, <2>5 DEF Located
  <2> QED
    BY <1>2, <2>1, <2>2, <2>3, <2>4, <2>6 DEF Sided
<1>7. Handled'
  BY <1>1, <1>2 DEF Handled
<1>8. StatusMatches'
  BY <1>1, Zenon DEF StatusMatches
<1> QED
  BY <1>4, <1>5, <1>6, <1>7, <1>8 DEF RecorderIInv

LEMMA IdleKeeps ==
  ASSUME RecorderIInv, Idle
  PROVE  RecorderIInv'
<1>1. TypeOK /\ Located
  BY DEF RecorderIInv
<1>2. /\ pc = "idle" /\ RunLocal /\ file' = file /\ cutoff' = cutoff /\ current' = current
      /\ served' = served /\ packet' = packet /\ packet = NoPacket
  BY <1>1 DEF Idle, RunLocal, Located
<1>3. idle' \in 0..IdleLimit
  <2>1. idle' = IF idle < IdleLimit THEN idle + 1 ELSE idle
    BY DEF Idle
  <2>2. idle \in 0..IdleLimit /\ IdleLimit \in Nat
    BY <1>1, Typed, Sizes
  <2> QED
    BY <2>1, <2>2
<1>4. \/ /\ pc' = "finish" /\ reason' = "input_timeout" /\ file.open
         /\ ring' = ring /\ since' = since /\ handled_until' = handled_until
      \/ /\ pc' = "closed" /\ reason' = reason /\ handled_until' = handled_until
         /\ (ring' = ring /\ since' = since) \/ (ring' = <<>> /\ since' = 0)
  <2>1. CASE idle' = IdleLimit /\ file.open
    BY <2>1 DEF Idle, Interrupt
  <2>2. CASE idle' = IdleLimit /\ ~file.open
    BY <2>2 DEF Idle, Interrupt, Continue, Resume
  <2>3. CASE idle' # IdleLimit
    BY <2>3 DEF Idle
  <2> QED
    BY <2>1, <2>2, <2>3
<1>5. InFlight' <=> InFlight
  BY <1>2, <1>4 DEF InFlight
<1>6. Located'
  BY <1>1, <1>2, <1>4 DEF Located, Reasons
<1> QED
  BY <1>2, <1>3, <1>4, <1>5, <1>6, QuietKeeps

LEMMA ClosedKeeps ==
  ASSUME RecorderIInv, Closed
  PROVE  RecorderIInv'
<1>1. TypeOK /\ Located
  BY DEF RecorderIInv
<1>2. /\ pc = "closed" /\ RunLocal /\ file' = file /\ cutoff' = cutoff /\ current' = current
      /\ served' = served /\ packet' = packet /\ packet = NoPacket /\ idle' = idle
  BY <1>1 DEF Closed, RunLocal, Located
<1>3. idle' \in 0..IdleLimit
  BY <1>1, <1>2, Typed
<1>4. \/ /\ pc' = "finish" /\ reason' = "shutdown" /\ file.open
         /\ ring' = ring /\ since' = since /\ handled_until' = handled_until
      \/ /\ pc' \in {"exit", "pop"} /\ reason' = reason /\ handled_until' = handled_until
         /\ ring' = ring /\ since' = since
  BY DEF Closed, Interrupt, Continue, Resume, ClearingReasons
<1>5. InFlight' <=> InFlight
  BY <1>2, <1>4 DEF InFlight
<1>6. Located'
  BY <1>1, <1>2, <1>4 DEF Located, Reasons
<1> QED
  BY <1>2, <1>3, <1>4, <1>5, <1>6, QuietKeeps

\* A packet that is skipped leaves no gap behind: the ring and the file hold only packets
\* of after the cutoff, which come after it.
LEMMA PacketKeeps ==
  ASSUME RecorderIInv, Packet
  PROVE  RecorderIInv'
<1>1. TypeOK /\ Located /\ Timed /\ Chained /\ Sided /\ Handled /\ PreRecorded /\ StatusMatches
  BY DEF RecorderIInv
<1>2. /\ pc = "packet" /\ RunLocal /\ file' = file /\ cutoff' = cutoff /\ current' = current
      /\ served' = served /\ packet' = packet /\ packet # NoPacket
      /\ queue' = queue /\ last_pts' = last_pts /\ gap' = gap /\ submitted' = submitted
      /\ trigger_until' = trigger_until /\ resets' = resets /\ reset_pts' = reset_pts
      /\ now' = now
  BY <1>1 DEF Packet, RunLocal, RunFrame, world, Located
<1>3. packet \in Packets /\ packet.pts \in Nat /\ cutoff \in Nat /\ idle \in 0..IdleLimit
      /\ cutoff <= reset_pts /\ handled_until \in Nat
  BY <1>1, Typed DEF Timed
<1>4. CASE packet.pts < cutoff
  <2>1. /\ pc' = "pop" /\ reason' = reason /\ ring' = ring /\ since' = since
        /\ handled_until' = handled_until /\ idle' = idle
    BY <1>4 DEF Packet
  <2>2. InFlight /\ ~InFlight'
    BY <1>2, <2>1 DEF InFlight
  <2>3. ring = <<>> /\ ~file.open
    <3>1. \A p \in Between \cap Ending : FALSE
      BY <1>3, <1>4, <2>2, PacketFields DEF Between, Current, Ending, Follows
    <3>2. \A s \in Seq(Between) : Playable(s, Ending) => s[Len(s)] \in Between \cap Ending
      BY LastItem DEF Playable
    <3>3. ring \in Seq(Between) /\ file.packets \in Seq(Between)
      BY <1>1, <1>2 DEF Sided
    <3> QED
      BY <1>1, <1>2, <3>1, <3>2, <3>3 DEF Chained
  <2>4. Made' = Made /\ Latest' = Latest /\ Current' = Current /\ Between' = Between
    BY <1>2 DEF Made, Latest, Current, Between
  <2>5. TypeOK'
    <3>1. reason' \in Reasons \cup {""}
      BY <1>1, <2>1 DEF TypeOK
    <3>2. current' \in {"idle", "recording", "completed", "incomplete", "error"}
      BY <1>1, <1>2 DEF TypeOK
    <3> QED
      BY <1>2, <1>3, <2>1, <3>1, <3>2, KeptTypes
  <2>6. Located'
    BY <1>1, <1>2, <2>1 DEF Located
  <2>7. Timed'
    BY <1>1, <1>2, <2>1, <2>4 DEF Timed
  <2>8. Chained'
    BY <1>1, <1>2, <2>1, <2>2, <2>3, <2>4 DEF Chained
  <2>9. Sided'
    BY <1>1, <1>2, <2>1, <2>2, <2>4 DEF Sided, OneSideOfReset
  <2>10. Handled'
    BY <1>1, <1>2, <2>1 DEF Handled
  <2>11. PreRecorded'
    BY <2>1, <2>3 DEF PreRecorded
  <2>12. StatusMatches'
    BY <1>1, <1>2, Zenon DEF StatusMatches
  <2> QED
    BY <2>5, <2>6, <2>7, <2>8, <2>9, <2>10, <2>11, <2>12 DEF RecorderIInv
<1>5. CASE ~(packet.pts < cutoff)
  <2>1. idle' \in 0..IdleLimit
    BY <1>3, <1>5, Sizes DEF Packet
  <2>2. \/ /\ pc' = "finish" /\ reason' = "encoded_packet_gap" /\ file.open
           /\ ring' = ring /\ since' = since /\ handled_until' = handled_until
        \/ /\ pc' = "record" /\ reason' = reason /\ handled_until' = handled_until
           /\ ~file.open /\ ring' = <<>> /\ since' = 0
        \/ /\ pc' = "record" /\ reason' = reason /\ handled_until' = handled_until
           /\ ~packet.gap /\ ring' = ring /\ since' = since
    BY <1>5 DEF Packet, Interrupt, Continue, Resume, ClearingReasons, Reasons
  <2>3. InFlight' <=> InFlight
    BY <1>2, <2>2 DEF InFlight
  <2>4. Located'
    BY <1>1, <1>2, <2>2 DEF Located, Reasons
  <2>5. packet.pts >= cutoff
    BY <1>3, <1>5
  <2> QED
    BY <1>2, <2>1, <2>2, <2>3, <2>4, <2>5, QuietKeeps
<1> QED
  BY <1>4, <1>5

LEMMA PopKeeps ==
  ASSUME RecorderIInv, Pop
  PROVE  RecorderIInv'
<1>1. TypeOK /\ Located /\ Timed /\ Chained /\ Sided /\ Handled /\ PreRecorded /\ StatusMatches
  BY DEF RecorderIInv
<1>2. /\ pc = "pop" /\ pc' = "cutoff" /\ reason' = reason /\ ring' = ring /\ file' = file
      /\ handled_until' = handled_until /\ cutoff' = cutoff /\ idle' = idle
      /\ current' = current /\ served' = served /\ since' = since
      /\ closed' = closed /\ gap' = gap /\ trigger_until' = trigger_until
      /\ reset_pts' = reset_pts /\ caller' = caller /\ now' = now /\ last_pts' = last_pts
      /\ submitted' = submitted /\ triggers' = triggers /\ resets' = resets
  BY DEF Pop, RunFrame, recording, world
<1>3. queue \in Seq(Packets) /\ Len(queue) <= QueueCapacity /\ queue \in Seq(Made)
  BY <1>1, Typed DEF Timed
<1>4. ~InFlight /\ Ending = Awaited
  BY <1>2 DEF InFlight, Ending
<1>5. Made' = Made /\ Latest' = Latest /\ Current' = Current /\ Between' = Between
  BY <1>2 DEF Made, Latest, Current, Between
<1>6. /\ packet' \in Packets /\ (packet' # NoPacket => packet' \in Made)
      /\ queue' \in Seq(Packets) /\ queue' \in Seq(Made) /\ Len(queue') <= QueueCapacity
      /\ Marked(queue', Latest) /\ (InFlight' => packet' \in Awaited')
      /\ Ending' = Ending
  <2>1. CASE queue = <<>>
    <3>1. packet' = NoPacket /\ queue' = queue
      BY <2>1 DEF Pop
    <3>2. ~InFlight'
      BY <3>1 DEF InFlight
    <3>3. Awaited' = Awaited
      BY <1>5, <3>1 DEF Awaited
    <3> QED
      BY <1>1, <1>3, <1>4, <3>1, <3>2, <3>3, NothingYet DEF Ending, Chained
  <2>2. CASE queue # <<>>
    <3>1. packet' = queue[1] /\ queue' = Tail(queue) /\ packet' \in Made /\ packet' \in Packets
      BY <1>3, <2>2 DEF Pop, Made
    <3>2. /\ Len(queue') = Len(queue) - 1 /\ queue' \in Seq(Packets) /\ queue' \in Seq(Made)
          /\ Len(queue) \in Nat /\ Len(queue) >= 1
          /\ \A i \in 1..Len(queue) - 1 : queue'[i] = queue[i + 1]
      BY <1>3, <2>2, <3>1
    <3>3. packet' # NoPacket
      BY <3>1, NothingYet DEF Made
    <3>4. InFlight'
      BY <1>2, <3>3 DEF InFlight
    <3>5. Ending' = Ending
      BY <1>4, <2>2, <3>1, <3>4 DEF Ending, Awaited
    <3>6. (\A i \in 2..Len(queue) : Follows(queue[i - 1], queue[i])) /\ queue[Len(queue)] \in Latest
      BY <1>1, <2>2 DEF Chained, Marked
    <3>7. ASSUME NEW i \in 2..Len(queue') PROVE Follows(queue'[i - 1], queue'[i])
      <4>1. /\ i + 1 \in 2..Len(queue) /\ (i + 1) - 1 = (i - 1) + 1
            /\ i \in 1..Len(queue) - 1 /\ i - 1 \in 1..Len(queue) - 1
        <5>1. i \in 2..Len(queue) - 1 /\ Len(queue) \in Nat
          BY <3>2
        <5> QED
          BY <5>1
      <4>2. queue'[i] = queue[i + 1] /\ queue'[i - 1] = queue[(i - 1) + 1]
        BY <3>2, <4>1
      <4> QED
        BY <3>6, <4>1, <4>2
    <3>8. queue' # <<>> => queue'[Len(queue')] \in Latest
      <4>1. ASSUME queue' # <<>> PROVE queue'[Len(queue')] = queue[Len(queue)]
        <5>1. Len(queue') # 0
          BY <3>2, <4>1
        <5>2. Len(queue') \in 1..Len(queue) - 1 /\ Len(queue') + 1 = Len(queue)
          BY <3>2, <5>1
        <5> QED
          BY <3>2, <5>2
      <4> QED
        BY <3>6, <4>1
    <3>9. packet' \in Awaited'
      <4>1. CASE queue' = <<>>
        <5>1. Len(queue) = 1
          BY <3>2, <4>1, EmptySeq
        <5> QED
          BY <1>5, <3>1, <3>6, <4>1, <5>1 DEF Awaited
      <4>2. CASE queue' # <<>>
        <5>1. Len(queue') # 0
          BY <3>2, <4>2
        <5>2. 2 \in 2..Len(queue) /\ 2 - 1 = 1 /\ 1 \in 1..Len(queue) - 1 /\ 1 + 1 = 2
          BY <3>2, <5>1
        <5>3. Follows(queue[1], queue[2]) /\ queue'[1] = queue[2]
          BY <3>2, <3>6, <5>2
        <5> QED
          BY <3>1, <4>2, <5>3 DEF Awaited
      <4> QED
        BY <4>1, <4>2
    <3>10. Len(queue') <= QueueCapacity
      BY <1>3, <3>2, Sizes
    <3> QED
      BY <3>1, <3>2, <3>5, <3>7, <3>8, <3>9, <3>10 DEF Marked
  <2> QED
    BY <2>1, <2>2
<1>7. TypeOK'
  BY <1>1, <1>2, <1>6 DEF TypeOK
<1>8. Located'
  BY <1>1, <1>2 DEF Located
<1>9. Timed'
  BY <1>1, <1>2, <1>5, <1>6 DEF Timed
<1>10. Chained'
  <2>1. ring' # <<>> => Playable(ring', Ending')
    BY <1>1, <1>2, <1>6 DEF Chained
  <2>2. file'.open => Playable(file'.packets, IF pc' = "finish" THEN Packets ELSE Ending')
    BY <1>1, <1>2, <1>6 DEF Chained
  <2> QED
    BY <1>5, <1>6, <2>1, <2>2 DEF Chained
<1>11. Sided'
  BY <1>1, <1>2, <1>5 DEF Sided, OneSideOfReset
<1>12. Handled'
  BY <1>1, <1>2 DEF Handled
<1>13. PreRecorded'
  BY <1>1, <1>2 DEF PreRecorded
<1>14. StatusMatches'
  BY <1>1, <1>2, Zenon DEF StatusMatches
<1> QED
  BY <1>7, <1>8, <1>9, <1>10, <1>11, <1>12, <1>13, <1>14 DEF RecorderIInv

\* Goto() finishes for a reason and goes on without one.
LEMMA GotoEnds ==
  ASSUME NEW why, Goto(why)
  PROVE  /\ pc' \in {"pop", "finish"} /\ reason' = why
         /\ pc' = "finish" => why # ""
<1>1. CASE why = ""
  BY <1>1 DEF Goto
<1>2. CASE why # ""
  BY <1>2 DEF Goto
<1> QED
  BY <1>1, <1>2

LEMMA WrittenFile ==
  ASSUME NEW packets, NEW good, file' = [open |-> TRUE, packets |-> packets, good |-> good]
  PROVE  file'.open /\ file'.packets = packets
OBVIOUS

\* A file that was opened holds the ring; a first write that failed finishes it.
LEMMA OpenEnds ==
  ASSUME Open
  PROVE  /\ file'.open /\ file'.packets = NewRing
         /\ pc' \in {"pop", "finish"} /\ reason' \in {"", "write_error"}
         /\ pc' = "finish" => reason' # ""
<1> PICK good \in BOOLEAN :
      /\ file' = [open |-> TRUE, packets |-> NewRing, good |-> good]
      /\ Goto(IF good THEN "" ELSE "write_error")
  BY Zenon DEF Open
<1> DEFINE why == IF good THEN "" ELSE "write_error"
<1>1. why \in {"", "write_error"}
  BY Zenon
<1>2. Goto(why)
  BY Zenon
<1>3. file'.open /\ file'.packets = NewRing
  BY WrittenFile, Zenon
<1> HIDE DEF why
<1> QED
  BY <1>1, <1>2, <1>3, GotoEnds, Zenon

\* A file that was written holds the packet; an error or the end of the tail finishes it.
LEMMA WriteEnds ==
  ASSUME Write
  PROVE  /\ file'.open /\ file'.packets = Append(file.packets, packet)
         /\ pc' \in {"pop", "finish"} /\ reason' \in {"", "write_error", "tail_complete"}
         /\ pc' = "finish" => reason' # ""
<1> PICK good \in BOOLEAN :
      /\ file' = [open |-> TRUE, packets |-> Append(file.packets, packet), good |-> good]
      /\ Goto(IF ~good THEN "write_error"
              ELSE IF packet.pts >= trigger_until THEN "tail_complete" ELSE "")
  BY Zenon DEF Write
<1> DEFINE why == IF ~good THEN "write_error"
                  ELSE IF packet.pts >= trigger_until THEN "tail_complete" ELSE ""
<1>1. why \in {"", "write_error", "tail_complete"}
  BY Zenon
<1>2. Goto(why)
  BY Zenon
<1>3. file'.open /\ file'.packets = Append(file.packets, packet)
  BY WrittenFile, Zenon
<1> HIDE DEF why
<1> QED
  BY <1>1, <1>2, <1>3, GotoEnds, Zenon

\* The packet enters the ring and, if an event is under way or wanted, its file.
LEMMA RecordKeeps ==
  ASSUME RecorderIInv, Record
  PROVE  RecorderIInv'
<1>1. TypeOK /\ Located /\ Timed /\ Chained /\ Sided /\ Handled /\ PreRecorded /\ StatusMatches
  BY DEF RecorderIInv
<1>2. /\ pc = "record" /\ ring' = NewRing /\ cutoff' = cutoff /\ idle' = idle
      /\ since' = IF NewRing = <<>> THEN 0 ELSE IF ring = <<>> THEN packet.idx ELSE since
      /\ OpenFails \/ Open \/ Limit \/ Write \/ Skip
      /\ packet' = packet /\ queue' = queue
      /\ closed' = closed /\ gap' = gap /\ trigger_until' = trigger_until
      /\ reset_pts' = reset_pts /\ caller' = caller /\ now' = now /\ last_pts' = last_pts
      /\ submitted' = submitted /\ triggers' = triggers /\ resets' = resets
  BY DEF Record, RunLocal, RunFrame, world
<1>3. InFlight
  BY <1>1, <1>2 DEF InFlight, Located
<1>4. /\ packet \in Packets /\ packet \in Made /\ packet \in Between /\ packet \in Awaited
      /\ Ending = {a \in Packets : Follows(a, packet)}
  BY <1>1, <1>2, <1>3, Typed DEF Located, Timed, Sided, Chained, Ending
<1>5. /\ ring # <<>> => ~packet.gap /\ Playable(ring, {a \in Packets : Follows(a, packet)})
      /\ file.open => ~packet.gap /\ Playable(file.packets, {a \in Packets : Follows(a, packet)})
  BY <1>1, <1>2, <1>4 DEF Located, Chained
<1>6. /\ Len(NewRing) <= RingLimit
      /\ Trim(NewRing)
      /\ \A S \in SUBSET Packets : ring \in Seq(S) /\ packet \in S => NewRing \in Seq(S)
      /\ NewRing # <<>> =>
           /\ Playable(NewRing, {packet})
           /\ \/ NewRing[1] = IF ring = <<>> THEN packet ELSE ring[1]
              \/ NewRing[1].pts + PreTime < packet.pts
  BY <1>1, <1>5, NewRingEnds
<1>7. ring \in Seq(Packets) /\ ring \in Seq(Made) /\ ring \in Seq(Between)
      /\ file.packets \in Seq(Packets) /\ file.packets \in Seq(Made) /\ file.packets \in Seq(Between)
  BY <1>1, <1>2, Typed DEF Timed, Sided
<1>8. NewRing \in Seq(Packets) /\ NewRing \in Seq(Made) /\ NewRing \in Seq(Between)
  <2>1. Made \in SUBSET Packets /\ Between \in SUBSET Packets
    BY DEF Made, Between, Current
  <2> QED
    BY <1>4, <1>6, <1>7, <2>1
<1>9. /\ pc' \in {"pop", "finish"}
      /\ reason' \in {"", "write_error", "tail_complete", "max_duration", "storage_budget",
                      "storage_error"}
      /\ pc' = "finish" => file'.open /\ reason' # ""
  <2>1. CASE OpenFails
    BY <2>1 DEF OpenFails, Goto
  <2>2. CASE Open
    BY <2>2, OpenEnds, Zenon
  <2>3. CASE Limit
    BY <2>3 DEF Limit, Goto
  <2>4. CASE Write
    BY <2>4, WriteEnds, Zenon
  <2>5. CASE Skip
    BY <2>5 DEF Skip, Goto
  <2> QED
    BY <1>2, <2>1, <2>2, <2>3, <2>4, <2>5
<1>10. ~InFlight' /\ Made' = Made /\ Latest' = Latest /\ Between' = Between /\ Current' = Current
  BY <1>2, <1>9 DEF InFlight, Made, Latest, Between, Current
<1>11. Awaited' = Awaited /\ Ending' = Awaited /\ Awaited \subseteq Packets
  <2>1. Awaited' = Awaited
    BY <1>2, <1>10 DEF Awaited
  <2>2. Ending' = Awaited'
    BY <1>10 DEF Ending
  <2> QED
    BY <2>1, <2>2 DEF Awaited, Latest
<1>12. \/ /\ file' = file /\ ~file.open /\ served' = served
          /\ \/ current' = "error" /\ Wanted /\ handled_until' = trigger_until
             \/ current' = current /\ handled_until' = handled_until
       \/ /\ ~file.open /\ file'.open /\ file'.packets = NewRing /\ Wanted
          /\ current' = "recording" /\ handled_until' = trigger_until /\ served' = trigger_until
       \/ /\ file.open /\ file' = file /\ pc' = "finish" /\ current' = current
          /\ handled_until' = handled_until /\ served' = served
       \/ /\ file.open /\ file'.open /\ file'.packets = Append(file.packets, packet)
          /\ current' = current /\ handled_until' = handled_until /\ served' = served
  <2>1. CASE OpenFails
    BY <2>1 DEF OpenFails
  <2>2. CASE Open
    BY <2>2, OpenEnds, Zenon DEF Open
  <2>3. CASE Limit
    BY <2>3 DEF Limit, Goto
  <2>4. CASE Write
    BY <2>4, WriteEnds, Zenon DEF Write
  <2>5. CASE Skip
    BY <2>5 DEF Skip
  <2> QED
    BY <1>2, <2>1, <2>2, <2>3, <2>4, <2>5
<1>13. /\ file'.packets \in Seq(Packets) /\ file'.packets \in Seq(Made)
       /\ file'.packets \in Seq(Between)
  <2>1. file' = file \/ file'.packets = NewRing \/ file'.packets = Append(file.packets, packet)
    BY <1>12, Zenon
  <2>2. /\ Append(file.packets, packet) \in Seq(Packets)
        /\ Append(file.packets, packet) \in Seq(Made)
        /\ Append(file.packets, packet) \in Seq(Between)
    BY <1>4, <1>7
  <2> QED
    BY <1>7, <1>8, <2>1, <2>2, Zenon
<1>14. TypeOK'
  <2>1. file' \in [open : BOOLEAN, packets : Seq(Packets), good : BOOLEAN]
    <3>1. \/ file' = file
          \/ \E good \in BOOLEAN : file' = [open |-> TRUE, packets |-> NewRing, good |-> good]
          \/ \E good \in BOOLEAN :
               file' = [open |-> TRUE, packets |-> Append(file.packets, packet), good |-> good]
      BY <1>2, Zenon DEF OpenFails, Open, Limit, Write, Skip
    <3>2. Append(file.packets, packet) \in Seq(Packets)
      BY <1>4, <1>7
    <3>3. file \in [open : BOOLEAN, packets : Seq(Packets), good : BOOLEAN]
      BY <1>1, Zenon DEF TypeOK
    <3>4. \A good \in BOOLEAN, s \in Seq(Packets) :
            [open |-> TRUE, packets |-> s, good |-> good]
              \in [open : BOOLEAN, packets : Seq(Packets), good : BOOLEAN]
      OBVIOUS
    <3> QED
      BY <1>8, <3>1, <3>2, <3>3, <3>4, Zenon
  <2>2. handled_until' \in Nat /\ served' \in Nat
    BY <1>1, <1>12, Typed
  <2>3. current' \in {"idle", "recording", "completed", "incomplete", "error"}
    BY <1>1, <1>12 DEF TypeOK
  <2>4. since' \in Nat
    BY <1>1, <1>2, Typed
  <2>5. ring' \in Seq(Packets) /\ Len(ring') <= RingLimit
    BY <1>2, <1>6, <1>8
  <2>6. pc' \in {"pop", "cutoff", "idle", "closed", "packet", "record", "finish", "exit"}
        /\ reason' \in Reasons \cup {""}
    BY <1>9 DEF Reasons
  <2> QED
    BY <1>1, <1>2, <2>1, <2>2, <2>3, <2>4, <2>5, <2>6, Zenon DEF TypeOK
<1>15. Located'
  <2>1. file'.open \/ file' = NoFile
    BY <1>1, <1>12 DEF Located
  <2> QED
    BY <1>9, <2>1 DEF Located, Reasons
<1>16. Timed'
  BY <1>1, <1>2, <1>8, <1>10, <1>13 DEF Timed
<1>17. Chained'
  <2>1. Marked(queue', Latest')
    BY <1>1, <1>2, <1>10 DEF Chained
  <2>2. {packet} \subseteq Ending' /\ {packet} \subseteq Packets
    BY <1>4, <1>11
  <2>3. ring' # <<>> => Playable(ring', Ending')
    BY <1>2, <1>6, <2>2, PlayableWider
  <2>4. ASSUME file'.open
        PROVE  Playable(file'.packets, IF pc' = "finish" THEN Packets ELSE Ending')
    <3>1. CASE file' = file /\ pc' = "finish"
      <4>1. Playable(file.packets, {a \in Packets : Follows(a, packet)})
        BY <1>5, <2>4, <3>1
      <4>2. Playable(file.packets, Packets)
        BY <4>1, PlayableWider
      <4> QED
        BY <3>1, <4>2
    <3>2. CASE Playable(file'.packets, {packet})
      BY <2>2, <3>2, PlayableWider
    <3>3. CASE file'.packets = NewRing /\ Wanted
      BY <1>6, <3>2, <3>3 DEF Wanted
    <3>4. CASE file.open /\ file'.packets = Append(file.packets, packet)
      BY <1>4, <1>5, <1>7, <3>2, <3>4, PlayableGoesOn
    <3> QED
      BY <1>12, <2>4, <3>1, <3>3, <3>4
  <2> QED
    BY <1>10, <2>1, <2>3, <2>4 DEF Chained
<1>18. Sided'
  <2>1. \A p \in Between : p.pts \in Nat /\ p.pts >= cutoff /\ \A r \in resets : r <= cutoff \/ p.pts < r
    BY PacketFields DEF Between, Current
  <2>2. \A i \in DOMAIN file'.packets : file'.packets[i] \in Between
    BY <1>13
  <2>3. cutoff \in Nat /\ resets \subseteq Nat
    BY <1>1, Typed
  <2>4. OneSideOfReset'
    <3>1. ASSUME NEW r \in resets
          PROVE  \/ \A i \in DOMAIN file'.packets : file'.packets[i].pts < r
                 \/ \A i \in DOMAIN file'.packets : file'.packets[i].pts >= r
      <4>1. CASE r <= cutoff
        BY <2>1, <2>2, <2>3, <4>1
      <4>2. CASE ~(r <= cutoff)
        BY <2>1, <2>2, <2>3, <4>2
      <4> QED
        BY <4>1, <4>2
    <3> QED
      BY <1>2, <3>1 DEF OneSideOfReset
  <2> QED
    BY <1>2, <1>8, <1>9, <1>10, <1>13, <2>4 DEF Sided
<1>19. Handled'
  <2>1. /\ handled_until \in Nat /\ trigger_until \in Nat /\ served \in Nat /\ cutoff \in Nat
        /\ served <= handled_until
    BY <1>1, Typed DEF Handled
  <2>2. Wanted => trigger_until > handled_until
    BY DEF Wanted
  <2>3. served' <= handled_until' /\ handled_until' >= handled_until /\ handled_until' \in Nat
    BY <1>12, <2>1, <2>2
  <2>4. cutoff # 0 => handled_until >= cutoff + TailTime
    BY <1>1, <1>2 DEF Handled
  <2>5. cutoff # 0 => handled_until' >= cutoff + TailTime
    BY <2>1, <2>3, <2>4, Sizes
  <2>6. trigger_until # 0 => trigger_until > TailTime
    BY <1>1 DEF Handled
  <2> QED
    BY <1>2, <2>3, <2>5, <2>6 DEF Handled
<1>20. PreRecorded'
  <2>2. ASSUME NewRing # <<>>, NEW i \in 2..Len(NewRing), NewRing[i].key
        PROVE  NewRing[Len(NewRing)].pts <= NewRing[i].pts + PreTime
    BY <1>6, <2>2 DEF Playable, Trim
  <2>1. ASSUME NewRing # <<>>
        PROVE  NewRing[1].idx = since' \/ NewRing[1].pts + PreTime < NewRing[Len(NewRing)].pts
    <3>1. NewRing[Len(NewRing)] = packet
      BY <1>6, <2>1 DEF Playable
    <3>2. CASE NewRing[1].pts + PreTime < packet.pts
      BY <3>1, <3>2
    <3>3. CASE ring = <<>> /\ NewRing[1] = packet
      BY <1>2, <2>1, <3>3
    <3>4. CASE ring # <<>> /\ NewRing[1] = ring[1]
      <4>1. since' = since
        BY <1>2, <2>1, <3>4
      <4>2. /\ 1 \in 1..Len(ring) /\ ring[1] \in Packets
            /\ ring[Len(ring)] \in Packets /\ ring[Len(ring)].pts < packet.pts
        <5>1. Follows(ring[Len(ring)], packet) /\ ring[Len(ring)] \in Packets
          BY <1>5, <3>4 DEF Playable
        <5> QED
          BY <1>7, <3>4, <5>1 DEF Follows
      <4>3. ring[1].idx = since \/ ring[1].pts + PreTime < ring[Len(ring)].pts
        BY <1>1, <3>4 DEF PreRecorded
      <4>4. PreTime \in Nat /\ ring[1].pts \in Nat /\ ring[Len(ring)].pts \in Nat /\ packet.pts \in Nat
        BY <1>4, <4>2, PacketFields, TimeAssumption DEF TimeAssumption
      <4> QED
        BY <3>1, <3>4, <4>1, <4>2, <4>3, <4>4
    <3> QED
      BY <1>6, <2>1, <3>2, <3>3, <3>4
  <2> QED
    BY <1>2, <2>1, <2>2 DEF PreRecorded
<1>21. StatusMatches'
  <2>1. file.open <=> current = "recording"
    BY <1>1, Zenon DEF StatusMatches
  <2>2. CASE file' = file /\ current' = current
    BY <2>1, <2>2, Zenon DEF StatusMatches
  <2>3. CASE file' = file /\ ~file.open /\ current' = "error"
    BY <2>3 DEF StatusMatches
  <2>4. CASE file'.open /\ current' = "recording"
    BY <2>4 DEF StatusMatches
  <2>5. CASE file.open /\ file'.open /\ current' = current
    BY <2>1, <2>5 DEF StatusMatches
  <2> QED
    BY <1>12, <2>2, <2>3, <2>4, <2>5
<1> QED
  BY <1>14, <1>15, <1>16, <1>17, <1>18, <1>19, <1>20, <1>21 DEF RecorderIInv

-------------------------------------------------------------------------------
(* Theorems. *)

LEMMA RecorderInductive == RecorderIInv /\ [Next]_vars => RecorderIInv'
<1> SUFFICES ASSUME RecorderIInv, [Next]_vars PROVE RecorderIInv'
  OBVIOUS
<1>1. CASE Run
  BY <1>1, FinishKeeps, PopKeeps, CutoffKeeps, IdleKeeps, ClosedKeeps, PacketKeeps, RecordKeeps
    DEF Run
<1>2. CASE \E pts \in last_pts + 1 .. now, key \in BOOLEAN : Submit(pts, key)
  BY <1>2, SubmitKeeps
<1>3. CASE UNCHANGED vars
  <2>1. /\ pc' = pc /\ packet' = packet /\ reason' = reason /\ ring' = ring /\ file' = file
        /\ handled_until' = handled_until /\ cutoff' = cutoff /\ idle' = idle
        /\ current' = current /\ served' = served /\ since' = since /\ queue' = queue
        /\ closed' = closed /\ gap' = gap /\ trigger_until' = trigger_until
        /\ reset_pts' = reset_pts /\ caller' = caller /\ now' = now /\ last_pts' = last_pts
        /\ submitted' = submitted /\ triggers' = triggers /\ resets' = resets
    BY <1>3 DEF vars, sharedvars, world, recording
  <2>2. /\ Made' = Made /\ Latest' = Latest /\ Current' = Current /\ Between' = Between
        /\ InFlight' <=> InFlight
    BY <2>1 DEF Made, Latest, Current, Between, InFlight
  <2>3. Awaited' = Awaited /\ Ending' = Ending
    BY <2>1, <2>2 DEF Awaited, Ending
  <2>4. TypeOK'
    <3>1. TypeOK
      BY DEF RecorderIInv
    <3>2. queue' \in Seq(Packets) /\ Len(queue') <= QueueCapacity /\ caller' \in [Callers -> Nat]
      BY <2>1, <3>1 DEF TypeOK
    <3>3. /\ closed' \in BOOLEAN /\ gap' \in BOOLEAN /\ packet' \in Packets
          /\ pc' \in {"pop", "cutoff", "idle", "closed", "packet", "record", "finish", "exit"}
          /\ trigger_until' \in Nat /\ reset_pts' \in Nat /\ reason' \in Reasons \cup {""}
      BY <2>1, <3>1, Zenon DEF TypeOK
    <3>4. /\ ring' \in Seq(Packets) /\ Len(ring') <= RingLimit
          /\ file' \in [open : BOOLEAN, packets : Seq(Packets), good : BOOLEAN]
          /\ handled_until' \in Nat /\ cutoff' \in Nat /\ idle' \in 0..IdleLimit
          /\ current' \in {"idle", "recording", "completed", "incomplete", "error"}
      BY <2>1, <3>1, Zenon DEF TypeOK
    <3>5. /\ now' \in Nat /\ last_pts' \in Nat /\ submitted' \in Nat /\ triggers' \in Nat
          /\ resets' \subseteq Nat /\ served' \in Nat /\ since' \in Nat
      BY <2>1, <3>1 DEF TypeOK
    <3> QED
      BY <3>2, <3>3, <3>4, <3>5, Zenon DEF TypeOK
  <2>5. Located' /\ Handled'
    BY <2>1 DEF RecorderIInv, Located, Handled
  <2>6. Timed' /\ Chained'
    BY <2>1, <2>2, <2>3 DEF RecorderIInv, Timed, Chained
  <2>7. Sided' /\ PreRecorded'
    BY <2>1, <2>2 DEF RecorderIInv, Sided, OneSideOfReset, PreRecorded
  <2>8. StatusMatches'
    BY <2>1, Zenon DEF RecorderIInv, StatusMatches
  <2> QED
    BY <2>4, <2>5, <2>6, <2>7, <2>8 DEF RecorderIInv
<1> QED
  BY <1>1, <1>2, <1>3, OthersKeep DEF Next

LEMMA RecorderInvariant == Spec => []RecorderIInv
  BY RecorderInitially, RecorderInductive, PTL DEF Spec

\* All variables keep their types and bounds: the queue and the ring their capacity,
\* the count of empty waits its limit (EventRecorder.h:18, :136, :170).
THEOREM TypeCorrect == Spec => []TypeOK
<1>1. RecorderIInv => TypeOK
  BY DEF RecorderIInv
<1> QED
  BY RecorderInvariant, <1>1, PTL

\* An event file starts with a key frame and misses no packet of the encoder's output,
\* however many packets the queue drops and whatever the ring gives up
\* (EventRecorder.h:71, :149, :154, :159).
THEOREM FilesArePlayable == Spec => []FilePlayable
<1>1. RecorderIInv => FilePlayable
  BY DEF RecorderIInv, Chained, Playable, FilePlayable
<1> QED
  BY RecorderInvariant, <1>1, PTL

\* No event file spans an interruption of the camera (EventRecorder.h:128, :146).
THEOREM FilesKeepSides == Spec => []OneSideOfReset
<1>1. RecorderIInv => OneSideOfReset
  BY DEF RecorderIInv, Sided
<1> QED
  BY RecorderInvariant, <1>1, PTL

\* The ring begins with the group of pictures that holds the time PreTime before its
\* last packet, or where it began, and with no earlier group (EventRecorder.h:158), for
\* every pre-event time and every size of the ring.
THEOREM RingHoldsPreTime == Spec => []PreRecorded
<1>1. RecorderIInv => PreRecorded
  BY DEF RecorderIInv
<1> QED
  BY RecorderInvariant, <1>1, PTL

\* get_events shows an event as recording exactly while its file is open
\* (EventRecorder.h:120, :186, :204, :208).
THEOREM StatusIsTrue == Spec => []StatusMatches
<1>1. RecorderIInv => StatusMatches
  BY DEF RecorderIInv
<1> QED
  BY RecorderInvariant, <1>1, PTL

\* A file is opened only for a trigger from after the last reset for which no other
\* file was opened (EventRecorder.h:133, :183).
THEOREM OpensAreForNewTriggers == Spec => OpensForNewTrigger
<1>1. ASSUME RecorderIInv, Next, ~file.open, file'.open
      PROVE  trigger_until > served /\ trigger_until > cutoff + TailTime
  <2>1. pc = "record" /\ Wanted
    <3>1. file' = file \/ file' = NoFile \/ Record
      BY <1>1 DEF Next, Tick, Submit, TriggerCheck, TriggerRaise, Reset, Stop, Run, Finish, Pop,
           Cutoff, Idle, Closed, Packet, ThreadFrame, recording
    <3>2. Record
      BY <1>1, <3>1, NothingYet
    <3> QED
      BY <1>1, <3>2 DEF Record, OpenFails, Open, Limit, Write, Skip
  <2>2. /\ handled_until \in Nat /\ trigger_until \in Nat /\ served \in Nat /\ cutoff \in Nat
        /\ served <= handled_until /\ (trigger_until # 0 => trigger_until > TailTime)
        /\ (cutoff # 0 => handled_until >= cutoff + TailTime)
    BY <1>1, <2>1, Typed DEF RecorderIInv, Handled
  <2> QED
    BY <2>1, <2>2, Sizes DEF Wanted
<1>2. RecorderIInv /\ [Next]_vars
        => [~file.open /\ file'.open
              => trigger_until > served /\ trigger_until > cutoff + TailTime]_vars
  BY <1>1
<1> QED
  BY RecorderInvariant, <1>2, PTL DEF Spec, OpensForNewTrigger
===============================================================================
