------------------------ MODULE ScreamFeedbackProofs ------------------------
(***************************************************************************)
(* Theorems about ScreamFeedback, for every width of the sequence numbers,  *)
(* every threshold and window and every network whose packets are less out  *)
(* of place than the threshold allows.                                      *)
(***************************************************************************)
EXTENDS ScreamFeedback, TLAPS

----------------------------------------------------------------------------
(* Arithmetic of sequence numbers *)

\* Two numbers less than M apart whose remainders are given differ by the
\* remainders' difference, give or take M.
LEMMA Remainders ==
    ASSUME NEW M \in Nat \ {0}, NEW a \in Int, NEW b \in Int, a - b < M, b - a < M
    PROVE  \/ (a % M) - (b % M) = a - b
           \/ (a % M) - (b % M) = a - b + M
           \/ (a % M) - (b % M) = a - b - M
<1> DEFINE p == a \div M  q == b \div M  x == a % M  y == b % M
<1>1. /\ p \in Int /\ q \in Int /\ x \in 0..(M - 1) /\ y \in 0..(M - 1)
      /\ a = M * p + x /\ b = M * q + y
  OBVIOUS
<1> HIDE DEF p, q, x, y
<1>2. M * (p - q) = (a - b) - (x - y)
  BY <1>1
<1>3. PICK k \in Int : k = p - q
  BY <1>1
<1>4. M * k < 2 * M /\ -(2 * M) < M * k
  BY <1>1, <1>2, <1>3
<1>5. k < 2
  <2> SUFFICES ASSUME k >= 2 PROVE FALSE
    BY <1>3
  <2>1. M * k >= M * 2
    BY <1>3
  <2> QED BY <1>3, <1>4, <2>1
<1>6. k > -2
  <2> SUFFICES ASSUME k <= -2 PROVE FALSE
    BY <1>3
  <2>1. M * k <= M * (-2)
    BY <1>3
  <2> QED BY <1>3, <1>4, <2>1
<1>7. k = -1 \/ k = 0 \/ k = 1
  BY <1>3, <1>5, <1>6
<1>8. M * k = (a - b) - (x - y)
  BY <1>2, <1>3
<1>9. x - y = a - b \/ x - y = a - b + M \/ x - y = a - b - M
  <2>1. CASE k = -1
    BY <1>1, <1>8, <2>1
  <2>2. CASE k = 0
    BY <1>1, <1>8, <2>2
  <2>3. CASE k = 1
    BY <1>1, <1>8, <2>3
  <2> QED BY <1>7, <2>1, <2>2, <2>3
<1> QED BY <1>9 DEF x, y

LEMMA SeqnoType == ASSUME NEW n \in Int PROVE SeqnoOf(n) \in Seqno
BY NumberAssumption DEF SeqnoOf, Seqno

\* The probe finds out how far a packet is ahead of another, over any wrap.
LEMMA AheadRight ==
    ASSUME NEW n \in Int, NEW t \in Int, n - t <= MaxGap, t - n <= MaxGap
    PROVE  Ahead(SeqnoOf(n), SeqnoOf(t)) = n - t
<1>1. /\ SeqnoMod \in Nat \ {0} /\ FirstSeq \in Int /\ Threshold \in Nat /\ MaxGap \in Nat
      /\ MaxGap <= Threshold /\ Threshold + MaxGap < SeqnoMod
  BY NumberAssumption
<1>2. PICK x \in Int, y \in Int : x = SeqnoOf(n) /\ y = SeqnoOf(t)
  BY SeqnoType DEF Seqno
<1>3. \/ x - y = n - t
      \/ x - y = n - t + SeqnoMod
      \/ x - y = n - t - SeqnoMod
  <2>1. PICK a \in Int, b \in Int : a = FirstSeq + n /\ b = FirstSeq + t
    BY <1>1
  <2>2. a - b = n - t /\ a - b < SeqnoMod /\ b - a < SeqnoMod
    BY <1>1, <2>1
  <2>3. x = a % SeqnoMod /\ y = b % SeqnoMod
    BY <1>2, <2>1 DEF SeqnoOf
  <2>4. \/ (a % SeqnoMod) - (b % SeqnoMod) = a - b
        \/ (a % SeqnoMod) - (b % SeqnoMod) = a - b + SeqnoMod
        \/ (a % SeqnoMod) - (b % SeqnoMod) = a - b - SeqnoMod
    BY <1>1, <2>1, <2>2, Remainders
  <2> QED BY <2>2, <2>3, <2>4
<1>4. Ahead(x, y) = n - t
  BY <1>1, <1>2, <1>3 DEF Ahead
<1> QED BY <1>2, <1>4

----------------------------------------------------------------------------
(* Types *)

LEMMA AheadType ==
    ASSUME NEW seq \in Seqno, NEW highest \in Seqno PROVE Ahead(seq, highest) \in Int
BY NumberAssumption DEF Ahead, Seqno

LEMMA AcknowledgedType ==
    ASSUME NEW ack \in SUBSET (1..Window), NEW ahead \in Int
    PROVE  Acknowledged(ack, ahead) \in SUBSET (1..Window)
BY NumberAssumption DEF Acknowledged

LEMMA CountedType ==
    ASSUME NEW r \in ScreamRx, NEW seq \in Seqno
    PROVE  Counted(r, seq) \in ScreamRx
<1>1. /\ r.known \in BOOLEAN /\ r.adapt \in BOOLEAN /\ r.highest \in Seqno
      /\ r.ack \in SUBSET (1..Window) /\ r.loss \in 0..(LossMod - 1)
  BY DEF ScreamRx
<1>2. PICK ahead \in Int : ahead = IF Unused(r) THEN 0 ELSE Ahead(seq, r.highest)
  BY <1>1, AheadType
<1>3. PICK ack \in SUBSET (1..Window) : ack = Acknowledged(r.ack, ahead)
  BY <1>1, AcknowledgedType
<1>4. (r.loss + 1) % LossMod \in 0..(LossMod - 1)
  BY <1>1, NumberAssumption
<1>5. Counted(r, seq) =
        [r EXCEPT !.highest = IF ahead >= 0 THEN seq ELSE @,
                  !.ack = ack,
                  !.loss = IF Grace \in ack THEN @ ELSE (@ + 1) % LossMod]
  BY <1>2, <1>3 DEF Counted
<1> QED BY <1>1, <1>4, <1>5 DEF ScreamRx

LEMMA LearntType ==
    ASSUME NEW r \in ScreamRx, NEW known \in BOOLEAN, NEW adapt \in BOOLEAN
    PROVE  [r EXCEPT !.known = known, !.adapt = adapt] \in ScreamRx
BY DEF ScreamRx

\* The last packet of a session, where it is known to have one.
IsTop(s, n) == n \in arrived[s] /\ \A k \in arrived[s] : k <= n

LEMMA TopIs ==
    ASSUME TypeOK, NEW s \in Session, NEW n, IsTop(s, n)
    PROVE  Top(s) = n
<1>1. arrived[s] \subseteq Packet /\ n \in Packet
  BY DEF TypeOK, IsTop
<1>2. \A m \in arrived[s] : (\A k \in arrived[s] : k <= m) => m = n
  BY <1>1 DEF IsTop, Packet
<1> QED BY <1>2 DEF IsTop, Top

\* Every session whose packets were counted has a last one.
HasTop == \A s \in Session : arrived[s] # {} => \E n : IsTop(s, n)

\* The last packet once one more is counted.
LastWith(s, n) == IF arrived[s] = {} \/ n > Top(s) THEN n ELSE Top(s)

\* The packet a probe counts becomes the last one unless a later one came before.
LEMMA TopCounted ==
    ASSUME TypeOK, HasTop, NEW s \in Session, NEW n \in Packet,
           arrived' = [arrived EXCEPT ![s] = @ \cup {n}]
    PROVE  /\ LastWith(s, n) \in Packet /\ LastWith(s, n) >= n
           /\ LastWith(s, n) \in arrived'[s]
           /\ \A k \in arrived'[s] : k <= LastWith(s, n)
           /\ arrived'[s] = arrived[s] \cup {n}
           /\ \A t \in Session : t # s => arrived'[t] = arrived[t]
<1>1. arrived'[s] = arrived[s] \cup {n} /\ \A t \in Session : t # s => arrived'[t] = arrived[t]
  BY DEF TypeOK
<1>2. arrived[s] \subseteq Packet
  BY DEF TypeOK
<1>3. CASE arrived[s] = {}
  BY <1>1, <1>3 DEF Packet, LastWith
<1>4. CASE arrived[s] # {}
  <2>1. IsTop(s, Top(s))
    <3>1. PICK m : IsTop(s, m)
      BY <1>4 DEF HasTop
    <3> QED BY <3>1, TopIs
  <2>2. Top(s) \in Packet
    BY <1>2, <2>1 DEF IsTop
  <2> QED BY <1>1, <1>2, <1>4, <2>1, <2>2 DEF IsTop, Packet, LastWith
<1> QED BY <1>3, <1>4

LEMMA TypesFirst == Init => TypeOK
BY NumberAssumption, BoundAssumption DEF Init, TypeOK, ScreamRx, Seqno

LEMMA TypesKept == TypeOK /\ HasTop /\ [Next]_vars => TypeOK'
<1> SUFFICES ASSUME TypeOK, HasTop, [Next]_vars PROVE TypeOK'
  OBVIOUS
<1> USE DEF TypeOK
<1>1. ASSUME NEW s \in Session, AddReceivePayload(s) PROVE TypeOK'
  BY <1>1 DEF AddReceivePayload
<1>2. ASSUME NEW s \in Session, NEW n \in Packet, ProbeRtpInfo(s, n) PROVE TypeOK'
  <2>1. PICK r \in ScreamRx, top \in Packet :
          /\ rx' = [rx EXCEPT ![s] = r]
          /\ info' = [info EXCEPT ![s] =
                [session |-> s, highest |-> r.highest, loss |-> r.loss, top |-> top]]
    <3>1. PICK old \in ScreamRx :
            old = [rx[s] EXCEPT !.known = payload[s], !.adapt = TRUE]
      BY LearntType
    <3>2. SeqnoOf(n) \in Seqno
      BY SeqnoType DEF Packet
    <3>3. PICK r \in ScreamRx : r = Counted(old, SeqnoOf(n))
      BY <3>2, CountedType
    <3>4. PICK top : top = LastWith(s, n)
      OBVIOUS
    <3>5. top \in Packet
      BY <1>2, <3>4, TopCounted DEF ProbeRtpInfo
    <3> QED BY <1>2, <3>1, <3>3, <3>4, <3>5 DEF ProbeRtpInfo, LastWith
  <2>2. r.highest \in Seqno /\ r.loss \in 0..(LossMod - 1)
    BY <2>1 DEF ScreamRx
  <2>3. rx' \in [Session -> ScreamRx] /\ info' \in [Session -> Report \cup {None}]
    BY <2>1, <2>2 DEF Report
  <2>4. arrivals' \in 0..MaxArrival
    BY <1>2, BoundAssumption DEF ProbeRtpInfo, Arrives
  <2>5. /\ arrived' \in [Session -> SUBSET Packet]
        /\ forgot' \in [Session -> BOOLEAN]
    BY <1>2 DEF ProbeRtpInfo
  <2> QED BY <1>2, <2>3, <2>4, <2>5 DEF ProbeRtpInfo
<1>3. ASSUME NEW s \in Session, ProbeRtpInfoUncounted(s) PROVE TypeOK'
  <2>1. PICK adapt \in BOOLEAN :
          rx' = [rx EXCEPT ![s].known = payload[s], ![s].adapt = adapt]
    BY <1>3 DEF ProbeRtpInfoUncounted, AdaptRead, ScreamRx
  <2>2. rx' \in [Session -> ScreamRx]
    <3>1. PICK learnt \in ScreamRx :
            learnt = [rx[s] EXCEPT !.known = payload[s], !.adapt = adapt]
      BY LearntType
    <3>2. rx' = [rx EXCEPT ![s] = learnt]
      BY <2>1, <3>1
    <3> QED BY <3>2
  <2>3. arrivals' \in 0..MaxArrival
    BY <1>3, BoundAssumption DEF ProbeRtpInfoUncounted, Arrives
  <2> QED BY <1>3, <2>2, <2>3 DEF ProbeRtpInfoUncounted
<1>4. ASSUME NEW s \in Session, QueueReport(s) PROVE TypeOK'
  BY <1>4 DEF QueueReport
<1>5. ASSUME NEW s \in Session, OnSendingRtcp(s) PROVE TypeOK'
  BY <1>5 DEF OnSendingRtcp
<1>6. ASSUME NEW s \in Session, OnSsrcActive(s) PROVE TypeOK'
  BY <1>6 DEF OnSsrcActive
<1>7. ASSUME EmitStatsSignal PROVE TypeOK'
  BY <1>7 DEF EmitStatsSignal
<1>8. ASSUME NEW i \in wire, LoseRtcp(i) \/ OnFeedbackRtcp(i) PROVE TypeOK'
  <2>1. i \in Report /\ i.session \in Session
    BY DEF Report
  <2> QED BY <1>8, <2>1 DEF LoseRtcp, OnFeedbackRtcp
<1>9. CASE UNCHANGED vars
  BY <1>9 DEF vars
<1> QED BY <1>1, <1>2, <1>3, <1>4, <1>5, <1>6, <1>7, <1>8, <1>9 DEF Next

----------------------------------------------------------------------------
(* What the probe knows *)

\* A vector right for a set of packets and the last of them.
Knows(come, last, ack) ==
    /\ \A d \in 1..(Window - 1) : d \in ack <=> last - d \in come
    /\ Window \in ack => last - Window \in come

LEMMA AcknowledgedRight ==
    ASSUME NEW come \in SUBSET Int, NEW last \in come, \A k \in come : k <= last,
           NEW ack \in SUBSET (1..Window), Knows(come, last, ack),
           NEW n \in Int, NEW top, top = IF n > last THEN n ELSE last
    PROVE  Knows(come \cup {n}, top, Acknowledged(ack, n - last))
<1>1. Window \in Nat \ {0} /\ last \in Int /\ \A d \in ack : d \in 1..Window
  BY NumberAssumption
<1>2. PICK ahead \in Int : ahead = n - last
  BY <1>1
<1>3. CASE ahead >= Window
  <2>1. Acknowledged(ack, ahead) = {} /\ top = n
    BY <1>1, <1>2, <1>3 DEF Acknowledged
  <2>2. \A d \in 1..(Window - 1) : n - d \notin come \cup {n}
    BY <1>1, <1>2, <1>3
  <2> QED BY <1>2, <2>1, <2>2 DEF Knows
<1>4. CASE ahead > 0 /\ ahead < Window
  <2>1. top = n
    BY <1>1, <1>2, <1>4
  <2>2. Acknowledged(ack, ahead) = ({d + ahead : d \in ack} \cap 1..Window) \cup {ahead}
    BY <1>1, <1>4 DEF Acknowledged
  <2>3. ASSUME NEW d \in 1..Window
        PROVE  d \in Acknowledged(ack, ahead) <=> d = ahead \/ d - ahead \in ack
    BY <1>1, <1>4, <2>2
  <2>4. ASSUME NEW d \in 1..Window
        PROVE  d \in Acknowledged(ack, ahead) <=> n - d \in come \cup {n}
    <3>1. CASE d = ahead
      BY <1>1, <1>2, <2>3, <3>1
    <3>2. CASE d < ahead
      BY <1>1, <1>2, <2>3, <3>2
    <3>3. CASE d > ahead
      <4>1. d - ahead \in 1..(Window - 1) /\ last - (d - ahead) = n - d
        BY <1>1, <1>2, <1>4, <3>3
      <4>2. d - ahead \in ack <=> n - d \in come
        BY <4>1 DEF Knows
      <4>3. n - d # n /\ d # ahead
        BY <3>3
      <4> QED BY <2>3, <4>2, <4>3
    <3> QED BY <1>2, <3>1, <3>2, <3>3
  <2>5. \A d \in 1..(Window - 1) : d \in 1..Window
    BY <1>1
  <2>6. Window \in 1..Window
    BY <1>1
  <2> QED BY <1>2, <2>1, <2>4, <2>5, <2>6 DEF Knows
<1>5. CASE ahead <= 0
  <2>1. top = last /\ last - (-ahead) = n /\ -ahead \in Nat
    BY <1>1, <1>2, <1>5
  <2>2. Acknowledged(ack, ahead) = ack \cup ({-ahead} \cap 1..(Window - 1))
    BY <1>1, <1>5 DEF Acknowledged
  <2>3. ASSUME NEW d \in 1..(Window - 1)
        PROVE  d \in Acknowledged(ack, ahead) <=> last - d \in come \cup {n}
    <3>1. last - d = n <=> d = -ahead
      BY <1>1, <2>1
    <3>2. d \in ack <=> last - d \in come
      BY DEF Knows
    <3> QED BY <2>2, <3>1, <3>2
  <2>4. Window \in Acknowledged(ack, ahead) => last - Window \in come
    BY <1>1, <2>2 DEF Knows
  <2> QED BY <1>2, <2>1, <2>3, <2>4 DEF Knows
<1> QED BY <1>1, <1>2, <1>3, <1>4, <1>5

\* What the probe of a session keeps: nothing before the first packet, then what
\* FeedbackRight says, as long as it has not taken the stream up anew.
KnowsInv ==
    \A s \in Session :
        /\ arrived[s] = {} => Unused(rx[s])
        /\ ~forgot[s] /\ arrived[s] # {} =>
               rx[s].highest = SeqnoOf(Top(s)) /\ Knows(arrived[s], Top(s), rx[s].ack)

LEMMA ProbeKnowsIs ==
    ASSUME KnowsInv, NEW s \in Session, ~forgot[s] PROVE ProbeKnows(s)
BY DEF KnowsInv, ProbeKnows, Knows

Recounted(s, n) ==
    Counted([rx[s] EXCEPT !.known = payload[s], !.adapt = TRUE], SeqnoOf(n))

\* A packet that counts brings the probe's fields up to date.
LEMMA CountedRight ==
    ASSUME TypeOK, HasTop, KnowsInv, NEW s \in Session, NEW n \in Packet,
           ~forgot[s], arrived[s] # {} => ~Unused(rx[s]),
           arrived[s] # {} => n - Top(s) <= MaxGap /\ Top(s) - n <= MaxGap,
           NEW r, r = Recounted(s, n), NEW top, top = LastWith(s, n)
    PROVE  r.highest = SeqnoOf(top) /\ Knows(arrived[s] \cup {n}, top, r.ack)
<1>0. PICK known \in BOOLEAN : known = payload[s]
  BY DEF TypeOK
<1>1. n \in Int /\ arrived[s] \in SUBSET Int /\ rx[s] \in ScreamRx
  BY DEF TypeOK, Packet
<1>2. PICK old \in ScreamRx :
        /\ old = [rx[s] EXCEPT !.known = known, !.adapt = TRUE]
        /\ old.highest = rx[s].highest /\ old.ack = rx[s].ack
  <2>1. [rx[s] EXCEPT !.known = known, !.adapt = TRUE] \in ScreamRx
    BY <1>1, LearntType
  <2>2. /\ [rx[s] EXCEPT !.known = known, !.adapt = TRUE].highest = rx[s].highest
        /\ [rx[s] EXCEPT !.known = known, !.adapt = TRUE].ack = rx[s].ack
    BY <1>1 DEF ScreamRx
  <2> QED BY <2>1, <2>2
<1>3. Unused(old) <=> Unused(rx[s])
  BY <1>2 DEF Unused
<1>4. SeqnoOf(n) \in Seqno
  BY <1>1, SeqnoType
<1>5. PICK ahead \in Int : ahead = IF Unused(old) THEN 0 ELSE Ahead(SeqnoOf(n), old.highest)
  BY <1>4, AheadType DEF ScreamRx
<1>6. /\ r.highest = IF ahead >= 0 THEN SeqnoOf(n) ELSE old.highest
      /\ r.ack = Acknowledged(old.ack, ahead)
  BY <1>0, <1>2, <1>5 DEF Recounted, Counted, ScreamRx
<1>7. CASE arrived[s] = {}
  <2>1. Unused(old) /\ ahead = 0 /\ old.ack = {} /\ top = n
    BY <1>2, <1>3, <1>5, <1>7 DEF KnowsInv, Unused, LastWith
  <2>2. Window \in Nat \ {0}
    BY NumberAssumption
  <2>3. Acknowledged({}, 0) = {}
    BY <2>2 DEF Acknowledged
  <2>4. \A d \in 1..(Window - 1) : n - d \notin {n}
    BY <1>1, <2>2
  <2>5. Knows({n}, n, {})
    BY <2>4 DEF Knows
  <2> QED BY <1>6, <1>7, <2>1, <2>3, <2>5
<1>8. CASE arrived[s] # {}
  <2>1. PICK last : IsTop(s, last)
    BY <1>8 DEF HasTop
  <2>2. /\ last = Top(s) /\ last \in arrived[s] /\ last \in Int
        /\ \A k \in arrived[s] : k <= last
    BY <1>1, <2>1, TopIs DEF IsTop
  <2>3. /\ ~Unused(old) /\ old.highest = SeqnoOf(last)
        /\ Knows(arrived[s], last, old.ack)
    BY <1>2, <1>3, <1>8, <2>2 DEF KnowsInv
  <2>4. ahead = n - last
    BY <1>1, <1>5, <1>8, <2>2, <2>3, AheadRight
  <2>5. top = IF n > last THEN n ELSE last
    BY <1>8, <2>2 DEF LastWith
  <2>6. old.ack \in SUBSET (1..Window)
    BY DEF ScreamRx
  <2>7. Knows(arrived[s] \cup {n}, top, Acknowledged(old.ack, n - last))
    BY <1>1, <2>2, <2>3, <2>5, <2>6, AcknowledgedRight
  <2>8. r.highest = SeqnoOf(top)
    <3>1. CASE n > last
      BY <1>1, <1>6, <2>2, <2>4, <2>5, <3>1
    <3>2. CASE n = last
      BY <1>1, <1>6, <2>2, <2>4, <2>5, <3>2
    <3>3. CASE n < last
      BY <1>1, <1>6, <2>2, <2>3, <2>4, <2>5, <3>3
    <3> QED BY <1>1, <2>2, <3>1, <3>2, <3>3
  <2> QED BY <1>6, <2>4, <2>7, <2>8
<1> QED BY <1>7, <1>8

----------------------------------------------------------------------------
(* What the sender is told *)

ReportsInv ==
    \A i \in Reports :
        /\ i.top \in arrived[i.session]
        /\ ~forgot[i.session] => i.highest = SeqnoOf(i.top)

\* Reports of a session leave in order: those sent, then the one in the list, then
\* the one the probe has just made.
OrderInv ==
    /\ \A s \in Session : info[s] # None => info[s].session = s
    /\ \A q, r \in rtcpList : q.session = r.session => q = r
    /\ \A q \in rtcpList \cup wire :
           info[q.session] # None => q.top <= info[q.session].top
    /\ \A q \in rtcpList, w \in wire : q.session = w.session => w.top <= q.top

FeedbackInv == TypeOK /\ HasTop /\ KnowsInv /\ ReportsInv /\ OrderInv

LEMMA FeedbackInvFirst == Init => FeedbackInv
<1> SUFFICES ASSUME Init PROVE FeedbackInv
  OBVIOUS
<1>1. TypeOK
  BY TypesFirst
<1>2. HasTop /\ KnowsInv
  BY DEF Init, HasTop, KnowsInv, Unused
<1>3. Reports = {}
  BY DEF Init, Reports
<1>4. ReportsInv /\ OrderInv
  BY <1>3 DEF ReportsInv, OrderInv, Init
<1> QED BY <1>1, <1>2, <1>4 DEF FeedbackInv

\* A session's history stands, so what was known of it is known still.
LEMMA TopStays ==
    ASSUME NEW s \in Session, arrived'[s] = arrived[s]
    PROVE  Top(s)' = Top(s)
BY DEF Top

LEMMA HistoryKept ==
    ASSUME FeedbackInv, UNCHANGED <<arrived, forgot>>,
           \A s \in Session : rx'[s].highest = rx[s].highest /\ rx'[s].ack = rx[s].ack
    PROVE  HasTop' /\ KnowsInv'
<1>1. HasTop'
  BY DEF FeedbackInv, HasTop, IsTop
<1>2. \A s \in Session : Top(s)' = Top(s)
  BY TopStays
<1>3. ASSUME NEW s \in Session
      PROVE  /\ arrived'[s] = {} => Unused(rx'[s])
             /\ ~forgot'[s] /\ arrived'[s] # {} =>
                    /\ rx'[s].highest = SeqnoOf(Top(s)')
                    /\ Knows(arrived'[s], Top(s)', rx'[s].ack)
  BY <1>2 DEF FeedbackInv, KnowsInv, Unused
<1> QED BY <1>1, <1>3 DEF KnowsInv

\* A step that only moves reports about keeps what they say.
LEMMA ReportsKept ==
    ASSUME FeedbackInv, UNCHANGED <<arrived, forgot>>, Reports' \subseteq Reports
    PROVE  ReportsInv'
BY DEF FeedbackInv, ReportsInv

LEMMA FeedbackInvKept == FeedbackInv /\ [Next]_vars => FeedbackInv'
<1> SUFFICES ASSUME FeedbackInv, [Next]_vars PROVE FeedbackInv'
  OBVIOUS
<1>0. TypeOK /\ HasTop /\ TypeOK'
  BY TypesKept DEF FeedbackInv
<1>1. ASSUME NEW s \in Session, AddReceivePayload(s) PROVE FeedbackInv'
  <2>1. HasTop' /\ KnowsInv'
    BY <1>1, HistoryKept DEF AddReceivePayload
  <2>2. Reports' = Reports
    BY <1>1 DEF AddReceivePayload, Reports
  <2>3. ReportsInv'
    BY <1>1, <2>2, ReportsKept DEF AddReceivePayload
  <2>4. OrderInv'
    BY <1>1 DEF FeedbackInv, OrderInv, AddReceivePayload
  <2> QED BY <1>0, <2>1, <2>3, <2>4 DEF FeedbackInv
<1>2. ASSUME NEW s \in Session, NEW n \in Packet, ProbeRtpInfo(s, n) PROVE FeedbackInv'
  <2>1. PICK r, top :
          /\ r = Recounted(s, n) /\ top = LastWith(s, n)
          /\ rx' = [rx EXCEPT ![s] = r]
          /\ info' = [info EXCEPT ![s] =
                [session |-> s, highest |-> r.highest, loss |-> r.loss, top |-> top]]
    BY <1>2 DEF ProbeRtpInfo, Recounted, LastWith
  <2>2. /\ top \in Packet /\ top >= n
        /\ top \in arrived'[s] /\ \A k \in arrived'[s] : k <= top
        /\ arrived'[s] = arrived[s] \cup {n}
        /\ \A t \in Session : t # s => arrived'[t] = arrived[t]
    <3>1. arrived' = [arrived EXCEPT ![s] = @ \cup {n}]
      BY <1>2 DEF ProbeRtpInfo
    <3>2. top = LastWith(s, n)
      BY <2>1
    <3> QED BY <1>0, <3>1, <3>2, TopCounted
  <2>3. /\ forgot'[s] = (forgot[s] \/ (arrived[s] # {} /\ Unused(rx[s])))
        /\ \A t \in Session : t # s => forgot'[t] = forgot[t]
    BY <1>0, <1>2 DEF ProbeRtpInfo, TypeOK
  <2>4. /\ rx'[s] = r /\ \A t \in Session : t # s => rx'[t] = rx[t]
        /\ info'[s] = [session |-> s, highest |-> r.highest, loss |-> r.loss, top |-> top]
        /\ \A t \in Session : t # s => info'[t] = info[t]
    BY <1>0, <2>1 DEF TypeOK
  <2>5. ~forgot'[s] => r.highest = SeqnoOf(top) /\ Knows(arrived'[s], top, r.ack)
    <3> SUFFICES ASSUME ~forgot'[s]
                 PROVE  r.highest = SeqnoOf(top) /\ Knows(arrived'[s], top, r.ack)
      OBVIOUS
    <3>1. ~forgot[s] /\ (arrived[s] # {} => ~Unused(rx[s]))
      BY <1>0, <2>3 DEF TypeOK
    <3>2. arrived[s] # {} => n - Top(s) <= MaxGap /\ Top(s) - n <= MaxGap
      BY <1>2 DEF ProbeRtpInfo
    <3>3. r.highest = SeqnoOf(top) /\ Knows(arrived[s] \cup {n}, top, r.ack)
      <4>1. KnowsInv
        BY DEF FeedbackInv
      <4>2. r = Recounted(s, n) /\ top = LastWith(s, n)
        BY <2>1
      <4> QED BY <1>0, <3>1, <3>2, <4>1, <4>2, CountedRight
    <3> QED BY <2>2, <3>3
  <2>6. Top(s)' = top
    <3>1. IsTop(s, top)'
      BY <2>2 DEF IsTop
    <3>2. \A m \in arrived'[s] : (\A k \in arrived'[s] : k <= m) => m = top
      <4>1. \A m \in arrived'[s] : m \in Int
        BY <1>0 DEF TypeOK, Packet
      <4> QED BY <2>2, <4>1 DEF Packet
    <3> QED BY <2>2, <3>2 DEF Top
  <2>7. \A t \in Session : t # s => Top(t)' = Top(t)
    BY <2>2, TopStays
  <2>8. HasTop'
    <3> SUFFICES ASSUME NEW t \in Session, arrived'[t] # {} PROVE \E m : IsTop(t, m)'
      BY DEF HasTop
    <3>1. CASE t = s
      BY <2>2, <3>1 DEF IsTop
    <3>2. CASE t # s
      BY <1>0, <2>2, <3>2 DEF HasTop, IsTop
    <3> QED BY <3>1, <3>2
  <2>9. KnowsInv'
    <3>1. ASSUME NEW t \in Session
          PROVE  /\ arrived'[t] = {} => Unused(rx'[t])
                 /\ ~forgot'[t] /\ arrived'[t] # {} =>
                        /\ rx'[t].highest = SeqnoOf(Top(t)')
                        /\ Knows(arrived'[t], Top(t)', rx'[t].ack)
      <4>1. CASE t = s
        BY <2>2, <2>4, <2>5, <2>6, <4>1
      <4>2. CASE t # s
        BY <2>2, <2>3, <2>4, <2>7, <4>2 DEF FeedbackInv, KnowsInv
      <4> QED BY <4>1, <4>2
    <3> QED BY <3>1 DEF KnowsInv
  <2>10. \A i \in Reports' : i \in Reports \/ i = info'[s]
    BY <1>2, <2>4 DEF ProbeRtpInfo, Reports
  <2>11. ReportsInv'
    <3> SUFFICES ASSUME NEW i \in Reports'
                 PROVE  /\ i.top \in arrived'[i.session]
                        /\ ~forgot'[i.session] => i.highest = SeqnoOf(i.top)
      BY DEF ReportsInv
    <3>1. CASE i = info'[s]
      BY <2>2, <2>4, <2>5, <3>1
    <3>2. CASE i \in Reports
      <4>1. i.session \in Session
        BY <1>0, <3>2 DEF TypeOK, Reports, Report
      <4>2. /\ i.top \in arrived[i.session]
            /\ ~forgot[i.session] => i.highest = SeqnoOf(i.top)
        BY <3>2 DEF FeedbackInv, ReportsInv
      <4>3. arrived[i.session] \subseteq arrived'[i.session]
        BY <2>2, <4>1
      <4>4. ~forgot'[i.session] => ~forgot[i.session]
        BY <2>3, <4>1
      <4> QED BY <4>2, <4>3, <4>4
    <3> QED BY <2>10, <3>1, <3>2
  <2>12. OrderInv'
    <3>1. rtcpList' = rtcpList /\ wire' = wire
      BY <1>2 DEF ProbeRtpInfo
    <3>2. \A t \in Session : info'[t] # None => info'[t].session = t
      BY <2>4 DEF FeedbackInv, OrderInv
    <3>3. ASSUME NEW q \in rtcpList \cup wire, info'[q.session] # None
          PROVE  q.top <= info'[q.session].top
      <4>1. q.session \in Session /\ q \in Reports
        BY <1>0 DEF TypeOK, Report, Reports
      <4>2. CASE q.session = s
        <5>1. q.top \in arrived[s]
          BY <4>1, <4>2 DEF FeedbackInv, ReportsInv
        <5> QED BY <2>2, <2>4, <4>2, <5>1
      <4>3. CASE q.session # s
        BY <2>4, <3>3, <4>1, <4>3 DEF FeedbackInv, OrderInv
      <4> QED BY <4>2, <4>3
    <3> QED BY <3>1, <3>2, <3>3 DEF FeedbackInv, OrderInv
  <2> QED BY <1>0, <2>8, <2>9, <2>11, <2>12 DEF FeedbackInv
<1>3. ASSUME NEW s \in Session, ProbeRtpInfoUncounted(s) PROVE FeedbackInv'
  <2>1. PICK adapt \in BOOLEAN :
          rx' = [rx EXCEPT ![s].known = payload[s], ![s].adapt = adapt]
    BY <1>0, <1>3 DEF ProbeRtpInfoUncounted, AdaptRead, TypeOK, ScreamRx
  <2>2. \A t \in Session : rx'[t].highest = rx[t].highest /\ rx'[t].ack = rx[t].ack
    BY <1>0, <2>1 DEF TypeOK, ScreamRx
  <2>3. HasTop' /\ KnowsInv'
    BY <1>3, <2>2, HistoryKept DEF ProbeRtpInfoUncounted
  <2>4. Reports' = Reports
    BY <1>3 DEF ProbeRtpInfoUncounted, Reports
  <2>5. ReportsInv'
    BY <1>3, <2>4, ReportsKept DEF ProbeRtpInfoUncounted
  <2>6. OrderInv'
    BY <1>3 DEF FeedbackInv, OrderInv, ProbeRtpInfoUncounted
  <2> QED BY <1>0, <2>3, <2>5, <2>6 DEF FeedbackInv
<1>4. ASSUME NEW s \in Session, QueueReport(s) PROVE FeedbackInv'
  <2>1. HasTop' /\ KnowsInv'
    BY <1>4, HistoryKept DEF QueueReport
  <2>2. /\ info[s] # None /\ info[s].session = s
        /\ info'[s] = None /\ \A t \in Session : t # s => info'[t] = info[t]
    BY <1>0, <1>4 DEF QueueReport, FeedbackInv, OrderInv, TypeOK
  <2>3. /\ \A q \in rtcpList' : q = info[s] \/ (q \in rtcpList /\ q.session # s)
        /\ info[s] \in rtcpList'
        /\ wire' = wire
    <3>1. \A q, r \in rtcpList : q.session = r.session => q = r
      BY DEF FeedbackInv, OrderInv
    <3> QED BY <1>4, <3>1 DEF QueueReport
  <2>4. Reports' \subseteq Reports
    BY <1>4, <2>2, <2>3 DEF QueueReport, Reports
  <2>5. ReportsInv'
    BY <1>4, <2>4, ReportsKept DEF QueueReport
  <2>6. OrderInv'
    <3>1. \A t \in Session : info'[t] # None => info'[t].session = t
      BY <2>2 DEF FeedbackInv, OrderInv
    <3>2. \A q, r \in rtcpList' : q.session = r.session => q = r
      BY <2>2, <2>3 DEF FeedbackInv, OrderInv
    <3>3. ASSUME NEW q \in rtcpList' \cup wire', info'[q.session] # None
          PROVE  q.top <= info'[q.session].top
      <4>1. q.session \in Session
        BY <1>0 DEF TypeOK, Report
      <4>2. q.session # s
        BY <2>2, <3>3
      <4>3. q \in rtcpList \cup wire
        BY <2>2, <2>3, <4>2
      <4> QED BY <2>2, <3>3, <4>1, <4>2, <4>3 DEF FeedbackInv, OrderInv
    <3>4. ASSUME NEW q \in rtcpList', NEW w \in wire', q.session = w.session
          PROVE  w.top <= q.top
      <4>1. CASE q = info[s]
        BY <2>2, <2>3, <3>4, <4>1 DEF FeedbackInv, OrderInv
      <4>2. CASE q \in rtcpList
        BY <2>3, <3>4, <4>2 DEF FeedbackInv, OrderInv
      <4> QED BY <2>3, <4>1, <4>2
    <3> QED BY <3>1, <3>2, <3>3, <3>4 DEF OrderInv
  <2> QED BY <1>0, <2>1, <2>5, <2>6 DEF FeedbackInv
<1>5. ASSUME NEW s \in Session, OnSendingRtcp(s) PROVE FeedbackInv'
  <2>1. HasTop' /\ KnowsInv'
    BY <1>5, HistoryKept DEF OnSendingRtcp
  <2>2. PICK out \in SUBSET rtcpList :
          wire' = wire \cup out /\ rtcpList' = rtcpList \ out
    BY <1>5 DEF OnSendingRtcp
  <2>3. Reports' \subseteq Reports
    BY <1>5, <2>2 DEF OnSendingRtcp, Reports
  <2>4. ReportsInv'
    BY <1>5, <2>3, ReportsKept DEF OnSendingRtcp
  <2>5. OrderInv'
    <3>1. info' = info
      BY <1>5 DEF OnSendingRtcp
    <3>2. \A q \in rtcpList' : q \in rtcpList /\ \A w \in out : w.session # q.session
      BY <2>2 DEF FeedbackInv, OrderInv
    <3> QED BY <2>2, <3>1, <3>2 DEF FeedbackInv, OrderInv
  <2> QED BY <1>0, <2>1, <2>4, <2>5 DEF FeedbackInv
<1>6. ASSUME NEW s \in Session, OnSsrcActive(s) PROVE FeedbackInv'
  <2>1. HasTop' /\ KnowsInv'
    BY <1>6, HistoryKept DEF OnSsrcActive
  <2>2. Reports' = Reports
    BY <1>6 DEF OnSsrcActive, Reports
  <2>3. ReportsInv'
    BY <1>6, <2>2, ReportsKept DEF OnSsrcActive
  <2>4. OrderInv'
    BY <1>6 DEF FeedbackInv, OrderInv, OnSsrcActive
  <2> QED BY <1>0, <2>1, <2>3, <2>4 DEF FeedbackInv
<1>7. ASSUME EmitStatsSignal PROVE FeedbackInv'
  <2>1. HasTop' /\ KnowsInv'
    BY <1>7, HistoryKept DEF EmitStatsSignal
  <2>2. Reports' = Reports
    BY <1>7 DEF EmitStatsSignal, Reports
  <2>3. ReportsInv'
    BY <1>7, <2>2, ReportsKept DEF EmitStatsSignal
  <2>4. OrderInv'
    BY <1>7 DEF FeedbackInv, OrderInv, EmitStatsSignal
  <2> QED BY <1>0, <2>1, <2>3, <2>4 DEF FeedbackInv
<1>8. ASSUME NEW i \in wire, LoseRtcp(i) PROVE FeedbackInv'
  <2>1. HasTop' /\ KnowsInv'
    BY <1>8, HistoryKept DEF LoseRtcp
  <2>2. Reports' \subseteq Reports
    BY <1>8 DEF LoseRtcp, Reports
  <2>3. ReportsInv'
    BY <1>8, <2>2, ReportsKept DEF LoseRtcp
  <2>4. OrderInv'
    BY <1>8 DEF FeedbackInv, OrderInv, LoseRtcp
  <2> QED BY <1>0, <2>1, <2>3, <2>4 DEF FeedbackInv
<1>9. ASSUME NEW i \in wire, OnFeedbackRtcp(i) PROVE FeedbackInv'
  <2>1. HasTop' /\ KnowsInv'
    BY <1>9, HistoryKept DEF OnFeedbackRtcp
  <2>2. Reports' \subseteq Reports
    <3>1. i.session \in Session
      BY <1>0 DEF TypeOK, Report
    <3>2. \A t \in Session : heard'[t] = heard[t] \/ heard'[t] = i
      BY <1>0, <1>9, <3>1 DEF OnFeedbackRtcp, TypeOK
    <3> QED BY <1>9, <3>2 DEF OnFeedbackRtcp, Reports
  <2>3. ReportsInv'
    BY <1>9, <2>2, ReportsKept DEF OnFeedbackRtcp
  <2>4. OrderInv'
    BY <1>9 DEF FeedbackInv, OrderInv, OnFeedbackRtcp
  <2> QED BY <1>0, <2>1, <2>3, <2>4 DEF FeedbackInv
<1>10. CASE UNCHANGED vars
  <2>1. HasTop' /\ KnowsInv'
    BY <1>10, HistoryKept DEF vars
  <2>2. Reports' = Reports
    BY <1>10 DEF vars, Reports
  <2>3. ReportsInv'
    BY <1>10, <2>2, ReportsKept DEF vars
  <2>4. OrderInv'
    BY <1>10 DEF FeedbackInv, OrderInv, vars
  <2> QED BY <1>0, <2>1, <2>3, <2>4 DEF FeedbackInv
<1> QED BY <1>1, <1>2, <1>3, <1>4, <1>5, <1>6, <1>7, <1>8, <1>9, <1>10 DEF Next

LEMMA FeedbackInvAlways == Spec => []FeedbackInv
BY FeedbackInvFirst, FeedbackInvKept, PTL DEF Spec

\* The agent's session tables, lists and reports keep their types.
THEOREM TypeCorrect == Spec => []TypeOK
<1>1. FeedbackInv => TypeOK
  BY DEF FeedbackInv
<1> QED BY <1>1, FeedbackInvAlways, PTL

\* What the sender of a stream is told of it is what has arrived, in the order it
\* did, for every width of the sequence numbers and every network whose packets are
\* less out of place than the threshold of compare_rtcp_scream and probe_rtp_info.
THEOREM FeedbackRightAlways == Spec => []FeedbackRight
<1>1. FeedbackInv => FeedbackRight
  <2> SUFFICES ASSUME FeedbackInv, NEW s \in Session, ~forgot[s]
               PROVE  /\ ProbeKnows(s)
                      /\ \A i \in Reports : i.session = s =>
                             i.top \in arrived[s] /\ i.highest = SeqnoOf(i.top)
                      /\ \A q, r \in rtcpList : q.session = s /\ r.session = s => q = r
                      /\ \A q \in rtcpList, w \in wire :
                             q.session = s /\ w.session = s => w.top <= q.top
    BY DEF FeedbackRight
  <2>1. ProbeKnows(s)
    BY ProbeKnowsIs DEF FeedbackInv
  <2>2. ReportsInv /\ OrderInv
    BY DEF FeedbackInv
  <2> QED BY <2>1, <2>2 DEF ReportsInv, OrderInv
<1> QED BY <1>1, FeedbackInvAlways, PTL
=============================================================================
