------------------------------ MODULE ReplayProof ------------------------------
(***************************************************************************)
(* Theorems about the twin and about its replays, for any reports,         *)
(* profiles, intervals, capacities and bounds.                             *)
(*                                                                         *)
(* The first part is about DigitalTwin alone.  Its proofs need three       *)
(* strengthenings.  FlagsAgree ties the instance's edge-detection flags to *)
(* its report, without which neither the views of the diagnosis nor the    *)
(* alerts can be followed from step to step.  Behind orders the            *)
(* repository's records with the running instance: those of its own        *)
(* initialization are behind it in step and in time, and no record is of   *)
(* an initialization to come.  AcceptedIsNotSkewed is inductive with the   *)
(* types.                                                                  *)
(*                                                                         *)
(* The second part is about Replay: what is replayed in order is accepted  *)
(* in order, and what a replay collects is one run of the twin.  The live  *)
(* twin goes on between the replays, so the types of its variables and the *)
(* order of its telemetry are kept by its own actions as by those of a     *)
(* replay.                                                                 *)
(*                                                                         *)
(* The third part is about what the replays are made from and what is      *)
(* computed of them: the samples of a profile have its points and the      *)
(* phases of its schedule (ProfileMade says what the profile of a run is), *)
(* and the figures of error bound one another.  Its lemmas are about the   *)
(* arithmetic of both: Euclid's algorithm, fractions, sums of sequences    *)
(* and sequences joined.  A recursive definition is shown to be that of a  *)
(* function, and what it computes by the least number at which it could    *)
(* fail.                                                                   *)
(***************************************************************************)
EXTENDS Replay, FractionsProof, SequenceTheorems, FiniteSetTheorems

-----------------------------------------------------------------------------
(* The operators on sequences.                                             *)

\* What KeepLast keeps is a suffix, of at most n elements, with the same end.
LEMMA KeepLastIsSuffix ==
  ASSUME NEW S, NEW s \in Seq(S), NEW n \in Nat \ {0}
  PROVE  /\ KeepLast(s, n) \in Seq(S)
         /\ Len(KeepLast(s, n)) <= n
         /\ \E d \in Nat :
              /\ Len(KeepLast(s, n)) = Len(s) - d
              /\ \A i \in 1..Len(KeepLast(s, n)) : KeepLast(s, n)[i] = s[i + d]
         /\ s # <<>> => /\ KeepLast(s, n) # <<>>
                        /\ KeepLast(s, n)[Len(KeepLast(s, n))] = s[Len(s)]
<1> DEFINE k == KeepLast(s, n)
<1>1. CASE Len(s) > n
  <2>1. PICK e \in Nat : e = Len(s) - n
    BY <1>1
  <2>2. k = SubSeq(s, e + 1, Len(s))
    <3>1. Len(s) - n + 1 = e + 1
      BY <2>1
    <3>. QED  BY <1>1, <3>1 DEF KeepLast
  <2>3. k \in Seq(S) /\ Len(k) = n /\ \A i \in 1..n : k[i] = s[e + 1 + i - 1]
    <3>1. \A i \in (e + 1)..Len(s) : s[i] \in S
      BY <2>1, ElementOfSeq
    <3>2. e + 1 \in Int /\ Len(s) \in Int /\ e + 1 <= Len(s) /\ Len(s) - (e + 1) + 1 = n
      BY <1>1, <2>1
    <3>. QED  BY <2>2, <3>1, <3>2, SubSeqProperties
  <2>. HIDE DEF k
  <2>4. \A i \in 1..n : k[i] = s[i + e]
    <3>. TAKE i \in 1..n
    <3>1. e + 1 + i - 1 = i + e
      BY <2>1
    <3>. QED  BY <2>3, <3>1
  <2>5. Len(k) = Len(s) - e
    BY <2>1, <2>3
  <2>6. \E d \in Nat : Len(k) = Len(s) - d /\ \A i \in 1..Len(k) : k[i] = s[i + d]
    BY <2>1, <2>3, <2>4, <2>5
  <2>7. k # <<>> /\ k[Len(k)] = s[Len(s)]
    <3>1. n \in 1..n /\ n + e = Len(s)
      BY <2>1
    <3>. QED  BY <2>3, <2>4, <3>1
  <2>8. k \in Seq(S) /\ Len(k) <= n
    BY <2>3
  <2>. QED  BY <2>6, <2>7, <2>8 DEF k
<1>2. CASE ~(Len(s) > n)
  <2>1. k = s
    BY <1>2 DEF KeepLast
  <2>2. Len(s) \in Nat /\ Len(s) <= n
    BY <1>2
  <2>3. Len(s) = Len(s) - 0 /\ \A i \in 1..Len(s) : s[i] = s[i + 0]
    BY <2>2
  <2>. QED  BY <2>1, <2>2, <2>3
<1>. QED  BY <1>1, <1>2

\* Insert makes room for its element and moves nothing else.
LEMMA InsertShifts ==
  ASSUME NEW S, NEW s \in Seq(S), NEW e \in S, NEW i \in 1..Len(s) + 1
  PROVE  /\ Insert(s, i, e) \in Seq(S)
         /\ Len(Insert(s, i, e)) = Len(s) + 1
         /\ \A k \in 1..Len(s) + 1 :
              /\ k < i => Insert(s, i, e)[k] = s[k]
              /\ k = i => Insert(s, i, e)[k] = e
              /\ k > i => Insert(s, i, e)[k] = s[k - 1]
<1> DEFINE t == Insert(s, i, e)
<1>1. Len(s) \in Nat /\ Len(s) + 1 \in Nat /\ i \in Nat
  OBVIOUS
<1>2. t = [k \in 1..Len(s) + 1 |->
             IF k < i THEN s[k] ELSE IF k = i THEN e ELSE s[k - 1]]
  BY DEF Insert
<1>3. \A k \in 1..Len(s) + 1 :
        (IF k < i THEN s[k] ELSE IF k = i THEN e ELSE s[k - 1]) \in S
  <2> TAKE k \in 1..Len(s) + 1
  <2>1. CASE k < i
    BY <2>1, <1>1
  <2>2. CASE k = i
    BY <2>2
  <2>3. CASE k > i
    <3>1. k - 1 \in 1..Len(s)
      BY <2>3, <1>1
    <3>. QED  BY <2>3, <3>1, <1>1
  <2>. QED  BY <2>1, <2>2, <2>3, <1>1
<1>4. t \in [1..Len(s) + 1 -> S]
  BY <1>2, <1>3, Zenon
<1>5. t \in Seq(S) /\ Len(t) = Len(s) + 1
  BY <1>1, <1>4, SeqDef, LenProperties
<1>6. \A k \in 1..Len(s) + 1 :
        t[k] = IF k < i THEN s[k] ELSE IF k = i THEN e ELSE s[k - 1]
  BY <1>2, Zenon
<1>7. ASSUME NEW k \in 1..Len(s) + 1
      PROVE  /\ k < i => t[k] = s[k]
             /\ k = i => t[k] = e
             /\ k > i => t[k] = s[k - 1]
  BY <1>1, <1>6
<1>. QED  BY <1>5, <1>7

-----------------------------------------------------------------------------
(* The strengthenings.                                                     *)

\* What the instance remembers of its last assessment is its report.
FlagsAgree ==
  /\ twin.lastLifecycle = twin.report
  /\ twin.lastCritical = (twin.report = Critical)

\* The records of the running initialization are behind the instance.
Behind ==
  \A i \in 1..Len(records) :
    /\ records[i].epoch <= epoch
    /\ twin.initialized /\ records[i].epoch = epoch =>
         /\ records[i].step <= twin.stepCount
         /\ records[i].time <= twin.prevTime

\* An initialized instance has been through an initialization.
Started == twin.initialized => epoch # 0

\* HistoryInStepOrder of any sequence of records.
Ordered(s) ==
  \A i, j \in 1..Len(s) :
    i < j => /\ s[i].time <= s[j].time
             /\ s[i].epoch = s[j].epoch /\ s[i].epoch # 0 => s[i].step < s[j].step

-----------------------------------------------------------------------------
(* The repositories.                                                       *)

\* The telemetry repository keeps its type and its capacity.
LEMMA TelemetryKept ==
  ASSUME TypeOK, NEW t \in Time, TelemetryStored(t)
  PROVE  telemetry' \in Seq(Time) /\ Len(telemetry') <= MaxRecords
<1>1. PICK i \in 1..Len(telemetry) + 1 : telemetry' = KeepLast(Insert(telemetry, i, t), MaxRecords)
  BY DEF TelemetryStored
<1>2. telemetry \in Seq(Time)
  BY DEF TypeOK
<1>3. Insert(telemetry, i, t) \in Seq(Time)
  BY <1>2, InsertShifts
<1>4. MaxRecords \in Nat \ {0}
  BY TwinAssumption
<1>. QED  BY <1>1, <1>3, <1>4, KeepLastIsSuffix

\* The fields of a record are numbers.
LEMMA RecordFields ==
  ASSUME NEW r \in Record
  PROVE  r.time \in Nat \ {0} /\ r.epoch \in Nat /\ r.step \in Nat
BY TwinAssumption DEF Record, Time

\* A suffix of an ordered sequence is ordered.
LEMMA SuffixOrdered ==
  ASSUME NEW s \in Seq(Record), Ordered(s), NEW n \in Nat \ {0}
  PROVE  Ordered(KeepLast(s, n))
<1> DEFINE k == KeepLast(s, n)
<1>1. PICK d \in Nat : /\ Len(k) = Len(s) - d
                      /\ \A i \in 1..Len(k) : k[i] = s[i + d]
  BY KeepLastIsSuffix
<1>2. Len(s) \in Nat
  OBVIOUS
<1>. HIDE DEF k
<1>3. ASSUME NEW i \in 1..Len(k), NEW j \in 1..Len(k), i < j
      PROVE  /\ k[i].time <= k[j].time
             /\ k[i].epoch = k[j].epoch /\ k[i].epoch # 0 => k[i].step < k[j].step
  <2>1. i + d \in 1..Len(s) /\ j + d \in 1..Len(s) /\ i + d < j + d
    BY <1>1, <1>2, <1>3
  <2>2. k[i] = s[i + d] /\ k[j] = s[j + d]
    BY <1>1
  <2>. QED  BY <2>1, <2>2 DEF Ordered
<1>. QED  BY <1>3 DEF Ordered, k

\* A record inserted after everything that is not later keeps the order when
\* it is ahead of the records of its own initialization.
LEMMA InsertOrdered ==
  ASSUME NEW s \in Seq(Record), Ordered(s), NEW r \in Record,
         NEW i \in 1..Len(s) + 1,
         \A k \in 1..Len(s) : k < i <=> s[k].time <= r.time,
         \A k \in 1..Len(s) :
           s[k].epoch = r.epoch /\ r.epoch # 0 => s[k].step < r.step /\ s[k].time <= r.time
  PROVE  Ordered(Insert(s, i, r))
<1> DEFINE t == Insert(s, i, r)
<1>1. /\ Len(t) = Len(s) + 1
      /\ \A k \in 1..Len(s) + 1 : /\ k < i => t[k] = s[k]
                                  /\ k = i => t[k] = r
                                  /\ k > i => t[k] = s[k - 1]
  BY InsertShifts
<1>2. Len(s) \in Nat
  OBVIOUS
<1>3. \A k \in 1..Len(s) : s[k].time \in Int /\ s[k].epoch \in Int /\ s[k].step \in Int
  <2> TAKE k \in 1..Len(s)
  <2>1. s[k] \in Record
    BY ElementOfSeq
  <2>. QED  BY <2>1, RecordFields
<1>4. r.time \in Int /\ r.epoch \in Int /\ r.step \in Int
  BY RecordFields
<1>. HIDE DEF t
<1>5. ASSUME NEW a \in 1..Len(t), NEW b \in 1..Len(t), a < b
      PROVE  /\ t[a].time <= t[b].time
             /\ t[a].epoch = t[b].epoch /\ t[a].epoch # 0 => t[a].step < t[b].step
  <2>1. a \in 1..Len(s) + 1 /\ b \in 1..Len(s) + 1
    BY <1>1
  <2>2. CASE b < i
    <3>1. a \in 1..Len(s) /\ b \in 1..Len(s) /\ a < i
      BY <2>1, <2>2, <1>2, <1>5
    <3>2. t[a] = s[a] /\ t[b] = s[b]
      BY <1>1, <2>1, <2>2, <3>1
    <3>. QED  BY <3>1, <3>2, <1>5 DEF Ordered
  <2>3. CASE b = i
    <3>1. a \in 1..Len(s) /\ a < i
      BY <2>1, <2>3, <1>2, <1>5
    <3>2. t[a] = s[a] /\ t[b] = r
      BY <1>1, <2>1, <2>3, <3>1
    <3>. QED  BY <3>1, <3>2
  <2>4. CASE a < i /\ b > i
    <3>1. a \in 1..Len(s) /\ b - 1 \in 1..Len(s) /\ a < b - 1
      BY <2>1, <2>4, <1>2
    <3>2. t[a] = s[a] /\ t[b] = s[b - 1]
      BY <1>1, <2>1, <2>4
    <3>. QED  BY <3>1, <3>2 DEF Ordered
  <2>5. CASE a = i
    <3>1. b - 1 \in 1..Len(s) /\ ~(b - 1 < i) /\ b > i
      BY <2>1, <2>5, <1>2, <1>5
    <3>2. t[a] = r /\ t[b] = s[b - 1]
      BY <1>1, <2>1, <2>5, <3>1
    <3>3. ~(s[b - 1].time <= r.time)
      BY <3>1
    <3>. QED  BY <3>1, <3>2, <3>3, <1>3, <1>4
  <2>6. CASE a > i
    <3>1. a - 1 \in 1..Len(s) /\ b - 1 \in 1..Len(s) /\ a - 1 < b - 1 /\ b > i
      BY <2>1, <2>6, <1>2, <1>5
    <3>2. t[a] = s[a - 1] /\ t[b] = s[b - 1]
      BY <1>1, <2>1, <2>6, <3>1
    <3>. QED  BY <3>1, <3>2 DEF Ordered
  <2>. QED  BY <2>1, <2>2, <2>3, <2>4, <2>5, <2>6, <1>2
<1>. QED  BY <1>5 DEF Ordered, t

\* So the state history repository keeps type, capacity and order, and what
\* it holds is the new record or was there.
LEMMA RecordsKept ==
  ASSUME TypeOK, HistoryInStepOrder, NEW r \in Record, RecordStored(r),
         \A k \in 1..Len(records) :
           records[k].epoch = r.epoch /\ r.epoch # 0 =>
             records[k].step < r.step /\ records[k].time <= r.time
  PROVE  /\ records' \in Seq(Record) /\ Len(records') <= MaxRecords
         /\ HistoryInStepOrder'
         /\ \A i \in 1..Len(records') :
              records'[i] = r \/ \E k \in 1..Len(records) : records'[i] = records[k]
<1>1. PICK i \in 1..Len(records) + 1 :
        /\ \A k \in 1..Len(records) : k < i <=> records[k].time <= r.time
        /\ records' = KeepLast(Insert(records, i, r), MaxRecords)
  BY DEF RecordStored
<1> DEFINE t == Insert(records, i, r)
<1>2. records \in Seq(Record) /\ Len(records) \in Nat /\ MaxRecords \in Nat \ {0}
  BY TwinAssumption DEF TypeOK
<1>3. Ordered(records)
  BY DEF HistoryInStepOrder, Ordered
<1>4. Ordered(t)
  BY <1>1, <1>2, <1>3, InsertOrdered
<1>5. /\ t \in Seq(Record)
      /\ Len(t) = Len(records) + 1
      /\ \A k \in 1..Len(records) + 1 : /\ k < i => t[k] = records[k]
                                        /\ k = i => t[k] = r
                                        /\ k > i => t[k] = records[k - 1]
  BY <1>2, InsertShifts
<1>. HIDE DEF t
<1>6. \A k \in 1..Len(t) : t[k] = r \/ \E m \in 1..Len(records) : t[k] = records[m]
  <2> TAKE k \in 1..Len(t)
  <2>1. k < i => k \in 1..Len(records)
    BY <1>2, <1>5
  <2>2. k > i => k - 1 \in 1..Len(records)
    BY <1>2, <1>5
  <2>. QED  BY <1>2, <1>5, <2>1, <2>2
<1>7. /\ records' \in Seq(Record) /\ Len(records') <= MaxRecords
      /\ \E d \in Nat : /\ Len(records') = Len(t) - d
                        /\ \A k \in 1..Len(records') : records'[k] = t[k + d]
      /\ Ordered(records')
  <2>1. records' = KeepLast(t, MaxRecords)
    BY <1>1 DEF t
  <2>2. Ordered(KeepLast(t, MaxRecords))
    BY <1>2, <1>4, <1>5, SuffixOrdered
  <2> DEFINE u == KeepLast(t, MaxRecords)
  <2>3. u \in Seq(Record) /\ Len(u) <= MaxRecords
    BY <1>2, <1>5, KeepLastIsSuffix
  <2>4. \E d \in Nat : Len(u) = Len(t) - d /\ \A k \in 1..Len(u) : u[k] = t[k + d]
    BY <1>2, <1>5, KeepLastIsSuffix
  <2>. HIDE DEF u
  <2>5. records' = u /\ Ordered(u)
    BY <2>1, <2>2 DEF u
  <2>. QED  BY <2>3, <2>4, <2>5
<1>8. HistoryInStepOrder'
  BY <1>7 DEF HistoryInStepOrder, Ordered
<1>9. \A k \in 1..Len(records') : \E m \in 1..Len(t) : records'[k] = t[m]
  <2>1. PICK d \in Nat : /\ Len(records') = Len(t) - d
                        /\ \A k \in 1..Len(records') : records'[k] = t[k + d]
    BY <1>7
  <2>2. Len(t) \in Nat
    BY <1>5
  <2> TAKE k \in 1..Len(records')
  <2>3. k + d \in 1..Len(t)
    BY <2>1, <2>2
  <2>. QED  BY <2>1, <2>3
<1>. QED  BY <1>6, <1>7, <1>8, <1>9

-----------------------------------------------------------------------------
(* The instance.                                                           *)

Inv ==
  /\ TypeOK
  /\ FlagsAgree
  /\ DiagnosisViewsAgree
  /\ AcceptedIsNotSkewed
  /\ HistoryInStepOrder
  /\ Behind
  /\ Started

\* What the action property says of one step.
AlertStep == alerts' = alerts + (IF BecomesCritical THEN 1 ELSE 0)

\* Times and the absence of one are numbers.
LEMMA TimeIsNat ==
  ASSUME NEW p \in {Never} \union Time
  PROVE  p \in Nat
BY TwinAssumption DEF Time, Never

\* The sets of the types, as the constants' assumption gives them.
LEMMA Sorts ==
  /\ Time \subseteq Nat \ {0}
  /\ Never = 0
  /\ Critical \in Lifecycle /\ NoLifecycle \notin Lifecycle
  /\ HistoryLength \in Nat \ {0} /\ MaxRecords \in Nat \ {0} /\ Heartbeat \in Nat \ {0}
BY TwinAssumption DEF Time, Never

\* A new instance, and one that is initialized, are instances with no report.
LEMMA NewInstanceType ==
  /\ NewInstance \in Instance
  /\ NewInstance.initialized = FALSE
  /\ NewInstance.report = NoLifecycle
  /\ NewInstance.lastLifecycle = NoLifecycle
  /\ NewInstance.lastCritical = FALSE
BY DEF NewInstance, Instance

LEMMA InitializeType ==
  ASSUME NEW t \in Instance
  PROVE  /\ Initialize(t) \in Instance
         /\ Initialize(t).initialized = TRUE
         /\ Initialize(t).prevTime = Never
         /\ Initialize(t).stepCount = 0
         /\ Initialize(t).report = NoLifecycle
         /\ Initialize(t).lastLifecycle = NoLifecycle
         /\ Initialize(t).lastCritical = FALSE
BY DEF Initialize, Instance

\* What a step works on is initialized: the instance as it is, or with the
\* report, the time and the count of a fresh initialization.
LEMMA ReadyType ==
  ASSUME TypeOK
  PROVE  /\ Ready \in Instance
         /\ Ready.initialized = TRUE
         /\ twin.initialized => Ready = twin
         /\ ~twin.initialized => /\ Ready.prevTime = Never
                                /\ Ready.stepCount = 0
                                /\ Ready.report = NoLifecycle
                                /\ Ready.lastLifecycle = NoLifecycle
                                /\ Ready.lastCritical = FALSE
<1>1. twin \in Instance
  BY DEF TypeOK
<1>2. CASE twin.initialized
  <2>1. twin.initialized = TRUE
    BY <1>1, <1>2 DEF Instance
  <2>. QED  BY <1>1, <1>2, <2>1 DEF Ready
<1>3. CASE ~twin.initialized
  BY <1>1, <1>3, InitializeType DEF Ready
<1>. QED  BY <1>2, <1>3

\* No record is of an initialization to come.
LEMMA NothingAhead ==
  ASSUME Inv, epoch' = epoch + 1, UNCHANGED records
  PROVE  Behind'
<1>1. \A i \in 1..Len(records) : records[i].epoch <= epoch /\ records[i].epoch \in Nat
  BY RecordFields, ElementOfSeq DEF Inv, Behind, TypeOK
<1>2. epoch \in Nat
  BY DEF Inv, TypeOK
<1>. QED  BY <1>1, <1>2 DEF Behind

\* The validator's entries are times, or the absence of one.
LEMMA EntriesAreTimes ==
  ASSUME TypeOK
  PROVE  \A n \in Names : lastTimestamp[n] \in Nat
<1>. SUFFICES ASSUME NEW n \in Names  PROVE lastTimestamp[n] \in Nat
  OBVIOUS
<1>1. lastTimestamp[n] \in {Never} \union Time
  BY DEF TypeOK
<1>. QED  BY <1>1, TimeIsNat

\* The invariant survives whatever leaves the repositories and the validator
\* alone and makes an instance without a report.
LEMMA RestartKept ==
  ASSUME Inv, registered' \in BOOLEAN, fedAs' \subseteq Names \union {Direct},
         twin' \in Instance, twin'.report = NoLifecycle,
         twin'.lastLifecycle = NoLifecycle, twin'.lastCritical = FALSE,
         \/ twin'.initialized /\ twin'.prevTime = Never /\ epoch' = epoch + 1
         \/ ~twin'.initialized /\ epoch' = epoch,
         history' = history \/ history' = <<>>,
         UNCHANGED <<lastTimestamp, telemetry, records, told, alerts, snapshots>>
  PROVE  Inv' /\ AlertStep
<1>1. TypeOK'
  <2>1. history' \in Seq(Lifecycle) /\ Len(history') <= HistoryLength
    <3>1. <<>> \in Seq(Lifecycle) /\ Len(<<>>) <= HistoryLength
      BY Sorts, EmptySeq
    <3>2. history \in Seq(Lifecycle) /\ Len(history) <= HistoryLength
      BY DEF Inv, TypeOK
    <3>. QED  BY <3>1, <3>2
  <2>2. epoch' \in Nat
    BY DEF Inv, TypeOK
  <2>3. /\ lastTimestamp' \in [Names -> {Never} \union Time]
        /\ telemetry' \in Seq(Time) /\ Len(telemetry') <= MaxRecords
        /\ records' \in Seq(Record) /\ Len(records') <= MaxRecords
        /\ told' \in Lifecycle \union {NoLifecycle}
        /\ alerts' \in Nat /\ snapshots' \in Nat
    BY DEF Inv, TypeOK
  <2>. QED  BY <2>1, <2>2, <2>3 DEF TypeOK
<1>2. FlagsAgree'
  BY Sorts DEF FlagsAgree
<1>3. DiagnosisViewsAgree'
  BY DEF DiagnosisViewsAgree
<1>4. AcceptedIsNotSkewed'
  <2>1. \A n \in Names : lastTimestamp[n] \in Nat
    BY EntriesAreTimes DEF Inv
  <2>. QED  BY <2>1, Sorts DEF AcceptedIsNotSkewed
<1>5. HistoryInStepOrder' /\ Started'
  BY DEF Inv, HistoryInStepOrder, Started, TypeOK
<1>6. Behind'
  <2>1. CASE epoch' = epoch + 1
    BY <2>1, NothingAhead
  <2>2. CASE ~twin'.initialized /\ epoch' = epoch
    BY <2>2 DEF Inv, Behind
  <2>. QED  BY <2>1, <2>2
<1>7. AlertStep
  <2>1. ~BecomesCritical
    BY Sorts DEF BecomesCritical
  <2>2. alerts \in Nat
    BY DEF Inv, TypeOK
  <2>. QED  BY <2>1, <2>2 DEF AlertStep
<1>. QED  BY <1>1, <1>2, <1>3, <1>4, <1>5, <1>6, <1>7 DEF Inv

-----------------------------------------------------------------------------
(* A step.                                                                 *)

\* What every snapshot that reaches the twin does to the variables a step
\* shares, and where it leaves the validator: with the snapshot's time for its
\* name when it came through the pipeline.
Fed(time, as, ours) ==
  /\ Received(time, as, ours)
  /\ \/ /\ as \in Names
        /\ time >= lastTimestamp[as]
        /\ lastTimestamp' = [lastTimestamp EXCEPT ![as] = time]
     \/ as = Direct /\ UNCHANGED lastTimestamp

LEMMA FedOtherwise ==
  ASSUME TypeOK, NEW time \in Time, NEW as, NEW ours \in BOOLEAN, Fed(time, as, ours)
  PROVE  /\ registered' \in BOOLEAN /\ fedAs' \subseteq Names \union {Direct}
         /\ lastTimestamp' \in [Names -> {Never} \union Time]
         /\ epoch' \in Nat /\ snapshots' \in Nat
<1>1. registered' \in BOOLEAN /\ epoch' \in Nat /\ snapshots' \in Nat
  BY DEF Fed, Received, TypeOK
<1>2. fedAs' \subseteq Names \union {Direct}
  BY DEF Fed, Received, TypeOK
<1>3. lastTimestamp' \in [Names -> {Never} \union Time]
  BY DEF Fed, TypeOK
<1>. QED  BY <1>1, <1>2, <1>3

LEMMA FedType ==
  ASSUME TypeOK, NEW time \in Time, NEW as, NEW ours \in BOOLEAN, Fed(time, as, ours)
  PROVE  /\ registered' \in BOOLEAN /\ fedAs' \subseteq Names \union {Direct}
         /\ lastTimestamp' \in [Names -> {Never} \union Time]
         /\ telemetry' \in Seq(Time) /\ Len(telemetry') <= MaxRecords
         /\ epoch' \in Nat /\ snapshots' \in Nat
<1>1. CASE ours
  <2>1. TelemetryStored(time)
    BY <1>1 DEF Fed, Received
  <2>. QED  BY <2>1, TelemetryKept, FedOtherwise
<1>2. CASE ~ours
  <2>1. telemetry' = telemetry
    BY <1>2 DEF Fed, Received
  <2>2. telemetry' \in Seq(Time) /\ Len(telemetry') <= MaxRecords
    BY <2>1 DEF TypeOK
  <2>. QED  BY <2>2, FedOtherwise
<1>. QED  BY <1>1, <1>2

\* A twin that only one name has fed is not ahead of the validator's entry of
\* the name: nor is a fresh initialization.
LEMMA FedNotSkewed ==
  ASSUME TypeOK, AcceptedIsNotSkewed, NEW time \in Time, NEW as, NEW ours \in BOOLEAN,
         Fed(time, as, ours), twin'.prevTime \in {Ready.prevTime, time}
  PROVE  AcceptedIsNotSkewed'
<1>. SUFFICES ASSUME NEW n \in Names, fedAs' \subseteq {n}
     PROVE  twin'.prevTime <= lastTimestamp'[n]
  BY DEF AcceptedIsNotSkewed
<1>1. time \in Nat /\ Never = 0 /\ lastTimestamp[n] \in Nat
  BY Sorts, EntriesAreTimes
<1>2. as = n /\ as \in Names
  BY DEF Fed, Received
<1>3. time >= lastTimestamp[n] /\ lastTimestamp'[n] = time
  BY <1>2, TwinAssumption DEF Fed, TypeOK
<1>4. CASE twin'.prevTime = time
  BY <1>1, <1>3, <1>4
<1>5. CASE twin'.prevTime = Ready.prevTime /\ ~twin.initialized
  <2>1. twin'.prevTime = 0
    BY <1>1, <1>5, ReadyType
  <2>. QED  BY <1>1, <1>3, <2>1
<1>6. CASE twin'.prevTime = Ready.prevTime /\ twin.initialized
  <2>1. registered /\ fedAs \subseteq {n} /\ Ready = twin
    BY <1>6, ReadyType DEF Fed, Received
  <2>2. twin.prevTime <= lastTimestamp[n]
    BY <1>6, <2>1 DEF AcceptedIsNotSkewed
  <2>3. twin.prevTime \in {Never} \union Time
    BY DEF TypeOK, Instance
  <2>4. twin.prevTime \in Nat
    BY <2>3, TimeIsNat
  <2>. QED  BY <1>1, <1>3, <1>6, <2>1, <2>2, <2>4
<1>. QED  BY <1>4, <1>5, <1>6

\* A step initializes what was not.
LEMMA FedStarted ==
  ASSUME Inv, NEW time \in Time, NEW as, NEW ours \in BOOLEAN, Fed(time, as, ours)
  PROVE  Started' /\ epoch' # 0
BY DEF Inv, TypeOK, Started, Fed, Received

\* A failed step leaves the instance as it works on it, but for the model.
LEMMA FailureKept ==
  ASSUME Inv, NEW time \in Time, NEW as, NEW ours \in BOOLEAN, Fed(time, as, ours), StepFails(time, as, ours)
  PROVE  Inv' /\ AlertStep
<1>1. TypeOK
  BY DEF Inv
<1>2. /\ twin' \in Instance
      /\ twin'.initialized = TRUE
      /\ twin'.prevTime = Ready.prevTime /\ twin'.stepCount = Ready.stepCount
      /\ twin'.report = Ready.report
      /\ twin'.lastLifecycle = Ready.lastLifecycle
      /\ twin'.lastCritical = Ready.lastCritical
  <2>1. Ready \in Instance /\ Ready.initialized = TRUE
    BY <1>1, ReadyType
  <2>2. twin' = Ready \/ twin' = [Ready EXCEPT !.model = @ + 1]
    BY DEF StepFails
  <2>. HIDE DEF Ready
  <2>. QED  BY <2>1, <2>2 DEF Instance
<1>3. UNCHANGED <<history, records, told, alerts>>
  BY DEF StepFails
<1>4. TypeOK'
  BY <1>1, <1>2, <1>3, FedType DEF TypeOK
<1>5. FlagsAgree' /\ DiagnosisViewsAgree' /\ Behind' /\ ~BecomesCritical
  <2>1. CASE twin.initialized
    <3>1. Ready = twin /\ epoch' = epoch
      BY <1>1, <2>1, ReadyType DEF Fed, Received
    <3>2. FlagsAgree'
      BY <1>2, <3>1 DEF Inv, FlagsAgree
    <3>3. DiagnosisViewsAgree'
      BY <1>2, <1>3, <3>1 DEF Inv, DiagnosisViewsAgree
    <3>4. Behind'
      BY <1>2, <1>3, <2>1, <3>1 DEF Inv, Behind
    <3>5. ~BecomesCritical
      BY <1>2, <2>1, <3>1 DEF BecomesCritical
    <3>. QED  BY <3>2, <3>3, <3>4, <3>5
  <2>2. CASE ~twin.initialized
    <3>1. /\ twin'.report = NoLifecycle /\ twin'.lastLifecycle = NoLifecycle
          /\ twin'.lastCritical = FALSE
          /\ epoch' = epoch + 1
      BY <1>1, <1>2, <2>2, ReadyType DEF Fed, Received
    <3>2. FlagsAgree' /\ DiagnosisViewsAgree' /\ ~BecomesCritical
      BY <3>1, Sorts DEF FlagsAgree, DiagnosisViewsAgree, BecomesCritical
    <3>3. Behind'
      BY <1>3, <3>1, NothingAhead
    <3>. QED  BY <3>2, <3>3
  <2>. QED  BY <2>1, <2>2
<1>6. AcceptedIsNotSkewed'
  BY <1>1, <1>2, FedNotSkewed DEF Inv
<1>7. HistoryInStepOrder' /\ Started'
  <2>1. Started'
    BY <1>1, FedStarted
  <2>. QED  BY <1>3, <2>1 DEF Inv, HistoryInStepOrder
<1>8. AlertStep
  BY <1>1, <1>3, <1>5 DEF AlertStep, TypeOK
<1>. QED  BY <1>4, <1>5, <1>6, <1>7, <1>8 DEF Inv

\* A step that succeeds is ahead of every record of its own initialization.
LEMMA StepIsAhead ==
  ASSUME Inv, NEW time \in Time, NEW as, NEW ours \in BOOLEAN, Received(time, as, ours), ~Skewed(time),
         NEW k \in 1..Len(records), records[k].epoch = epoch'
  PROVE  records[k].step < Ready.stepCount + 1 /\ records[k].time <= time
<1>1. records[k] \in Record
  BY ElementOfSeq DEF Inv, TypeOK
<1>2. records[k].epoch \in Nat /\ records[k].step \in Nat /\ records[k].time \in Nat
  BY <1>1, RecordFields
<1>3. epoch \in Nat /\ records[k].epoch <= epoch
  BY DEF Inv, TypeOK, Behind
<1>4. twin.initialized
  BY <1>2, <1>3 DEF Received
<1>5. Ready = twin /\ epoch' = epoch
  BY <1>4, ReadyType DEF Inv, Received
<1>6. records[k].step <= twin.stepCount /\ records[k].time <= twin.prevTime
  BY <1>4, <1>5 DEF Inv, Behind
<1>7. twin.stepCount \in Nat /\ twin.prevTime \in {Never} \union Time
  BY DEF Inv, TypeOK, Instance
<1>8. twin.prevTime \in Nat /\ time \in Nat
  BY <1>7, TimeIsNat
<1>9. twin.prevTime = Never \/ ~(time < twin.prevTime)
  BY <1>5 DEF Skewed
<1>. QED  BY <1>2, <1>5, <1>6, <1>7, <1>8, <1>9, Sorts

\* A step that succeeds ends with a report, or without the engines' one.
Ended(time, r) ==
  LET t == Synchronized(Ready, time) IN
    \/ \E l \in Lifecycle : Assessed(t, r, l)
    \/ twin' = Tracked(t, r) /\ UNCHANGED <<told, alerts>>

\* What a step that succeeds makes of the instance: it carries the record's
\* step and time, and its report is an assessment or what it was.
LEMMA SuccessfulInstance ==
  ASSUME TypeOK, NEW time \in Time, NEW r \in Record, Ended(time, r)
  PROVE  /\ twin' \in Instance
         /\ twin'.initialized = TRUE
         /\ twin'.prevTime = time /\ twin'.stepCount = Ready.stepCount + 1
         /\ \/ /\ twin'.report \in Lifecycle
               /\ twin'.lastCritical = (twin'.report = Critical)
               /\ twin'.lastLifecycle = twin'.report
               /\ told' = twin'.report \/ (told' = told /\ Ready.lastLifecycle = twin'.report)
               /\ alerts' = IF twin'.report = Critical /\ ~Ready.lastCritical
                            THEN alerts + 1 ELSE alerts
            \/ /\ twin'.report = Ready.report
               /\ twin'.lastCritical = Ready.lastCritical
               /\ twin'.lastLifecycle = Ready.lastLifecycle
               /\ UNCHANGED <<told, alerts>>
<1> DEFINE t == Synchronized(Ready, time)
           u == Tracked(t, r)
<1>1. Ready \in Instance /\ Ready.initialized = TRUE
  BY ReadyType
<1>2. /\ t \in Instance /\ t.initialized = TRUE
      /\ t.prevTime = time /\ t.stepCount = Ready.stepCount + 1
      /\ t.report = Ready.report /\ t.lastCritical = Ready.lastCritical
      /\ t.lastLifecycle = Ready.lastLifecycle
  <2>1. t = [Ready EXCEPT !.model = @ + 1, !.estimator = @ + 1,
                          !.prevTime = time, !.stepCount = @ + 1]
    BY DEF Synchronized
  <2>. HIDE DEF Ready, t
  <2>2. /\ Ready.model + 1 \in Nat /\ Ready.estimator + 1 \in Nat
        /\ Ready.stepCount + 1 \in Nat /\ time \in {Never} \union Time
    BY <1>1 DEF Instance
  <2>3. t \in Instance
    BY <1>1, <2>1, <2>2 DEF Instance
  <2>4. /\ t.initialized = TRUE
        /\ t.prevTime = time /\ t.stepCount = Ready.stepCount + 1
        /\ t.report = Ready.report /\ t.lastCritical = Ready.lastCritical
        /\ t.lastLifecycle = Ready.lastLifecycle
    BY <1>1, <2>1 DEF Instance
  <2>. QED  BY <2>3, <2>4
<1>3. (\E l \in Lifecycle : Assessed(t, r, l))
        \/ (twin' = u /\ UNCHANGED <<told, alerts>>)
  BY DEF Ended
<1>. HIDE DEF t
<1>4. /\ u \in Instance /\ u.initialized = TRUE
      /\ u.prevTime = time /\ u.stepCount = Ready.stepCount + 1
      /\ u.report = Ready.report /\ u.lastCritical = Ready.lastCritical
      /\ u.lastLifecycle = Ready.lastLifecycle
  <2>1. t.totalSteps + 1 \in Nat /\ r \in Record \union {NoRecord}
    BY <1>2 DEF Instance
  <2>2. u = [t EXCEPT !.latest = r, !.totalSteps = @ + 1]
    BY DEF Tracked
  <2>. HIDE DEF u
  <2>3. u \in Instance
    BY <1>2, <2>1, <2>2 DEF Instance
  <2>4. /\ u.initialized = t.initialized /\ u.prevTime = t.prevTime
        /\ u.stepCount = t.stepCount /\ u.report = t.report
        /\ u.lastCritical = t.lastCritical /\ u.lastLifecycle = t.lastLifecycle
    BY <1>2, <2>2 DEF Instance
  <2>. QED  BY <1>2, <2>3, <2>4
<1>. HIDE DEF u
<1>5. ASSUME NEW l \in Lifecycle, Assessed(t, r, l)
      PROVE  /\ twin' \in Instance
             /\ twin'.initialized = TRUE
             /\ twin'.prevTime = time /\ twin'.stepCount = Ready.stepCount + 1
             /\ twin'.report = l
             /\ twin'.lastCritical = (l = Critical)
             /\ twin'.lastLifecycle = l
             /\ told' = l \/ (told' = told /\ Ready.lastLifecycle = l)
             /\ alerts' = IF l = Critical /\ ~Ready.lastCritical THEN alerts + 1 ELSE alerts
  <2>1. PICK publish \in BOOLEAN :
          /\ ~publish => t.lastLifecycle = l
          /\ twin' = [u EXCEPT !.report = l, !.lastCritical = (l = Critical),
                               !.lastLifecycle = IF publish THEN l ELSE @]
          /\ told' = IF publish THEN l ELSE told
          /\ alerts' = IF l = Critical /\ ~t.lastCritical THEN alerts + 1 ELSE alerts
    BY <1>5 DEF Assessed, u
  <2>2. twin' = [u EXCEPT !.report = l, !.lastCritical = (l = Critical), !.lastLifecycle = l]
    BY <1>2, <1>4, <2>1 DEF Instance
  <2>3. (l = Critical) \in BOOLEAN
    OBVIOUS
  <2>4. /\ twin' \in Instance
        /\ twin'.initialized = TRUE
        /\ twin'.prevTime = time /\ twin'.stepCount = Ready.stepCount + 1
        /\ twin'.report = l
        /\ twin'.lastCritical = (l = Critical)
        /\ twin'.lastLifecycle = l
    BY <1>4, <2>2, <2>3 DEF Instance
  <2>. QED  BY <1>2, <2>1, <2>4
<1>. QED  BY <1>3, <1>4, <1>5

\* The list of reports gets the twin's report at its end.
LEMMA HistoryExtended ==
  ASSUME TypeOK, twin'.report \in Lifecycle \union {NoLifecycle},
         history' = IF twin'.report = NoLifecycle THEN history
                    ELSE KeepLast(Append(history, twin'.report), HistoryLength)
  PROVE  /\ history' \in Seq(Lifecycle) /\ Len(history') <= HistoryLength
         /\ twin'.report # NoLifecycle =>
              history' # <<>> /\ history'[Len(history')] = twin'.report
<1>1. history \in Seq(Lifecycle) /\ Len(history) <= HistoryLength
  BY DEF TypeOK
<1>2. CASE twin'.report = NoLifecycle
  BY <1>1, <1>2
<1>3. CASE twin'.report # NoLifecycle
  <2>1. PICK l \in Lifecycle : l = twin'.report
    BY <1>3
  <2>2. PICK s \in Seq(Lifecycle) : s = Append(history, l) /\ s # <<>> /\ s[Len(s)] = l
    <3>1. /\ Append(history, l) \in Seq(Lifecycle)
          /\ Len(Append(history, l)) = Len(history) + 1
          /\ Append(history, l)[Len(history) + 1] = l
      BY <1>1, AppendProperties
    <3>2. Append(history, l) # <<>>
      BY <1>1, <3>1
    <3>. QED  BY <3>1, <3>2
  <2>3. history' = KeepLast(s, HistoryLength)
    BY <1>3, <2>1, <2>2
  <2>4. /\ KeepLast(s, HistoryLength) \in Seq(Lifecycle)
        /\ Len(KeepLast(s, HistoryLength)) <= HistoryLength
        /\ KeepLast(s, HistoryLength) # <<>>
        /\ KeepLast(s, HistoryLength)[Len(KeepLast(s, HistoryLength))] = s[Len(s)]
    BY <2>2, Sorts, KeepLastIsSuffix
  <2>. QED  BY <1>3, <2>1, <2>2, <2>3, <2>4
<1>. QED  BY <1>2, <1>3

\* A step that succeeds.
LEMMA SuccessKept ==
  ASSUME Inv, NEW time \in Time, NEW as, NEW ours \in BOOLEAN, Fed(time, as, ours), StepSucceeds(time, as, ours)
  PROVE  Inv' /\ AlertStep
<1>1. TypeOK
  BY DEF Inv
<1>2. Received(time, as, ours) /\ ~Skewed(time)
  BY DEF StepSucceeds
<1>3. Ready \in Instance /\ Ready.stepCount \in Nat
  BY <1>1, ReadyType DEF Instance
<1>4. PICK r \in Record :
        /\ r = [epoch |-> epoch', step |-> Ready.stepCount + 1, time |-> time]
        /\ ours => RecordStored(r)
        /\ ~ours => records' = records
        /\ Ended(time, r)
  <2> DEFINE t == Synchronized(Ready, time)
             q == [epoch |-> epoch', step |-> t.stepCount, time |-> time]
  <2>1. t.stepCount = Ready.stepCount + 1
    <3>. HIDE DEF Ready
    <3>. QED  BY <1>3 DEF Synchronized, Instance
  <2>2. epoch' \in Nat
    BY <1>1, FedType
  <2>3. q \in Record
    BY <1>3, <2>1, <2>2 DEF Record
  <2>4. (ours => RecordStored(q)) /\ (~ours => records' = records) /\ Ended(time, q)
    BY DEF StepSucceeds, Ended
  <2>. QED  BY <2>1, <2>3, <2>4
<1>5. \A k \in 1..Len(records) :
        records[k].epoch = r.epoch => records[k].step < r.step /\ records[k].time <= r.time
  BY <1>2, <1>4, StepIsAhead
<1>6. /\ records' \in Seq(Record) /\ Len(records') <= MaxRecords
      /\ HistoryInStepOrder'
      /\ \A i \in 1..Len(records') :
           records'[i] = r \/ \E k \in 1..Len(records) : records'[i] = records[k]
  <2>1. CASE ours
    BY <1>1, <1>4, <1>5, <2>1, RecordsKept DEF Inv
  <2>2. CASE ~ours
    <3>1. records' = records
      BY <1>4, <2>2
    <3>. QED  BY <1>1, <3>1 DEF Inv, TypeOK, HistoryInStepOrder
  <2>. QED  BY <2>1, <2>2
<1>7. /\ twin' \in Instance
      /\ twin'.initialized = TRUE
      /\ twin'.prevTime = time /\ twin'.stepCount = Ready.stepCount + 1
      /\ \/ /\ twin'.report \in Lifecycle
            /\ twin'.lastCritical = (twin'.report = Critical)
            /\ twin'.lastLifecycle = twin'.report
            /\ told' = twin'.report \/ (told' = told /\ Ready.lastLifecycle = twin'.report)
            /\ alerts' = IF twin'.report = Critical /\ ~Ready.lastCritical
                         THEN alerts + 1 ELSE alerts
         \/ /\ twin'.report = Ready.report
            /\ twin'.lastCritical = Ready.lastCritical
            /\ twin'.lastLifecycle = Ready.lastLifecycle
            /\ UNCHANGED <<told, alerts>>
  <2>1. Ended(time, r)
    BY <1>4
  <2>. QED  BY <1>1, <2>1, SuccessfulInstance
<1>8. /\ history' \in Seq(Lifecycle) /\ Len(history') <= HistoryLength
      /\ twin'.report # NoLifecycle =>
           history' # <<>> /\ history'[Len(history')] = twin'.report
  <2>1. twin'.report \in Lifecycle \union {NoLifecycle}
    BY <1>7 DEF Instance
  <2>2. history' = IF twin'.report = NoLifecycle THEN history
                   ELSE KeepLast(Append(history, twin'.report), HistoryLength)
    BY DEF StepSucceeds
  <2>. QED  BY <1>1, <2>1, <2>2, HistoryExtended
\* Whether initialized before or not, the flags agree with the report that the
\* step starts from, and a subscriber has been told it.
<1>9. /\ Ready.lastLifecycle = Ready.report
      /\ Ready.lastCritical = (Ready.report = Critical)
      /\ Ready.report # NoLifecycle => told = Ready.report
  <2>1. CASE twin.initialized
    BY <1>1, <2>1, ReadyType DEF Inv, FlagsAgree, DiagnosisViewsAgree
  <2>2. CASE ~twin.initialized
    BY <1>1, <2>2, ReadyType, Sorts
  <2>. QED  BY <2>1, <2>2
<1>10. FlagsAgree'
  BY <1>7, <1>9 DEF FlagsAgree
<1>11. DiagnosisViewsAgree'
  BY <1>7, <1>8, <1>9, Sorts DEF DiagnosisViewsAgree
<1>12. told' \in Lifecycle \union {NoLifecycle} /\ alerts' \in Nat
  BY <1>1, <1>7 DEF TypeOK
<1>13. TypeOK'
  BY <1>1, <1>6, <1>7, <1>8, <1>12, FedType DEF TypeOK
<1>14. AcceptedIsNotSkewed'
  BY <1>1, <1>7, FedNotSkewed DEF Inv
<1>15. Behind'
  <2>1. \A k \in 1..Len(records) : records[k].epoch <= epoch' /\ records[k].time \in Nat
    <3> TAKE k \in 1..Len(records)
    <3>1. records[k].epoch <= epoch /\ records[k].epoch \in Nat /\ records[k].time \in Nat
      BY <1>1, RecordFields, ElementOfSeq DEF Inv, Behind, TypeOK
    <3>2. epoch \in Nat /\ epoch' \in {epoch, epoch + 1}
      BY <1>1, <1>2 DEF Received, TypeOK
    <3>. QED  BY <3>1, <3>2
  <2>2. r.epoch = epoch' /\ r.step = twin'.stepCount /\ r.time = twin'.prevTime
    BY <1>4, <1>7
  <2>3. epoch' \in Nat /\ r.step \in Nat /\ r.time \in Nat
    BY <1>1, FedType, RecordFields
  <2>4. ASSUME NEW i \in 1..Len(records')
        PROVE  /\ records'[i].epoch <= epoch'
               /\ records'[i].epoch = epoch' =>
                    records'[i].step <= twin'.stepCount /\ records'[i].time <= twin'.prevTime
    <3>1. CASE records'[i] = r
      BY <2>2, <2>3, <3>1
    <3>2. CASE \E k \in 1..Len(records) : records'[i] = records[k]
      <4>1. PICK k \in 1..Len(records) : records'[i] = records[k]
        BY <3>2
      <4>2. records[k] \in Record
        BY <1>1, ElementOfSeq DEF TypeOK
      <4>3. records[k].step \in Nat /\ records[k].time \in Nat
        BY <4>2, RecordFields
      <4>4. records[k].epoch = r.epoch => records[k].step < r.step /\ records[k].time <= r.time
        BY <1>5
      <4>. QED  BY <2>1, <2>2, <2>3, <4>1, <4>3, <4>4
    <3>. QED  BY <1>6, <3>1, <3>2
  <2>. QED  BY <2>4 DEF Behind
<1>16. AlertStep
  <2>1. alerts \in Nat
    BY <1>1 DEF TypeOK
  <2>2. BecomesCritical <=> twin'.report = Critical /\ Ready.report # Critical
    <3>1. CASE twin.initialized
      BY <1>1, <3>1, ReadyType DEF BecomesCritical
    <3>2. CASE ~twin.initialized
      BY <1>1, <1>7, <3>2, ReadyType, Sorts DEF BecomesCritical
    <3>. QED  BY <3>1, <3>2
  <2>3. CASE BecomesCritical
    <3>1. alerts' = alerts + 1
      BY <1>7, <1>9, <2>2, <2>3
    <3>. QED  BY <2>3, <3>1 DEF AlertStep
  <2>4. CASE ~BecomesCritical
    <3>1. alerts' = alerts
      BY <1>7, <1>9, <2>2, <2>4
    <3>. QED  BY <2>1, <2>4, <3>1 DEF AlertStep
  <2>. QED  BY <2>3, <2>4
<1>17. Started'
  BY FedStarted
<1>. QED  BY <1>6, <1>10, <1>11, <1>13, <1>14, <1>15, <1>16, <1>17 DEF Inv

-----------------------------------------------------------------------------
(* The specification.                                                      *)

LEMMA InitInv == Init => Inv
<1>. SUFFICES ASSUME Init  PROVE Inv
  OBVIOUS
<1>1. twin = NewInstance /\ history = <<>> /\ telemetry = <<>> /\ records = <<>>
  BY DEF Init
<1>2. TypeOK
  <2>1. /\ history \in Seq(Lifecycle) /\ telemetry \in Seq(Time) /\ records \in Seq(Record)
        /\ Len(history) = 0 /\ Len(telemetry) = 0 /\ Len(records) = 0
    BY <1>1, EmptySeq
  <2>2. Len(history) <= HistoryLength /\ Len(telemetry) <= MaxRecords /\ Len(records) <= MaxRecords
    BY <2>1, Sorts
  <2>3. alerts \in Nat /\ epoch \in Nat /\ snapshots \in Nat
    BY DEF Init
  <2>4. twin \in Instance
    BY <1>1, NewInstanceType
  <2>5. /\ registered \in BOOLEAN /\ fedAs \subseteq Names \union {Direct}
        /\ lastTimestamp \in [Names -> {Never} \union Time] /\ told \in Lifecycle \union {NoLifecycle}
    BY DEF Init
  <2>. QED  BY <2>1, <2>2, <2>3, <2>4, <2>5 DEF TypeOK
<1>3. FlagsAgree /\ DiagnosisViewsAgree /\ AcceptedIsNotSkewed
  BY <1>1, NewInstanceType, Sorts DEF Init, FlagsAgree, DiagnosisViewsAgree, AcceptedIsNotSkewed
<1>4. HistoryInStepOrder /\ Behind /\ Started
  <2>1. Len(records) = 0
    BY <1>1, EmptySeq
  <2>. QED  BY <1>1, <2>1, NewInstanceType DEF HistoryInStepOrder, Behind, Started
<1>. QED  BY <1>2, <1>3, <1>4 DEF Inv

\* The operations of the registry and of the instance's lifecycle.
LEMMA LifecycleKept ==
  ASSUME Inv,
         \/ \E overwrite \in BOOLEAN : CreateTwin(overwrite)
         \/ InitializeTwin \/ InitializeFails
         \/ ResetTwin \/ ResetDiagnostics \/ DeleteTwin
  PROVE  Inv' /\ AlertStep
<1>1. twin \in Instance /\ registered \in BOOLEAN /\ fedAs \subseteq Names \union {Direct}
  BY DEF Inv, TypeOK
<1>2. ASSUME NEW overwrite \in BOOLEAN, CreateTwin(overwrite)
      PROVE  Inv' /\ AlertStep
  <2>1. PICK initialize \in BOOLEAN : Start(NewInstance, initialize)
    BY <1>2 DEF CreateTwin
  <2>2. UNCHANGED <<lastTimestamp, telemetry, records, told, alerts, snapshots>>
        /\ history' = history /\ registered' \in BOOLEAN
    BY <1>2 DEF CreateTwin
  <2>3. CASE initialize
    <3>1. twin' = Initialize(NewInstance) /\ epoch' = epoch + 1 /\ fedAs' \subseteq Names \union {Direct}
      BY <2>1, <2>3 DEF Start
    <3>. QED  BY <2>2, <3>1, NewInstanceType, InitializeType, RestartKept
  <2>4. CASE ~initialize
    <3>1. twin' = NewInstance /\ epoch' = epoch /\ fedAs' \subseteq Names \union {Direct}
      BY <1>1, <2>1, <2>4 DEF Start
    <3>. QED  BY <2>2, <3>1, NewInstanceType, RestartKept
  <2>. QED  BY <2>3, <2>4
<1>3. CASE InitializeTwin
  <2>1. /\ twin' = Initialize(twin) /\ epoch' = epoch + 1
        /\ fedAs' \subseteq Names \union {Direct} /\ registered' \in BOOLEAN /\ history' = history
        /\ UNCHANGED <<lastTimestamp, telemetry, records, told, alerts, snapshots>>
    BY <1>1, <1>3 DEF InitializeTwin, Start
  <2>. QED  BY <1>1, <2>1, InitializeType, RestartKept
<1>4. CASE InitializeFails
  <2>1. twin' = [twin EXCEPT !.initialized = FALSE]
    BY <1>4 DEF InitializeFails
  <2>2. UNCHANGED <<registered, history, lastTimestamp, telemetry, records,
                    told, alerts, epoch, fedAs, snapshots>>
    BY <1>4 DEF InitializeFails
  <2>3. /\ twin' \in Instance /\ twin'.initialized = FALSE
        /\ twin'.report = twin.report
        /\ twin'.lastLifecycle = twin.lastLifecycle
        /\ twin'.lastCritical = twin.lastCritical
    BY <1>1, <2>1 DEF Instance
  <2>4. TypeOK'
    BY <2>2, <2>3 DEF Inv, TypeOK
  <2>5. FlagsAgree' /\ DiagnosisViewsAgree' /\ AcceptedIsNotSkewed'
    BY <2>2, <2>3 DEF Inv, FlagsAgree, DiagnosisViewsAgree, AcceptedIsNotSkewed
  <2>6. HistoryInStepOrder' /\ Behind' /\ Started'
    BY <2>2, <2>3 DEF Inv, HistoryInStepOrder, Behind, Started
  <2>7. AlertStep
    <3>1. ~BecomesCritical /\ alerts \in Nat
      BY <2>3 DEF BecomesCritical, Inv, TypeOK
    <3>. QED  BY <2>2, <3>1 DEF AlertStep
  <2>. QED  BY <2>4, <2>5, <2>6, <2>7 DEF Inv
<1>5. CASE ResetTwin
  BY <1>1, <1>5, NewInstanceType, RestartKept DEF ResetTwin
<1>6. CASE ResetDiagnostics
  <2>1. /\ twin' = [twin EXCEPT !.report = NoLifecycle, !.lastLifecycle = NoLifecycle,
                                !.lastCritical = FALSE]
        /\ history' = <<>>
        /\ UNCHANGED <<registered, lastTimestamp, telemetry, records,
                       told, alerts, epoch, fedAs, snapshots>>
    BY <1>6 DEF ResetDiagnostics
  <2>2. /\ twin' \in Instance
        /\ twin'.report = NoLifecycle /\ twin'.lastLifecycle = NoLifecycle
        /\ twin'.lastCritical = FALSE
        /\ twin'.initialized = twin.initialized
        /\ twin'.prevTime = twin.prevTime /\ twin'.stepCount = twin.stepCount
    BY <1>1, <2>1 DEF Instance
  <2>3. TypeOK'
    <3>1. <<>> \in Seq(Lifecycle) /\ Len(<<>>) <= HistoryLength
      BY EmptySeq, Sorts
    <3>. QED  BY <2>1, <2>2, <3>1 DEF Inv, TypeOK
  <2>4. FlagsAgree' /\ DiagnosisViewsAgree' /\ AcceptedIsNotSkewed'
    BY <2>1, <2>2, Sorts DEF Inv, FlagsAgree, DiagnosisViewsAgree, AcceptedIsNotSkewed
  <2>5. HistoryInStepOrder' /\ Behind' /\ Started'
    BY <2>1, <2>2 DEF Inv, HistoryInStepOrder, Behind, Started
  <2>6. AlertStep
    <3>1. ~BecomesCritical /\ alerts \in Nat
      BY <2>2, Sorts DEF BecomesCritical, Inv, TypeOK
    <3>. QED  BY <2>1, <3>1 DEF AlertStep
  <2>. QED  BY <2>3, <2>4, <2>5, <2>6 DEF Inv
<1>7. CASE DeleteTwin
  BY <1>1, <1>7, NewInstanceType, RestartKept DEF DeleteTwin
<1>. QED  BY <1>2, <1>3, <1>4, <1>5, <1>6, <1>7

LEMMA NoAlert ==
  ASSUME TypeOK, UNCHANGED <<twin, alerts>>
  PROVE  AlertStep
<1>1. ~BecomesCritical /\ alerts \in Nat
  BY DEF BecomesCritical, TypeOK
<1>. QED  BY <1>1 DEF AlertStep

\* A snapshot without a twin is persisted and nothing more.
LEMMA PersistedOnlyKept ==
  ASSUME Inv, NEW time \in Time, snapshots' = snapshots + 1, TelemetryStored(time),
         UNCHANGED <<registered, twin, history, lastTimestamp, records,
                     told, alerts, epoch, fedAs>>
  PROVE  Inv' /\ AlertStep
<1>1. telemetry' \in Seq(Time) /\ Len(telemetry') <= MaxRecords
  BY TelemetryKept DEF Inv
<1>2. TypeOK'
  BY <1>1 DEF Inv, TypeOK
<1>3. FlagsAgree' /\ DiagnosisViewsAgree' /\ AcceptedIsNotSkewed'
  BY DEF Inv, FlagsAgree, DiagnosisViewsAgree, AcceptedIsNotSkewed
<1>4. HistoryInStepOrder' /\ Behind' /\ Started'
  BY DEF Inv, HistoryInStepOrder, Behind, Started
<1>5. AlertStep
  BY NoAlert DEF Inv
<1>. QED  BY <1>2, <1>3, <1>4, <1>5 DEF Inv

\* What another twin is fed leaves this one alone, and moves a validator's
\* entry only forward.
LEMMA ElsewhereKept ==
  ASSUME Inv, NEW name \in Names, NEW time \in Time, IngestElsewhere(name, time)
  PROVE  Inv' /\ AlertStep
<1>1. UNCHANGED <<registered, twin, history, told, alerts, epoch, fedAs>> /\ TypeOK
  BY DEF IngestElsewhere, Inv
<1>2. lastTimestamp' \in [Names -> {Never} \union Time]
  BY DEF IngestElsewhere, Inv, TypeOK
<1>3. \A n \in Names : lastTimestamp[n] \in Nat /\ lastTimestamp'[n] \in Nat /\ lastTimestamp[n] <= lastTimestamp'[n]
  <2>. SUFFICES ASSUME NEW n \in Names
       PROVE  lastTimestamp[n] \in Nat /\ lastTimestamp'[n] \in Nat /\ lastTimestamp[n] <= lastTimestamp'[n]
    OBVIOUS
  <2>1. lastTimestamp[n] \in Nat /\ time \in Nat
    BY <1>1, EntriesAreTimes, TimeIsNat
  <2>2. lastTimestamp'[n] = lastTimestamp[n] \/ (lastTimestamp'[n] = time /\ time >= lastTimestamp[n])
    BY DEF IngestElsewhere, Inv, TypeOK
  <2>. QED  BY <2>1, <2>2
<1>4. AcceptedIsNotSkewed'
  <2>. SUFFICES ASSUME registered, twin.initialized, NEW n \in Names, fedAs \subseteq {n}
       PROVE  twin.prevTime <= lastTimestamp'[n]
    BY <1>1 DEF AcceptedIsNotSkewed
  <2>1. twin.prevTime <= lastTimestamp[n]
    BY DEF Inv, AcceptedIsNotSkewed
  <2>2. twin.prevTime \in {Never} \union Time
    BY <1>1 DEF TypeOK, Instance
  <2>3. twin.prevTime \in Nat
    BY <2>2, TimeIsNat
  <2>. QED  BY <1>3, <2>1, <2>3
<1>5. telemetry' \in Seq(Time) /\ Len(telemetry') <= MaxRecords
  <2>1. CASE name = Own
    <3>1. TelemetryStored(time)
      BY <2>1 DEF IngestElsewhere
    <3>. QED  BY <1>1, <3>1, TelemetryKept
  <2>2. CASE name # Own
    BY <1>1, <2>2 DEF IngestElsewhere, TypeOK
  <2>. QED  BY <2>1, <2>2
<1>6. CASE records' = records
  <2>1. TypeOK'
    BY <1>1, <1>2, <1>5, <1>6 DEF IngestElsewhere, TypeOK
  <2>2. HistoryInStepOrder' /\ Behind' /\ Started' /\ FlagsAgree' /\ DiagnosisViewsAgree'
    BY <1>1, <1>6 DEF Inv, HistoryInStepOrder, Behind, Started, FlagsAgree, DiagnosisViewsAgree
  <2>. QED  BY <1>1, <1>4, <2>1, <2>2, NoAlert DEF Inv
<1>7. CASE RecordStored(Stray(time))
  <2> DEFINE r == Stray(time)
  <2>1. r \in Record /\ r.epoch = 0
    BY DEF Stray, Record
  <2>2. RecordStored(r)
    BY <1>7
  <2>. HIDE DEF r
  <2>3. /\ records' \in Seq(Record) /\ Len(records') <= MaxRecords
        /\ HistoryInStepOrder'
        /\ \A i \in 1..Len(records') :
             records'[i] = r \/ \E k \in 1..Len(records) : records'[i] = records[k]
    BY <1>1, <2>1, <2>2, RecordsKept DEF Inv
  <2>4. Behind'
    <3>1. epoch \in Nat /\ (twin.initialized => epoch # 0)
      BY <1>1 DEF Inv, TypeOK, Started
    <3>. QED  BY <1>1, <2>1, <2>3, <3>1 DEF Inv, Behind
  <2>5. TypeOK'
    BY <1>1, <1>2, <1>5, <2>3 DEF IngestElsewhere, TypeOK
  <2>6. Started' /\ FlagsAgree' /\ DiagnosisViewsAgree'
    BY <1>1 DEF Inv, Started, FlagsAgree, DiagnosisViewsAgree
  <2>. QED  BY <1>1, <1>4, <2>3, <2>4, <2>5, <2>6, NoAlert DEF Inv
<1>8. records' = records \/ RecordStored(Stray(time))
  BY DEF IngestElsewhere
<1>. QED  BY <1>6, <1>7, <1>8

LEMMA NextKept == Inv /\ Next => Inv' /\ AlertStep
<1>. SUFFICES ASSUME Inv, Next  PROVE Inv' /\ AlertStep
  OBVIOUS
<1>1. ASSUME NEW time \in Time, NEW as, NEW ours \in BOOLEAN, Fed(time, as, ours), StepTwin(time, as, ours)
      PROVE  Inv' /\ AlertStep
  BY <1>1, FailureKept, SuccessKept DEF StepTwin
<1>2. ASSUME NEW name \in Names, NEW time \in Time, IngestRaw(name, time)
      PROVE  Inv' /\ AlertStep
  <2>1. Fed(time, name, name = Own) /\ StepTwin(time, name, name = Own)
    BY <1>2 DEF IngestRaw, Fed, StepTwin, StepFails, StepSucceeds
  <2>2. (name = Own) \in BOOLEAN
    OBVIOUS
  <2>. QED  BY <1>1, <2>1, <2>2
<1>3. ASSUME NEW time \in Time, IngestSnapshot(time)
      PROVE  Inv' /\ AlertStep
  <2>1. CASE StepTwin(time, Direct, TRUE) /\ UNCHANGED lastTimestamp
    <3>1. Fed(time, Direct, TRUE)
      BY <2>1 DEF Fed, StepTwin, StepFails, StepSucceeds
    <3>. QED  BY <1>1, <2>1, <3>1
  <2>2. CASE ~(StepTwin(time, Direct, TRUE) /\ UNCHANGED lastTimestamp)
    BY <1>3, <2>2, PersistedOnlyKept DEF IngestSnapshot
  <2>. QED  BY <2>1, <2>2
<1>. QED  BY <1>2, <1>3, LifecycleKept, ElsewhereKept DEF Next

LEMMA StutterKept == Inv /\ UNCHANGED vars => Inv'
BY DEF Inv, vars, TypeOK, FlagsAgree, DiagnosisViewsAgree, AcceptedIsNotSkewed,
       HistoryInStepOrder, Behind, Started

LEMMA InvHolds == Spec => []Inv
<1>1. Inv /\ [Next]_vars => Inv'
  BY NextKept, StutterKept
<1>. QED  BY <1>1, InitInv, PTL DEF Spec

\* Every variable keeps its type; the report list and the repositories never
\* exceed their capacities, whatever these are.
THEOREM TypeCorrect == Spec => []TypeOK
<1>1. Inv => TypeOK
  BY DEF Inv
<1>. QED  BY <1>1, InvHolds, PTL

\* The state history stays sorted by time, and by step within each
\* initialization, through resets, replays, failed steps and evictions.
THEOREM HistoryOrdered == Spec => []HistoryInStepOrder
<1>1. Inv => HistoryInStepOrder
  BY DEF Inv
<1>. QED  BY <1>1, InvHolds, PTL

\* A throttled subscriber, the service's list and the instance agree on the
\* diagnosis, for any heartbeat and any length of the list.
THEOREM DiagnosisConsistent == Spec => []DiagnosisViewsAgree
<1>1. Inv => DiagnosisViewsAgree
  BY DEF Inv
<1>. QED  BY <1>1, InvHolds, PTL

\* As long as the pipeline alone has fed the twin since its start, under one
\* name, be it the twin's own or another's, the twin is not ahead of the
\* validator's entry of that name: what the pipeline accepts next under it the
\* synchronizer does not find skewed.
THEOREM AcceptedNotSkewed == Spec => []AcceptedIsNotSkewed
<1>1. Inv => AcceptedIsNotSkewed
  BY DEF Inv
<1>. QED  BY <1>1, InvHolds, PTL

\* Critical alerts are published exactly on entering the critical state.
THEOREM AlertsCorrect == Spec => AlertsMarkEntries
<1>1. Inv /\ [Next]_vars => [alerts' = alerts + (IF BecomesCritical THEN 1 ELSE 0)]_vars
  BY NextKept DEF AlertStep
<1>. QED  BY <1>1, InvHolds, PTL DEF Spec, AlertsMarkEntries

-----------------------------------------------------------------------------
(* The twin under its own actions.                                         *)

\* The telemetry repository is in order of time.
TelemetrySorted ==
  \A i, j \in 1..Len(telemetry) : i < j => telemetry[i] <= telemetry[j]

LEMMA TimesSuffixSorted ==
  ASSUME NEW s \in Seq(Time), NEW n \in Nat \ {0},
         \A i, j \in 1..Len(s) : i < j => s[i] <= s[j]
  PROVE  \A i, j \in 1..Len(KeepLast(s, n)) : i < j => KeepLast(s, n)[i] <= KeepLast(s, n)[j]
<1> DEFINE k == KeepLast(s, n)
<1>1. PICK d \in Nat : /\ Len(k) = Len(s) - d
                      /\ \A i \in 1..Len(k) : k[i] = s[i + d]
  BY KeepLastIsSuffix
<1>2. Len(s) \in Nat
  OBVIOUS
<1>. HIDE DEF k
<1>3. ASSUME NEW i \in 1..Len(k), NEW j \in 1..Len(k), i < j
      PROVE  k[i] <= k[j]
  <2>1. i + d \in 1..Len(s) /\ j + d \in 1..Len(s) /\ i + d < j + d
    BY <1>1, <1>2, <1>3
  <2>2. k[i] = s[i + d] /\ k[j] = s[j + d]
    BY <1>1
  <2>. QED  BY <2>1, <2>2
<1>. QED  BY <1>3 DEF k

LEMMA TimesInsertSorted ==
  ASSUME NEW s \in Seq(Time), \A i, j \in 1..Len(s) : i < j => s[i] <= s[j],
         NEW t \in Time, NEW p \in 1..Len(s) + 1,
         \A k \in 1..Len(s) : k < p <=> s[k] <= t
  PROVE  \A i, j \in 1..Len(s) + 1 : i < j => Insert(s, p, t)[i] <= Insert(s, p, t)[j]
<1> DEFINE u == Insert(s, p, t)
<1>1. \A k \in 1..Len(s) + 1 : /\ k < p => u[k] = s[k]
                               /\ k = p => u[k] = t
                               /\ k > p => u[k] = s[k - 1]
  BY InsertShifts
<1>2. Len(s) \in Nat /\ t \in Int /\ p \in Nat
  BY Sorts
<1>3. \A k \in 1..Len(s) : s[k] \in Int
  <2>1. \A k \in 1..Len(s) : s[k] \in Time
    BY ElementOfSeq
  <2>2. \A x \in Time : x \in Int
    BY Sorts
  <2>. QED  BY <2>1, <2>2, Zenon
<1>. HIDE DEF u
<1>4. ASSUME NEW i \in 1..Len(s) + 1, NEW j \in 1..Len(s) + 1, i < j
      PROVE  u[i] <= u[j]
  <2>1. CASE j < p
    <3>1. i \in 1..Len(s) /\ j \in 1..Len(s) /\ i < p
      BY <1>2, <1>4, <2>1
    <3>. QED  BY <1>1, <1>4, <2>1, <3>1
  <2>2. CASE j = p
    <3>1. i \in 1..Len(s) /\ i < p
      BY <1>2, <1>4, <2>2
    <3>. QED  BY <1>1, <2>2, <3>1
  <2>3. CASE i < p /\ j > p
    <3>1. i \in 1..Len(s) /\ j - 1 \in 1..Len(s) /\ i < j - 1
      BY <1>2, <1>4, <2>3
    <3>. QED  BY <1>1, <2>3, <3>1
  <2>4. CASE i = p
    <3>1. j - 1 \in 1..Len(s) /\ ~(j - 1 < p) /\ j > p
      BY <1>2, <1>4, <2>4
    <3>2. ~(s[j - 1] <= t)
      BY <3>1
    <3>3. u[i] = t /\ u[j] = s[j - 1]
      BY <1>1, <2>4, <3>1
    <3>. QED  BY <1>2, <1>3, <3>1, <3>2, <3>3
  <2>5. CASE i > p
    <3>1. i - 1 \in 1..Len(s) /\ j - 1 \in 1..Len(s) /\ i - 1 < j - 1 /\ j > p
      BY <1>2, <1>4, <2>5
    <3>. QED  BY <1>1, <2>5, <3>1
  <2>. QED  BY <1>2, <2>1, <2>2, <2>3, <2>4, <2>5
<1>. QED  BY <1>4 DEF u

\* So the repository stays sorted.
LEMMA TelemetryStaysSorted ==
  ASSUME TypeOK, TelemetrySorted, NEW t \in Time, TelemetryStored(t)
  PROVE  TelemetrySorted'
<1>1. PICK p \in 1..Len(telemetry) + 1 :
        /\ \A k \in 1..Len(telemetry) : k < p <=> telemetry[k] <= t
        /\ telemetry' = KeepLast(Insert(telemetry, p, t), MaxRecords)
  BY DEF TelemetryStored
<1> DEFINE u == Insert(telemetry, p, t)
<1>2. telemetry \in Seq(Time) /\ MaxRecords \in Nat \ {0}
  BY Sorts DEF TypeOK
<1>3. u \in Seq(Time) /\ Len(u) = Len(telemetry) + 1
  BY <1>2, InsertShifts
<1>4. \A i, j \in 1..Len(u) : i < j => u[i] <= u[j]
  <2>1. \A i, j \in 1..Len(telemetry) : i < j => telemetry[i] <= telemetry[j]
    BY DEF TelemetrySorted
  <2>2. \A i, j \in 1..Len(telemetry) + 1 : i < j => u[i] <= u[j]
    BY <1>1, <1>2, <2>1, TimesInsertSorted
  <2>. QED  BY <1>3, <2>2
<1>. HIDE DEF u
<1>5. \A i, j \in 1..Len(KeepLast(u, MaxRecords)) :
        i < j => KeepLast(u, MaxRecords)[i] <= KeepLast(u, MaxRecords)[j]
  BY <1>2, <1>3, <1>4, TimesSuffixSorted
<1>6. telemetry' = KeepLast(u, MaxRecords)
  BY <1>1 DEF u
<1>. QED  BY <1>5, <1>6 DEF TelemetrySorted

TwinInv == TypeOK /\ TelemetrySorted

\* A record list that gets a record keeps its type and its capacity.  As long
\* as it is not full nothing has gone from it.
LEMMA RecordsGrow ==
  ASSUME TypeOK, NEW r \in Record, RecordStored(r)
  PROVE  /\ records' \in Seq(Record) /\ Len(records') <= MaxRecords
         /\ Len(records') < MaxRecords =>
              /\ Len(records) < MaxRecords
              /\ \E i \in 1..Len(records') : records'[i] = r
              /\ \A k \in 1..Len(records) :
                   \E i \in 1..Len(records') : records'[i] = records[k]
<1>1. PICK p \in 1..Len(records) + 1 :
        records' = KeepLast(Insert(records, p, r), MaxRecords)
  BY DEF RecordStored
<1> DEFINE u == Insert(records, p, r)
<1>2. records \in Seq(Record) /\ Len(records) \in Nat /\ MaxRecords \in Nat \ {0}
  BY Sorts DEF TypeOK
<1>3. /\ u \in Seq(Record) /\ Len(u) = Len(records) + 1
      /\ \A k \in 1..Len(records) + 1 : /\ k < p => u[k] = records[k]
                                        /\ k = p => u[k] = r
                                        /\ k > p => u[k] = records[k - 1]
  BY <1>2, InsertShifts
<1>. HIDE DEF u
<1>4. records' = KeepLast(u, MaxRecords)
  BY <1>1 DEF u
<1>5. records' \in Seq(Record) /\ Len(records') <= MaxRecords
  BY <1>2, <1>3, <1>4, KeepLastIsSuffix
<1>6. ASSUME Len(records') < MaxRecords
      PROVE  records' = u /\ Len(records) < MaxRecords
  <2>1. CASE Len(u) > MaxRecords
    <3>1. records' = SubSeq(u, Len(u) - MaxRecords + 1, Len(u))
      BY <1>4, <2>1 DEF KeepLast
    <3>2. Len(records') = MaxRecords
      BY <1>2, <1>3, <2>1, <3>1
    <3>. QED  BY <1>2, <1>6, <3>2
  <2>2. CASE ~(Len(u) > MaxRecords)
    BY <1>2, <1>3, <1>4, <1>6, <2>2 DEF KeepLast
  <2>. QED  BY <2>1, <2>2
<1>7. ASSUME NEW k \in 1..Len(records)
      PROVE  \E i \in 1..Len(u) : u[i] = records[k]
  <2>1. CASE k < p
    <3>1. k \in 1..Len(u) /\ u[k] = records[k]
      BY <1>2, <1>3, <2>1
    <3>. QED  BY <3>1
  <2>2. CASE k >= p
    <3>1. k + 1 \in 1..Len(u) /\ k + 1 > p /\ (k + 1) - 1 = k
      BY <1>2, <1>3, <2>2
    <3>2. u[k + 1] = records[k]
      BY <1>3, <3>1
    <3>. QED  BY <3>1, <3>2
  <2>. QED  BY <1>2, <2>1, <2>2
<1>8. p \in 1..Len(u) /\ u[p] = r
  BY <1>2, <1>3
<1>. QED  BY <1>5, <1>6, <1>7, <1>8

\* What reaches the twin leaves the telemetry in order.
LEMMA FedStaysSorted ==
  ASSUME TwinInv, NEW time \in Time, NEW as, NEW ours \in BOOLEAN, Fed(time, as, ours)
  PROVE  TelemetrySorted'
<1>1. CASE ours
  <2>1. TelemetryStored(time)
    BY <1>1 DEF Fed, Received
  <2>. QED  BY <2>1, TelemetryStaysSorted DEF TwinInv
<1>2. CASE ~ours
  <2>1. telemetry' = telemetry
    BY <1>2 DEF Fed, Received
  <2>. QED  BY <2>1 DEF TwinInv, TelemetrySorted
<1>. QED  BY <1>1, <1>2

\* What a step that fails leaves.
LEMMA FailureTyped ==
  ASSUME TwinInv, NEW time \in Time, NEW as, NEW ours \in BOOLEAN, Fed(time, as, ours), StepFails(time, as, ours)
  PROVE  /\ TwinInv'
         /\ twin'.initialized = TRUE
         /\ twin'.prevTime = Ready.prevTime /\ twin'.stepCount = Ready.stepCount
         /\ twin'.latest = Ready.latest
<1>1. TypeOK
  BY DEF TwinInv
<1>2. Ready \in Instance /\ Ready.initialized = TRUE
  BY <1>1, ReadyType
<1>3. twin' = Ready \/ twin' = [Ready EXCEPT !.model = @ + 1]
  BY DEF StepFails
<1>4. /\ twin' \in Instance
      /\ twin'.initialized = TRUE
      /\ twin'.prevTime = Ready.prevTime /\ twin'.stepCount = Ready.stepCount
      /\ twin'.latest = Ready.latest
  <2>. HIDE DEF Ready
  <2>. QED  BY <1>2, <1>3 DEF Instance
<1>5. UNCHANGED <<history, records, told, alerts>>
  BY DEF StepFails
<1>6. TypeOK'
  BY <1>1, <1>4, <1>5, FedType DEF TypeOK
<1>7. TelemetrySorted'
  BY FedStaysSorted
<1>. QED  BY <1>4, <1>6, <1>7 DEF TwinInv

\* What is stored and assessed of a step that succeeds, in the service or in a
\* replay.
Performed(time, as, ours) ==
  LET t == Synchronized(Ready, time)
      r == [epoch |-> epoch', step |-> t.stepCount, time |-> time]
  IN /\ Received(time, as, ours)
     /\ IF ours THEN RecordStored(r) ELSE UNCHANGED records
     /\ \/ \E l \in Lifecycle : Assessed(t, r, l)
        \/ twin' = Tracked(t, r) /\ UNCHANGED <<told, alerts>>

LEMMA SuccessTyped ==
  ASSUME TwinInv, NEW time \in Time, NEW as, NEW ours \in BOOLEAN, Fed(time, as, ours), Performed(time, as, ours),
         \/ UNCHANGED history
         \/ history' = IF twin'.report = NoLifecycle THEN history
                       ELSE KeepLast(Append(history, twin'.report), HistoryLength)
  PROVE  /\ TwinInv'
         /\ twin'.initialized = TRUE
         /\ twin'.prevTime = time /\ twin'.stepCount = Ready.stepCount + 1
         /\ twin'.latest = [epoch |-> epoch', step |-> Ready.stepCount + 1, time |-> time]
         /\ twin'.latest \in Record
         /\ IF ours THEN RecordStored(twin'.latest) ELSE UNCHANGED records
<1>1. TypeOK
  BY DEF TwinInv
<1>2. Ready \in Instance /\ Ready.stepCount \in Nat
  BY <1>1, ReadyType DEF Instance
<1> DEFINE t == Synchronized(Ready, time)
           r == [epoch |-> epoch', step |-> Ready.stepCount + 1, time |-> time]
<1>3. t.stepCount = Ready.stepCount + 1
  <2>. HIDE DEF Ready
  <2>. QED  BY <1>2 DEF Synchronized, Instance
<1>4. epoch' \in Nat
  BY <1>1, FedType
<1>5. r \in Record
  BY <1>2, <1>4 DEF Record
<1>6. /\ IF ours THEN RecordStored(r) ELSE UNCHANGED records
      /\ (\E l \in Lifecycle : Assessed(t, r, l)) \/ (twin' = Tracked(t, r) /\ UNCHANGED <<told, alerts>>)
  BY <1>3 DEF Performed
<1>. HIDE DEF r
<1>7. /\ twin' \in Instance
      /\ twin'.initialized = TRUE
      /\ twin'.prevTime = time /\ twin'.stepCount = Ready.stepCount + 1
      /\ \/ /\ twin'.report \in Lifecycle
            /\ told' = twin'.report \/ told' = told
            /\ alerts' = alerts + 1 \/ alerts' = alerts
         \/ UNCHANGED <<told, alerts>>
  <2>1. Ended(time, r)
    BY <1>6 DEF Ended
  <2>. HIDE DEF t
  <2>. QED  BY <1>1, <1>5, <2>1, SuccessfulInstance
<1>8. twin'.latest = r
  <2>1. t \in [DOMAIN Ready -> UNION {{Ready[x], t[x]} : x \in DOMAIN Ready}]
    <3>. HIDE DEF Ready
    <3>. QED  BY DEF Synchronized
  <2>2. DOMAIN t = DOMAIN Ready /\ "latest" \in DOMAIN t
    <3>. HIDE DEF Ready
    <3>. QED  BY <1>2 DEF Synchronized, Instance
  <2>3. Tracked(t, r).latest = r /\ "latest" \in DOMAIN Tracked(t, r)
    <3>. HIDE DEF t
    <3>. QED  BY <2>2 DEF Tracked
  <2>. HIDE DEF t
  <2>. QED  BY <1>6, <2>3 DEF Assessed
<1>9. records' \in Seq(Record) /\ Len(records') <= MaxRecords
  <2>1. RecordStored(r) \/ records' = records
    BY <1>6
  <2>. QED  BY <1>1, <1>5, <2>1, RecordsGrow DEF TypeOK
<1>11. TypeOK'
  <2>1. history' \in Seq(Lifecycle) /\ Len(history') <= HistoryLength
    <3>1. twin'.report \in Lifecycle \union {NoLifecycle}
      BY <1>7 DEF Instance
    <3>. QED  BY <1>1, <3>1, HistoryExtended DEF TypeOK
  <2>2. told' \in Lifecycle \union {NoLifecycle} /\ alerts' \in Nat
    BY <1>1, <1>7 DEF TypeOK
  <2>. QED  BY <1>1, <1>7, <1>9, <2>1, <2>2, FedType DEF TypeOK
<1>12. TelemetrySorted'
  BY FedStaysSorted
<1>. QED  BY <1>5, <1>6, <1>7, <1>8, <1>11, <1>12 DEF TwinInv, r

LEMMA StartTyped ==
  ASSUME TypeOK, NEW t \in Instance, NEW initialize \in BOOLEAN, Start(t, initialize)
  PROVE  twin' \in Instance /\ epoch' \in Nat /\ fedAs' \subseteq Names \union {Direct}
<1>1. Initialize(t) \in Instance
  BY InitializeType
<1>2. epoch \in Nat /\ fedAs \subseteq Names \union {Direct}
  BY DEF TypeOK
<1>3. CASE initialize
  <2>1. twin' = Initialize(t) /\ epoch' = epoch + 1
    BY <1>3 DEF Start
  <2>2. fedAs' = {}
    BY <1>3, Zenon DEF Start
  <2>. QED  BY <1>1, <1>2, <2>1, <2>2
<1>4. CASE ~initialize
  <2>1. twin' = t /\ epoch' = epoch
    BY <1>4 DEF Start
  <2>2. fedAs' = fedAs
    BY <1>4, Zenon DEF Start
  <2>. QED  BY <1>2, <2>1, <2>2
<1>. QED  BY <1>3, <1>4

\* An operation that only makes another instance of the twin.
LEMMA LifecycleTyped ==
  ASSUME TwinInv, registered' \in BOOLEAN, twin' \in Instance, epoch' \in Nat, fedAs' \subseteq Names \union {Direct},
         history' = history \/ history' = <<>>,
         UNCHANGED <<lastTimestamp, telemetry, records, told, alerts, snapshots>>
  PROVE  TwinInv'
<1>1. <<>> \in Seq(Lifecycle) /\ Len(<<>>) <= HistoryLength
  BY Sorts, EmptySeq
<1>2. TypeOK'
  BY <1>1 DEF TwinInv, TypeOK
<1>3. TelemetrySorted'
  BY DEF TwinInv, TelemetrySorted
<1>. QED  BY <1>2, <1>3 DEF TwinInv

LEMMA TwinStepTyped == TwinInv /\ Next => TwinInv'
<1>. SUFFICES ASSUME TwinInv, Next  PROVE TwinInv'
  OBVIOUS
<1>1. TypeOK /\ twin \in Instance /\ registered \in BOOLEAN /\ fedAs \subseteq Names \union {Direct} /\ epoch \in Nat
  BY DEF TwinInv, TypeOK
<1>2. ASSUME NEW overwrite \in BOOLEAN, CreateTwin(overwrite)
      PROVE  TwinInv'
  <2>1. PICK initialize \in BOOLEAN : Start(NewInstance, initialize)
    BY <1>2 DEF CreateTwin
  <2>2. twin' \in Instance /\ epoch' \in Nat /\ fedAs' \subseteq Names \union {Direct}
    BY <1>1, <2>1, NewInstanceType, StartTyped
  <2>. QED  BY <1>2, <2>2, LifecycleTyped DEF CreateTwin
<1>3. CASE InitializeTwin
  <2>1. twin' \in Instance /\ epoch' \in Nat /\ fedAs' \subseteq Names \union {Direct}
    BY <1>1, <1>3, StartTyped DEF InitializeTwin
  <2>. QED  BY <1>1, <1>3, <2>1, LifecycleTyped DEF InitializeTwin
<1>4. CASE InitializeFails
  <2>1. twin' \in Instance
    BY <1>1, <1>4 DEF InitializeFails, Instance
  <2>. QED  BY <1>1, <1>4, <2>1, LifecycleTyped DEF InitializeFails
<1>5. CASE ResetTwin
  BY <1>1, <1>5, NewInstanceType, LifecycleTyped DEF ResetTwin
<1>6. CASE ResetDiagnostics
  <2>1. twin' \in Instance
    BY <1>1, <1>6 DEF ResetDiagnostics, Instance
  <2>. QED  BY <1>1, <1>6, <2>1, LifecycleTyped DEF ResetDiagnostics
<1>7. CASE DeleteTwin
  BY <1>1, <1>7, NewInstanceType, LifecycleTyped DEF DeleteTwin
<1>8. ASSUME NEW time \in Time, NEW as, NEW ours \in BOOLEAN, Fed(time, as, ours), StepTwin(time, as, ours)
      PROVE  TwinInv'
  <2>1. CASE StepFails(time, as, ours)
    BY <1>8, <2>1, FailureTyped
  <2>2. CASE StepSucceeds(time, as, ours)
    <3>1. Performed(time, as, ours)
      BY <2>2 DEF StepSucceeds, Performed
    <3>2. history' = IF twin'.report = NoLifecycle THEN history
                     ELSE KeepLast(Append(history, twin'.report), HistoryLength)
      BY <2>2 DEF StepSucceeds
    <3>. QED  BY <1>8, <3>1, <3>2, SuccessTyped
  <2>. QED  BY <1>8, <2>1, <2>2 DEF StepTwin
<1>9. ASSUME NEW name \in Names, NEW time \in Time, IngestRaw(name, time)
      PROVE  TwinInv'
  <2>1. Fed(time, name, name = Own) /\ StepTwin(time, name, name = Own)
    BY <1>9 DEF IngestRaw, Fed, StepTwin, StepFails, StepSucceeds
  <2>2. (name = Own) \in BOOLEAN
    OBVIOUS
  <2>. QED  BY <1>8, <2>1, <2>2
<1>10. ASSUME NEW time \in Time, IngestSnapshot(time)
       PROVE  TwinInv'
  <2>1. CASE StepTwin(time, Direct, TRUE) /\ UNCHANGED lastTimestamp
    <3>1. Fed(time, Direct, TRUE)
      BY <2>1 DEF Fed, StepTwin, StepFails, StepSucceeds
    <3>. QED  BY <1>8, <2>1, <3>1
  <2>2. CASE ~(StepTwin(time, Direct, TRUE) /\ UNCHANGED lastTimestamp)
    <3>1. /\ snapshots' = snapshots + 1
          /\ TelemetryStored(time)
          /\ UNCHANGED <<registered, twin, history, lastTimestamp, records, told, alerts, epoch, fedAs>>
      BY <1>10, <2>2 DEF IngestSnapshot
    <3>2. TelemetrySorted'
      BY <3>1, TelemetryStaysSorted DEF TwinInv
    <3>3. telemetry' \in Seq(Time) /\ Len(telemetry') <= MaxRecords
      BY <3>1, TelemetryKept DEF TwinInv
    <3>. QED  BY <3>1, <3>2, <3>3 DEF TwinInv, TypeOK
  <2>. QED  BY <2>1, <2>2
<1>11. ASSUME NEW name \in Names, NEW time \in Time, IngestElsewhere(name, time)
       PROVE  TwinInv'
  <2>1. TelemetryStored(time) \/ telemetry' = telemetry
    BY <1>11 DEF IngestElsewhere
  <2>2. telemetry' \in Seq(Time) /\ Len(telemetry') <= MaxRecords /\ TelemetrySorted'
    <3>1. CASE TelemetryStored(time)
      BY <3>1, TelemetryKept, TelemetryStaysSorted DEF TwinInv
    <3>2. CASE telemetry' = telemetry
      BY <3>2 DEF TwinInv, TypeOK, TelemetrySorted
    <3>. QED  BY <2>1, <3>1, <3>2
  <2>3. Stray(time) \in Record
    BY DEF Stray, Record
  <2>4. RecordStored(Stray(time)) \/ records' = records
    BY <1>11 DEF IngestElsewhere
  <2>5. records' \in Seq(Record) /\ Len(records') <= MaxRecords
    BY <1>1, <2>3, <2>4, RecordsGrow DEF TypeOK
  <2>6. lastTimestamp' \in [Names -> {Never} \union Time]
    BY <1>11 DEF IngestElsewhere, TwinInv, TypeOK
  <2>. QED  BY <1>11, <2>2, <2>5, <2>6 DEF IngestElsewhere, TwinInv, TypeOK
<1>. QED  BY <1>2, <1>3, <1>4, <1>5, <1>6, <1>7, <1>9, <1>10, <1>11 DEF Next

-----------------------------------------------------------------------------
(* The replay.                                                             *)

SnapshotType == [time: Nat, ours: BOOLEAN, voltages: SUBSET Nat]
OutputType == [time: Nat, ours: BOOLEAN, observed: Nat, simulated: Nat]

RunTyped ==
  /\ DOMAIN run = DOMAIN NoRun
  /\ run.phase \in {"none", "ready", "stepping"}
  /\ run.queue \in Seq(SnapshotType)
  /\ run.outputs \in Seq(OutputType)
  /\ run.records \in Seq(Record)
  /\ Len(run.outputs) = Len(run.records)
  /\ run.phase # "stepping" => run.records = <<>>
  /\ run.phase # "none" => run.source \in Sources

Rising(q) == \A i, j \in 1..Len(q) : i < j => q[i].time <= q[j].time
Timed(q) == \A i \in 1..Len(q) : q[i].time \in Time

\* What is still to be replayed is in order, unless a table gave it, and each
\* of it has a time as soon as it is known to fit.
QueueReady ==
  /\ run.source # "csv" => Rising(run.queue)
  /\ run.phase = "stepping" \/ Len(run.queue) <= MaxSamples => Timed(run.queue)

\* A twin that was reset is behind all that is still to come.
TwinBehind ==
  run.phase = "stepping" /\ run.reset =>
    /\ twin.initialized
    /\ run.records = <<>> => twin.stepCount = 0
    /\ run.source # "csv" => \A i \in 1..Len(run.queue) : twin.prevTime <= run.queue[i].time

\* The last record collected is the one the running initialization came to.
LastIsLatest ==
  run.records # <<>> =>
    /\ twin.initialized
    /\ run.records[Len(run.records)] = twin.latest
    /\ twin.latest.step = twin.stepCount /\ twin.latest.epoch = epoch

\* The records collected are consecutive steps of one initialization, the
\* first of it when the twin was reset.
Consecutive ==
  /\ run.records # <<>> /\ run.reset => run.records[1].step = 1
  /\ \A i \in 1..Len(run.records) - 1 :
       /\ run.records[i + 1].epoch = run.records[i].epoch
       /\ run.records[i + 1].step = run.records[i].step + 1

\* Until the repository is full, it has all that are stored as the system's.
AllKept ==
  Len(records) < MaxRecords =>
    \A k \in 1..Len(run.records) :
      run.outputs[k].ours => \E i \in 1..Len(records) : records[i] = run.records[k]

\* An output and its record are of the same sample.
InStep == \A k \in 1..Len(run.records) : run.outputs[k].time = run.records[k].time

RunInv ==
  RunTyped /\ QueueReady /\ TwinBehind /\ LastIsLatest /\ Consecutive /\ AllKept /\ InStep
ReplayInv == TwinInv /\ RunInv

LEMMA NoRunFields ==
  /\ "phase" \in DOMAIN NoRun /\ "source" \in DOMAIN NoRun /\ "queue" \in DOMAIN NoRun
  /\ "outputs" \in DOMAIN NoRun /\ "records" \in DOMAIN NoRun /\ "skipped" \in DOMAIN NoRun
  /\ "reports" \in DOMAIN NoRun /\ "reset" \in DOMAIN NoRun /\ "raise" \in DOMAIN NoRun
  /\ "target" \in DOMAIN NoRun
  /\ NoRun.phase = "none" /\ NoRun.queue = <<>> /\ NoRun.outputs = <<>> /\ NoRun.records = <<>>
BY DEF NoRun

\* Before the first step a replay has collected nothing.
LEMMA NotSteppingKept ==
  ASSUME DOMAIN run' = DOMAIN NoRun, run'.phase \in {"none", "ready"},
         run'.queue \in Seq(SnapshotType), run'.outputs = <<>>, run'.records = <<>>,
         run'.phase # "none" => run'.source \in Sources,
         run'.source # "csv" => Rising(run'.queue),
         Len(run'.queue) <= MaxSamples => Timed(run'.queue)
  PROVE  RunInv'
<1>1. <<>> \in Seq(OutputType) /\ <<>> \in Seq(Record) /\ Len(<<>>) = 0
  BY EmptySeq
<1>2. RunTyped'
  BY <1>1 DEF RunTyped
<1>3. QueueReady'
  BY DEF QueueReady, Rising, Timed
<1>4. TwinBehind' /\ LastIsLatest'
  BY DEF TwinBehind, LastIsLatest
<1>5. Consecutive' /\ AllKept' /\ InStep'
  BY <1>1 DEF Consecutive, AllKept, InStep
<1>. QED  BY <1>2, <1>3, <1>4, <1>5 DEF RunInv

LEMMA DroppedKept ==
  ASSUME run' = NoRun
  PROVE  RunInv'
<1>1. <<>> \in Seq(SnapshotType) /\ Len(<<>>) = 0
  BY EmptySeq
<1>2. Rising(run'.queue) /\ Timed(run'.queue)
  BY <1>1, NoRunFields DEF Rising, Timed
<1>. QED  BY <1>1, <1>2, NoRunFields, NotSteppingKept

LEMMA PreparedKept ==
  ASSUME NEW source \in Sources, NEW made, NEW queue \in Seq(SnapshotType),
         Prepared(source, queue, made),
         DOMAIN made = DOMAIN NoRun, made.outputs = <<>>, made.records = <<>>,
         source # "csv" => Rising(queue),
         Len(queue) <= MaxSamples => Timed(queue)
  PROVE  RunInv'
<1>1. run' = [made EXCEPT !.phase = "ready", !.source = source, !.queue = queue]
  BY DEF Prepared
<1>2. DOMAIN run' = DOMAIN NoRun
  BY <1>1
<1>3. /\ run'.phase = "ready" /\ run'.source = source /\ run'.queue = queue
      /\ run'.outputs = <<>> /\ run'.records = <<>>
  BY <1>1, NoRunFields
<1>. QED  BY <1>2, <1>3, NotSteppingKept

\* Snapshots at times that are in order are in order.
LEMMA SnapshotsOfTimes ==
  ASSUME NEW times \in Seq(Time), NEW ours \in [1..Len(times) -> BOOLEAN], NEW v \in SUBSET Nat
  PROVE  LET q == [k \in DOMAIN times |-> Snapshot(times[k], ours[k], v)] IN
         /\ q \in Seq(SnapshotType) /\ Timed(q)
         /\ (\A i, j \in 1..Len(times) : i < j => times[i] <= times[j]) => Rising(q)
<1> DEFINE q == [k \in DOMAIN times |-> Snapshot(times[k], ours[k], v)]
<1>1. DOMAIN times = 1..Len(times) /\ Len(times) \in Nat
  OBVIOUS
<1>2. \A k \in 1..Len(times) : times[k] \in Time /\ times[k] \in Nat
  <2>1. \A k \in 1..Len(times) : times[k] \in Time
    BY ElementOfSeq
  <2>2. \A x \in Time : x \in Nat
    BY Sorts
  <2>. QED  BY <2>1, <2>2, Zenon
<1>4. \A k \in 1..Len(times) : Snapshot(times[k], ours[k], v) \in SnapshotType
  BY <1>2 DEF Snapshot, SnapshotType
<1>5. q \in [1..Len(times) -> SnapshotType]
  BY <1>1, <1>4, Zenon
<1>6. q \in Seq(SnapshotType) /\ Len(q) = Len(times)
  BY <1>1, <1>5, SeqDef, LenProperties
<1>7. \A k \in 1..Len(times) : q[k].time = times[k]
  BY <1>1 DEF Snapshot
<1>. HIDE DEF q
<1>8. Timed(q)
  BY <1>2, <1>6, <1>7 DEF Timed
<1>9. (\A i, j \in 1..Len(times) : i < j => times[i] <= times[j]) => Rising(q)
  BY <1>6, <1>7 DEF Rising
<1>. QED  BY <1>6, <1>8, <1>9 DEF q

\* The voltages of each source are numbers.
LEMMA VoltagesAreNumbers ==
  ASSUME NEW source \in Sources
  PROVE  Volts[source] \in SUBSET Nat
BY ReplayAssumption

\* A range of the repository is in order because the repository is.
LEMMA FromRepositoryKept ==
  ASSUME TwinInv, NEW first, NEW last, FromRepository(first, last)
  PROVE  RunInv'
<1> DEFINE v == Volts["repository"]
<1>1. PICK i \in 1..Len(telemetry) + 1, j \in 0..Len(telemetry) :
        LET times == SubSeq(telemetry, i, j) IN
        Prepared("repository", [k \in DOMAIN times |-> Snapshot(times[k], TRUE, v)], NoRun)
  BY DEF FromRepository
<1> DEFINE times == SubSeq(telemetry, i, j)
<1>2. v \in SUBSET Nat /\ Prepared("repository", [k \in DOMAIN times |-> Snapshot(times[k], TRUE, v)], NoRun)
  BY <1>1, VoltagesAreNumbers DEF Sources
<1>. HIDE DEF v
<1>3. telemetry \in Seq(Time) /\ Len(telemetry) \in Nat
  BY DEF TwinInv, TypeOK
<1>4. /\ times \in Seq(Time)
      /\ \A a, b \in 1..Len(times) : a < b => times[a] <= times[b]
  <2>1. CASE i <= j
    <3>1. \A k \in i..j : telemetry[k] \in Time
      <4>1. \A k \in 1..Len(telemetry) : telemetry[k] \in Time
        BY <1>3, ElementOfSeq
      <4>. QED  BY <1>3, <4>1
    <3>2. /\ times \in Seq(Time) /\ Len(times) = j - i + 1
          /\ \A k \in 1..j - i + 1 : times[k] = telemetry[i + k - 1]
      BY <1>3, <2>1, <3>1, SubSeqProperties
    <3>. HIDE DEF times
    <3>3. ASSUME NEW a \in 1..Len(times), NEW b \in 1..Len(times), a < b
          PROVE  times[a] <= times[b]
      <4>1. i + a - 1 \in 1..Len(telemetry) /\ i + b - 1 \in 1..Len(telemetry) /\ i + a - 1 < i + b - 1
        BY <1>3, <2>1, <3>2, <3>3
      <4>. QED  BY <3>2, <4>1 DEF TwinInv, TelemetrySorted
    <3>. QED  BY <3>2, <3>3
  <2>2. CASE i > j
    <3>1. times = <<>>
      BY <1>3, <2>2
    <3>2. <<>> \in Seq(Time) /\ Len(<<>>) = 0
      BY EmptySeq
    <3>. HIDE DEF times
    <3>. QED  BY <3>1, <3>2
  <2>3. i <= j \/ i > j
    BY <1>3
  <2>. HIDE DEF times
  <2>. QED  BY <2>1, <2>2, <2>3
<1>. HIDE DEF times
<1>5. LET q == [k \in DOMAIN times |-> Snapshot(times[k], TRUE, v)] IN
      q \in Seq(SnapshotType) /\ Timed(q) /\ Rising(q)
  <2> DEFINE ours == [k \in 1..Len(times) |-> TRUE]
  <2>1. ours \in [1..Len(times) -> BOOLEAN] /\ DOMAIN times = 1..Len(times)
    BY <1>4
  <2>2. [k \in DOMAIN times |-> Snapshot(times[k], TRUE, v)]
          = [k \in DOMAIN times |-> Snapshot(times[k], ours[k], v)]
    BY <2>1
  <2>. HIDE DEF ours
  <2>. QED  BY <1>2, <1>4, <2>1, <2>2, SnapshotsOfTimes
<1> DEFINE q == [k \in DOMAIN times |-> Snapshot(times[k], TRUE, v)]
<1>6. q \in Seq(SnapshotType) /\ Timed(q) /\ Rising(q) /\ Prepared("repository", q, NoRun)
  BY <1>2, <1>5
<1>. HIDE DEF q
<1>7. "repository" \in Sources
  BY DEF Sources
<1>. QED  BY <1>6, <1>7, NoRunFields, PreparedKept

LEMMA FromCsvKept ==
  ASSUME NEW n \in 1..MaxSamples, NEW times \in [1..n -> Time], NEW ours \in [1..n -> BOOLEAN],
         FromCsv(times, ours)
  PROVE  RunInv'
<1> DEFINE v == Volts["csv"]
<1>1. /\ v \in SUBSET Nat
      /\ Prepared("csv", [k \in DOMAIN times |-> Snapshot(times[k], ours[k], v)], NoRun)
  BY VoltagesAreNumbers DEF FromCsv, Sources
<1>. HIDE DEF v
<1>2. n \in Nat
  BY ReplayAssumption
<1>3. times \in Seq(Time) /\ Len(times) = n
  BY <1>2, SeqDef, LenProperties
<1> DEFINE q == [k \in DOMAIN times |-> Snapshot(times[k], ours[k], v)]
<1>4. q \in Seq(SnapshotType) /\ Timed(q) /\ Prepared("csv", q, NoRun)
  BY <1>1, <1>3, SnapshotsOfTimes
<1>. HIDE DEF q
<1>5. "csv" \in Sources
  BY DEF Sources
<1>. QED  BY <1>4, <1>5, NoRunFields, PreparedKept

\* The samples of a profile are at times 1, 2, ..., resampled or not.
LEMMA FromProfileKept ==
  ASSUME FromProfile
  PROVE  RunInv'
<1>1. PICK plan \in Plans : Prepared("profile", plan.queue, plan)
  BY DEF FromProfile
<1>2. PICK request, points : plan \in Made(request, points)
  BY <1>1 DEF Plans
<1>3. PICK interval \in Intervals :
        LET samples == ToSnapshots(points, interval) IN
        /\ IsProfile(points)
        /\ plan = [NoRun EXCEPT !.request = request, !.profile = points, !.interval = interval,
                                !.samples = samples, !.queue = Snapshots(samples)]
  BY <1>2 DEF Made
<1> DEFINE samples == ToSnapshots(points, interval)
<1>4. /\ DOMAIN plan = DOMAIN NoRun /\ plan.outputs = <<>> /\ plan.records = <<>>
      /\ plan.queue = Snapshots(samples)
  <2>. HIDE DEF samples
  <2>1. plan = [NoRun EXCEPT !.request = request, !.profile = points, !.interval = interval,
                             !.samples = samples, !.queue = Snapshots(samples)]
    BY <1>3 DEF samples
  <2>. QED  BY <2>1, NoRunFields
<1>5. points \in Seq(ProfilePoint) /\ points # <<>> /\ interval \in Nat
  BY <1>3, ReplayAssumption DEF IsProfile
<1>6. PICK n \in Nat : DOMAIN samples = 1..n
  <2>1. CASE interval = 0
    <3>1. samples = points
      BY <2>1 DEF ToSnapshots
    <3>. QED  BY <1>5, <3>1
  <2>2. CASE interval # 0
    <3> DEFINE m == (Duration(points) \div interval) + 1
    <3>1. DOMAIN samples = DOMAIN SampleTimes(points, interval)
      BY <2>2 DEF ToSnapshots
    <3>2. DOMAIN SampleTimes(points, interval) = 1..m
      BY DEF SampleTimes, Grid
    <3>3. Duration(points) \in Int
      <4>1. Len(points) \in 1..Len(points) /\ 1 \in 1..Len(points)
        BY <1>5
      <4>2. points[1] \in ProfilePoint /\ points[Len(points)] \in ProfilePoint
        BY <1>5, <4>1, ElementOfSeq
      <4>3. points[1].time \in Nat /\ points[Len(points)].time \in Nat
        BY <4>2 DEF ProfilePoint
      <4>. QED  BY <1>5, <4>3 DEF Duration, Last
    <3>4. m \in Int
      BY <1>5, <2>2, <3>3
    <3>. HIDE DEF m, samples
    <3>5. CASE m >= 0
      BY <3>1, <3>2, <3>4, <3>5
    <3>6. CASE m < 0
      <4>1. 1..m = 1..0 /\ 0 \in Nat
        BY <3>4, <3>6
      <4>. QED  BY <3>1, <3>2, <4>1
    <3>. QED  BY <3>4, <3>5, <3>6
  <2>. QED  BY <2>1, <2>2
<1>. HIDE DEF samples
<1> DEFINE q == Snapshots(samples)
<1>7. /\ DOMAIN q = 1..n
      /\ q \in [1..n -> SnapshotType]
      /\ \A i \in 1..n : q[i].time = i
  <2> DEFINE v(i) == IF samples[i].voltage = NoVoltage THEN {0} ELSE Volts["profile"] \ {0}
  <2>1. q = [i \in 1..n |-> Snapshot(i, TRUE, v(i))]
    BY <1>6 DEF Snapshots
  <2>2. \A i \in 1..n : Snapshot(i, TRUE, v(i)) \in SnapshotType
    <3>1. Volts["profile"] \in SUBSET Nat
      BY VoltagesAreNumbers DEF Sources
    <3>2. \A i \in 1..n : v(i) \in SUBSET Nat
      BY <3>1
    <3>. HIDE DEF v
    <3>. QED  BY <3>2 DEF Snapshot, SnapshotType
  <2>. HIDE DEF v
  <2>3. q \in [1..n -> SnapshotType] /\ DOMAIN q = 1..n
    <3>. HIDE DEF q
    <3>. QED  BY <2>1, <2>2, Zenon
  <2>4. \A i \in 1..n : q[i].time = i
    <3>. HIDE DEF q
    <3>. QED  BY <2>1 DEF Snapshot
  <2>. QED  BY <2>3, <2>4
<1>. HIDE DEF q
<1>8. q \in Seq(SnapshotType) /\ Len(q) = n
  BY <1>7, SeqDef, LenProperties
<1>9. Rising(q)
  BY <1>7, <1>8 DEF Rising
<1>10. Len(q) <= MaxSamples => Timed(q)
  <2>1. MaxSamples \in Nat /\ MaxTime \in Nat /\ MaxSamples <= MaxTime
    BY ReplayAssumption, TwinAssumption
  <2>. QED  BY <1>7, <1>8, <2>1 DEF Timed, Time
<1>11. "profile" \in Sources
  BY DEF Sources
<1>. QED  BY <1>1, <1>4, <1>8, <1>9, <1>10, <1>11, PreparedKept DEF q

LEMMA RunFields ==
  ASSUME RunTyped
  PROVE  /\ "phase" \in DOMAIN run /\ "source" \in DOMAIN run /\ "queue" \in DOMAIN run
         /\ "outputs" \in DOMAIN run /\ "records" \in DOMAIN run /\ "skipped" \in DOMAIN run
         /\ "reports" \in DOMAIN run /\ "reset" \in DOMAIN run
BY NoRunFields DEF RunTyped

LEMMA BeginKept ==
  ASSUME TwinInv, RunInv, Begin
  PROVE  TwinInv' /\ RunInv'
<1>1. PICK reset \in BOOLEAN, raise \in BOOLEAN, target \in Targets :
        /\ ResetFirst(reset)
        /\ run' = [NoRun EXCEPT !.phase = "stepping", !.source = run.source, !.queue = run.queue,
                                !.reset = reset, !.raise = raise, !.target = target]
  BY DEF Begin
<1>2. DOMAIN run' = DOMAIN NoRun
  BY <1>1
<1>3. /\ run'.phase = "stepping" /\ run'.source = run.source /\ run'.queue = run.queue
      /\ run'.reset = reset /\ run'.outputs = <<>> /\ run'.records = <<>>
  BY <1>1, NoRunFields
<1>4. UNCHANGED <<registered, history, lastTimestamp, telemetry, records, told, alerts, snapshots>>
  BY DEF Begin
<1>5. TypeOK /\ registered \in BOOLEAN
  BY DEF TwinInv, TypeOK
<1>6. TwinInv'
  <2>1. CASE reset
    <3>1. Start(NewInstance, TRUE)
      BY <1>1, <2>1 DEF ResetFirst
    <3>2. twin' \in Instance /\ epoch' \in Nat /\ fedAs' \subseteq Names \union {Direct}
      BY <1>5, <3>1, NewInstanceType, StartTyped
    <3>. QED  BY <1>4, <1>5, <3>2, LifecycleTyped
  <2>2. CASE ~reset
    <3>1. UNCHANGED <<twin, epoch, fedAs>>
      BY <1>1, <2>2 DEF ResetFirst
    <3>2. twin' \in Instance /\ epoch' \in Nat /\ fedAs' \subseteq Names \union {Direct}
      BY <1>5, <3>1 DEF TypeOK
    <3>. QED  BY <1>4, <1>5, <3>2, LifecycleTyped
  <2>. QED  BY <2>1, <2>2
<1>7. RunTyped'
  <2>1. <<>> \in Seq(OutputType) /\ <<>> \in Seq(Record) /\ Len(<<>>) = 0
    BY EmptySeq
  <2>2. run.source \in Sources
    BY DEF Begin, RunInv, RunTyped
  <2>. QED  BY <1>2, <1>3, <2>1, <2>2 DEF RunInv, RunTyped
<1>8. QueueReady'
  BY <1>3 DEF RunInv, QueueReady, Rising, Timed, Begin, Fits
<1>9. TwinBehind'
  <2>. SUFFICES ASSUME reset
       PROVE  /\ twin'.initialized /\ twin'.stepCount = 0
              /\ \A i \in 1..Len(run'.queue) : twin'.prevTime <= run'.queue[i].time
    BY <1>3 DEF TwinBehind
  <2>1. twin' = Initialize(NewInstance)
    BY <1>1 DEF ResetFirst, Start
  <2>2. twin'.initialized /\ twin'.stepCount = 0 /\ twin'.prevTime = 0
    BY <2>1, NewInstanceType, InitializeType, Sorts
  <2>3. \A i \in 1..Len(run.queue) : run.queue[i].time \in Nat
    <3>1. \A i \in 1..Len(run.queue) : run.queue[i] \in SnapshotType
      BY ElementOfSeq DEF RunInv, RunTyped
    <3>. QED  BY <3>1 DEF SnapshotType
  <2>. QED  BY <1>3, <2>2, <2>3
<1>10. LastIsLatest' /\ Consecutive' /\ AllKept' /\ InStep'
  <2>1. Len(run'.records) = 0
    BY <1>3, EmptySeq
  <2>. QED  BY <1>3, <2>1 DEF LastIsLatest, Consecutive, AllKept, InStep
<1>. QED  BY <1>6, <1>7, <1>8, <1>9, <1>10 DEF RunInv

LEMMA BeginFailsKept ==
  ASSUME TwinInv, BeginFails
  PROVE  TwinInv' /\ RunInv'
<1>1. twin' = NewInstance /\ run' = NoRun
      /\ UNCHANGED <<registered, history, lastTimestamp, telemetry, records, told, alerts, epoch, fedAs, snapshots>>
  BY DEF BeginFails
<1>2. registered' \in BOOLEAN /\ epoch' \in Nat /\ fedAs' \subseteq Names \union {Direct}
  BY <1>1 DEF TwinInv, TypeOK
<1>3. TwinInv'
  BY <1>1, <1>2, NewInstanceType, LifecycleTyped
<1>. QED  BY <1>1, <1>3, DroppedKept

\* What is left of a queue is as the queue was, and after its head.
LEMMA QueueAdvances ==
  ASSUME RunInv, run.phase = "stepping", run.queue # <<>>,
         run'.phase = "stepping", run'.source = run.source, run'.queue = Tail(run.queue)
  PROVE  /\ QueueReady' /\ run'.queue \in Seq(SnapshotType)
         /\ Head(run.queue).time \in Time
         /\ run.source # "csv" =>
              \A i \in 1..Len(run'.queue) : Head(run.queue).time <= run'.queue[i].time
         /\ \A i \in 1..Len(run'.queue) : \E k \in 1..Len(run.queue) : run'.queue[i] = run.queue[k]
<1> DEFINE q == run.queue
           u == run'.queue
<1>1. q \in Seq(SnapshotType) /\ Len(q) \in Nat /\ Len(q) >= 1
  BY DEF RunInv, RunTyped
<1>2. /\ u \in Seq(SnapshotType) /\ Len(u) = Len(q) - 1
      /\ \A i \in 1..Len(u) : u[i] = q[i + 1]
      /\ Head(q) = q[1]
  BY <1>1, HeadTailProperties
<1>3. (run.source # "csv" => Rising(q)) /\ Timed(q)
  BY DEF RunInv, QueueReady
<1>. HIDE DEF q, u
<1>4. \A i \in 1..Len(u) : i + 1 \in 1..Len(q) /\ 1 < i + 1
  BY <1>1, <1>2
<1>5. Timed(u)
  BY <1>2, <1>3, <1>4 DEF Timed
<1>6. ASSUME Rising(q)
      PROVE  Rising(u)
  <2>1. ASSUME NEW i \in 1..Len(u), NEW j \in 1..Len(u), i < j
        PROVE  u[i].time <= u[j].time
    <3>1. i + 1 \in 1..Len(q) /\ j + 1 \in 1..Len(q) /\ i + 1 < j + 1
      BY <1>1, <1>2, <2>1
    <3>. QED  BY <1>2, <1>6, <3>1 DEF Rising
  <2>. QED  BY <2>1 DEF Rising
<1>7. 1 \in 1..Len(q)
  BY <1>1
<1>8. ASSUME Rising(q), NEW i \in 1..Len(u)
      PROVE  q[1].time <= u[i].time
  BY <1>2, <1>4, <1>7, <1>8 DEF Rising
<1>9. Head(q).time \in Time
  BY <1>2, <1>3, <1>7 DEF Timed
<1>10. QueueReady'
  BY <1>3, <1>5, <1>6 DEF QueueReady, u, Rising, Timed
<1>. QED  BY <1>2, <1>3, <1>4, <1>8, <1>9, <1>10 DEF q, u

\* The record of a step that succeeds goes to the end of those collected.
LEMMA CollectedKept ==
  ASSUME TwinInv, RunInv, run.phase = "stepping", run'.phase = "stepping",
         run'.reset = run.reset, NEW r \in Record, run'.records = Append(run.records, r),
         NEW o \in OutputType, run'.outputs = Append(run.outputs, o), o.time = r.time,
         IF o.ours THEN RecordStored(r) ELSE UNCHANGED records,
         twin'.initialized = TRUE, twin'.latest = r, epoch' = IF twin.initialized THEN epoch ELSE epoch + 1,
         r.step = Ready.stepCount + 1, r.epoch = epoch', twin'.stepCount = Ready.stepCount + 1
  PROVE  LastIsLatest' /\ Consecutive' /\ AllKept' /\ InStep'
<1> DEFINE c == run.records
           d == run'.records
           n == Len(c)
<1>1. c \in Seq(Record) /\ n \in Nat
  BY DEF RunInv, RunTyped
<1>2. /\ d \in Seq(Record) /\ Len(d) = n + 1 /\ d # <<>>
      /\ d[n + 1] = r /\ \A i \in 1..n : d[i] = c[i]
  <2>1. d = Append(c, r)
    OBVIOUS
  <2>. HIDE DEF c, d
  <2>. QED  BY <1>1, <2>1, AppendProperties
<1>3. n = 0 <=> c = <<>>
  BY <1>1, EmptySeq
<1>11. run'.outputs[n + 1] = o /\ \A i \in 1..n : run'.outputs[i] = run.outputs[i]
  <2>1. run.outputs \in Seq(OutputType) /\ Len(run.outputs) = n
    BY DEF RunInv, RunTyped
  <2> DEFINE p == run.outputs
  <2>. HIDE DEF n, p
  <2>. QED  BY <2>1, AppendProperties DEF p
<1>4. TypeOK
  BY DEF TwinInv
<1>. HIDE DEF n
<1>5. LastIsLatest'
  <2>1. d[Len(d)] = r
    BY <1>2
  <2>. HIDE DEF Ready
  <2>. QED  BY <1>2, <2>1 DEF LastIsLatest, d
<1>6. ASSUME run'.reset
      PROVE  d[1].step = 1
  <2>1. CASE n = 0
    <3>1. twin.initialized /\ twin.stepCount = 0
      BY <1>3, <1>6, <2>1 DEF RunInv, TwinBehind
    <3>2. Ready = twin
      BY <1>4, <3>1, ReadyType
    <3>. QED  BY <1>2, <2>1, <3>1, <3>2
  <2>2. CASE n # 0
    <3>1. 1 \in 1..n /\ c # <<>>
      BY <1>1, <1>3, <2>2
    <3>. QED  BY <1>2, <1>6, <3>1 DEF RunInv, Consecutive, c
  <2>. QED  BY <2>1, <2>2
<1>7. ASSUME NEW i \in 1..Len(d) - 1
      PROVE  d[i + 1].epoch = d[i].epoch /\ d[i + 1].step = d[i].step + 1
  <2>1. i \in 1..n /\ n # 0
    BY <1>1, <1>2
  <2>2. CASE i < n
    <3>1. i \in 1..n - 1 /\ i + 1 \in 1..n
      BY <1>1, <2>1, <2>2
    <3>2. c[i + 1].epoch = c[i].epoch /\ c[i + 1].step = c[i].step + 1
      BY <3>1 DEF RunInv, Consecutive, c, n
    <3>. QED  BY <1>2, <2>1, <3>1, <3>2
  <2>3. CASE i = n
    <3>1. /\ twin.initialized /\ c[n] = twin.latest
          /\ twin.latest.step = twin.stepCount /\ twin.latest.epoch = epoch
      BY <1>3, <2>1 DEF RunInv, LastIsLatest, c, n
    <3>2. Ready = twin /\ epoch' = epoch
      BY <1>4, <3>1, ReadyType
    <3>. QED  BY <1>2, <2>1, <2>3, <3>1, <3>2
  <2>. QED  BY <1>1, <2>1, <2>2, <2>3
<1>8. Consecutive'
  <2>. HIDE DEF d
  <2>1. /\ d # <<>> /\ run'.reset => d[1].step = 1
        /\ \A i \in 1..Len(d) - 1 : d[i + 1].epoch = d[i].epoch /\ d[i + 1].step = d[i].step + 1
    BY <1>6, <1>7
  <2>. QED  BY <2>1 DEF Consecutive, d
<1>9. ASSUME Len(records') < MaxRecords, NEW k \in 1..Len(d), run'.outputs[k].ours
      PROVE  \E i \in 1..Len(records') : records'[i] = d[k]
  <2>1. /\ Len(records) < MaxRecords
        /\ o.ours => \E i \in 1..Len(records') : records'[i] = r
        /\ \A m \in 1..Len(records) : \E i \in 1..Len(records') : records'[i] = records[m]
    <3>1. CASE o.ours
      BY <1>4, <1>9, <3>1, RecordsGrow
    <3>2. CASE ~o.ours
      <4>1. records' = records
        BY <3>2
      <4>. QED  BY <1>9, <3>2, <4>1
    <3>. QED  BY <3>1, <3>2
  <2>2. CASE k = n + 1
    BY <1>2, <1>9, <1>11, <2>1, <2>2
  <2>3. CASE k # n + 1
    <3>1. k \in 1..n /\ run.outputs[k].ours
      <4>1. k \in 1..n
        BY <1>1, <1>2, <2>3
      <4>2. run'.outputs[k] = run.outputs[k]
        BY <1>11, <4>1
      <4>. QED  BY <1>9, <4>1, <4>2
    <3>2. PICK m \in 1..Len(records) : records[m] = c[k]
      BY <2>1, <3>1 DEF RunInv, AllKept, c, n
    <3>. QED  BY <1>2, <2>1, <3>1, <3>2
  <2>. QED  BY <2>2, <2>3
<1>10. AllKept'
  BY <1>9 DEF AllKept, d
<1>12. InStep'
  <2>1. ASSUME NEW k \in 1..Len(d)
        PROVE  run'.outputs[k].time = d[k].time
    <3>1. CASE k = n + 1
      BY <1>2, <1>11, <3>1
    <3>2. CASE k # n + 1
      <4>1. k \in 1..n
        BY <1>1, <1>2, <3>2
      <4>. QED  BY <1>2, <1>11, <4>1 DEF RunInv, InStep, c, n
    <3>. QED  BY <3>1, <3>2
  <2>. QED  BY <2>1 DEF InStep, d
<1>. QED  BY <1>5, <1>8, <1>10, <1>12

LEMMA ReplayStepKept ==
  ASSUME TwinInv, RunInv, ReplayStep
  PROVE  TwinInv' /\ RunInv'
<1> DEFINE time == Head(run.queue).time
           ours == Head(run.queue).ours
<1>1. run.phase = "stepping" /\ run.queue # <<>> /\ UNCHANGED <<history, lastTimestamp>>
  BY DEF ReplayStep
<1>2. PICK observed \in Head(run.queue).voltages, simulated \in Volts[run.source] \ {0} :
        run' = Executed(Head(run.queue), observed, simulated)
  BY DEF ReplayStep
<1>3. Performed(time, Direct, ours)
  BY DEF ReplayStep, Performed
<1>4. Received(time, Direct, ours)
  BY <1>3 DEF Performed
<1>5. Fed(time, Direct, ours)
  BY <1>1, <1>4 DEF Fed
<1>6. /\ run.queue \in Seq(SnapshotType) /\ run.outputs \in Seq(OutputType)
      /\ run.records \in Seq(Record) /\ Len(run.outputs) = Len(run.records)
      /\ DOMAIN run = DOMAIN NoRun
  BY DEF RunInv, RunTyped
<1> DEFINE o == Output(Head(run.queue), observed, simulated)
<1>7. DOMAIN run' = DOMAIN NoRun
  BY <1>2, <1>6 DEF Executed
<1>8. /\ run'.phase = run.phase /\ run'.source = run.source /\ run'.reset = run.reset
      /\ run'.queue = Tail(run.queue) /\ run'.outputs = Append(run.outputs, o)
      /\ run'.records = Append(run.records, twin'.latest)
  <2>1. /\ "phase" \in DOMAIN run /\ "source" \in DOMAIN run /\ "queue" \in DOMAIN run
        /\ "outputs" \in DOMAIN run /\ "records" \in DOMAIN run /\ "reset" \in DOMAIN run
    BY RunFields DEF RunInv
  <2>. HIDE DEF o
  <2>2. run' = [run EXCEPT !.queue = Tail(@), !.outputs = Append(@, o),
                           !.records = Append(@, twin'.latest),
                           !.reports = IF twin'.report = NoLifecycle THEN @ ELSE @ + 1]
    BY <1>2 DEF Executed, o
  <2>. QED  BY <2>1, <2>2
<1>9. /\ QueueReady' /\ run'.queue \in Seq(SnapshotType)
      /\ time \in Time
      /\ run.source # "csv" => \A i \in 1..Len(run'.queue) : time <= run'.queue[i].time
  BY <1>1, <1>8, QueueAdvances
<1>14. Head(run.queue) \in SnapshotType
  BY <1>1, <1>6, HeadTailProperties
<1>. HIDE DEF time
<1>10. /\ TwinInv'
       /\ twin'.initialized = TRUE
       /\ twin'.prevTime = time /\ twin'.stepCount = Ready.stepCount + 1
       /\ twin'.latest = [epoch |-> epoch', step |-> Ready.stepCount + 1, time |-> time]
       /\ twin'.latest \in Record
       /\ IF ours THEN RecordStored(twin'.latest) ELSE UNCHANGED records
  <2>1. ours \in BOOLEAN
    BY <1>14 DEF SnapshotType
  <2>. HIDE DEF ours
  <2>. QED  BY <1>1, <1>3, <1>5, <1>9, <2>1, SuccessTyped
<1>15. o \in OutputType /\ o.time = time /\ o.ours = ours
  <2>1. observed \in Nat /\ simulated \in Nat
    <3>1. run.source \in Sources
      BY <1>1 DEF RunInv, RunTyped
    <3>. QED  BY <1>14, <3>1, VoltagesAreNumbers DEF SnapshotType
  <2>. QED  BY <1>14, <2>1 DEF SnapshotType, OutputType, Output, time
<1>. HIDE DEF ours
<1>11. RunTyped'
  <2>1. o \in OutputType
    BY <1>15
  <2>. HIDE DEF o
  <2>2. /\ run'.outputs \in Seq(OutputType) /\ run'.records \in Seq(Record)
        /\ Len(run'.outputs) = Len(run'.records)
    BY <1>6, <1>8, <1>10, <2>1, AppendProperties
  <2>3. run.source \in Sources
    BY <1>1 DEF RunInv, RunTyped
  <2>. QED  BY <1>1, <1>7, <1>8, <1>9, <2>2, <2>3 DEF RunTyped
<1>12. LastIsLatest' /\ Consecutive' /\ AllKept' /\ InStep'
  <2>1. epoch' = IF twin.initialized THEN epoch ELSE epoch + 1
    BY <1>4 DEF Received
  <2>2. /\ twin'.latest.step = Ready.stepCount + 1 /\ twin'.latest.epoch = epoch'
        /\ twin'.latest.time = time
    BY <1>10
  <2>3. o.time = twin'.latest.time /\ (IF o.ours THEN RecordStored(twin'.latest) ELSE UNCHANGED records)
    BY <1>10, <1>15, <2>2
  <2>. HIDE DEF Ready, o
  <2>. QED  BY <1>1, <1>8, <1>10, <1>15, <2>1, <2>2, <2>3, CollectedKept
<1>13. TwinBehind'
  <2>1. run'.records # <<>>
    <3>1. Len(run'.records) = Len(run.records) + 1
      BY <1>6, <1>8, <1>10, AppendProperties
    <3>. QED  BY <1>6, <3>1, EmptySeq
  <2>. QED  BY <1>8, <1>9, <1>10, <2>1 DEF TwinBehind
<1>. QED  BY <1>9, <1>10, <1>11, <1>12, <1>13 DEF RunInv

\* A step that fails leaves the instance where it was, and what was collected.
LEMMA ReplayStepFailsKept ==
  ASSUME TwinInv, RunInv, ReplayStepFails
  PROVE  TwinInv' /\ RunInv'
<1> DEFINE time == Head(run.queue).time
           ours == Head(run.queue).ours
<1>1. /\ run.phase = "stepping" /\ run.queue # <<>> /\ StepFails(time, Direct, ours)
      /\ UNCHANGED lastTimestamp
      /\ run' = IF run.raise THEN NoRun ELSE Skipped
  BY DEF ReplayStepFails
<1>2. Fed(time, Direct, ours)
  BY <1>1 DEF Fed, StepFails
<1>3. time \in Time
  <2>1. run.queue \in Seq(SnapshotType)
    BY DEF RunInv, RunTyped
  <2>2. 1 \in 1..Len(run.queue) /\ Head(run.queue) = run.queue[1]
    BY <1>1, <2>1
  <2>. QED  BY <1>1, <2>2 DEF RunInv, QueueReady, Timed
<1>7. ours \in BOOLEAN
  <2>1. run.queue \in Seq(SnapshotType)
    BY DEF RunInv, RunTyped
  <2>2. Head(run.queue) \in SnapshotType
    BY <1>1, <2>1, HeadTailProperties
  <2>. QED  BY <2>2 DEF SnapshotType
<1>. HIDE DEF time, ours
<1>4. /\ TwinInv'
      /\ twin'.initialized = TRUE
      /\ twin'.prevTime = Ready.prevTime /\ twin'.stepCount = Ready.stepCount
      /\ twin'.latest = Ready.latest
  BY <1>1, <1>2, <1>3, <1>7, FailureTyped
<1>5. CASE run.raise
  BY <1>1, <1>4, <1>5, DroppedKept
<1>6. CASE ~run.raise
  <2>1. run' = [run EXCEPT !.queue = Tail(@), !.skipped = @ + 1]
    BY <1>1, <1>6 DEF Skipped
  <2>2. /\ DOMAIN run' = DOMAIN run
        /\ run'.phase = run.phase /\ run'.source = run.source /\ run'.reset = run.reset
        /\ run'.queue = Tail(run.queue) /\ run'.outputs = run.outputs
        /\ run'.records = run.records
    BY <2>1, RunFields DEF RunInv
  <2>3. /\ QueueReady' /\ run'.queue \in Seq(SnapshotType)
        /\ \A i \in 1..Len(run'.queue) : \E k \in 1..Len(run.queue) : run'.queue[i] = run.queue[k]
    BY <1>1, <2>2, QueueAdvances
  <2>4. RunTyped'
    BY <2>2, <2>3 DEF RunInv, RunTyped
  <2>5. records' = records /\ TypeOK
    BY <1>1 DEF StepFails, TwinInv
  <2>6. ASSUME twin.initialized
        PROVE  /\ twin'.prevTime = twin.prevTime /\ twin'.stepCount = twin.stepCount
               /\ twin'.latest = twin.latest /\ epoch' = epoch
    BY <1>2, <1>4, <2>5, <2>6, ReadyType DEF Fed, Received
  <2>7. TwinBehind'
    <3>. SUFFICES ASSUME run.reset
         PROVE  /\ run.records = <<>> => twin'.stepCount = 0
                /\ run.source # "csv" => \A i \in 1..Len(run'.queue) : twin'.prevTime <= run'.queue[i].time
      BY <1>4, <2>2 DEF TwinBehind
    <3>1. /\ twin.initialized
          /\ run.records = <<>> => twin.stepCount = 0
          /\ run.source # "csv" => \A i \in 1..Len(run.queue) : twin.prevTime <= run.queue[i].time
      BY <1>1 DEF RunInv, TwinBehind
    <3>. QED  BY <2>3, <2>6, <3>1
  <2>8. LastIsLatest'
    BY <1>4, <2>2, <2>6 DEF RunInv, LastIsLatest
  <2>9. Consecutive' /\ AllKept' /\ InStep'
    BY <2>2, <2>5 DEF RunInv, Consecutive, AllKept, InStep
  <2>. QED  BY <1>4, <2>3, <2>4, <2>7, <2>8, <2>9 DEF RunInv
<1>. QED  BY <1>5, <1>6

-----------------------------------------------------------------------------
(* The specification.                                                      *)

LEMMA ReplayInitInv == ReplayInit => ReplayInv
<1>. SUFFICES ASSUME ReplayInit  PROVE ReplayInv
  OBVIOUS
<1>1. Init /\ run = NoRun
  BY DEF ReplayInit
<1>2. TypeOK
  BY <1>1, InitInv DEF Inv
<1>3. TelemetrySorted
  <2>1. Len(telemetry) = 0
    BY <1>1, EmptySeq DEF Init
  <2>. QED  BY <2>1 DEF TelemetrySorted
<1>4. /\ <<>> \in Seq(SnapshotType) /\ <<>> \in Seq(OutputType) /\ <<>> \in Seq(Record)
      /\ Len(<<>>) = 0
  BY EmptySeq
<1>5. RunTyped
  BY <1>1, <1>4, NoRunFields DEF RunTyped
<1>6. QueueReady /\ TwinBehind /\ LastIsLatest /\ Consecutive /\ AllKept /\ InStep
  BY <1>1, <1>4, NoRunFields
     DEF QueueReady, Rising, Timed, TwinBehind, LastIsLatest, Consecutive, AllKept, InStep
<1>. QED  BY <1>2, <1>3, <1>5, <1>6 DEF ReplayInv, TwinInv, RunInv

LEMMA TwinUnchanged ==
  ASSUME TwinInv, UNCHANGED vars
  PROVE  TwinInv'
BY DEF TwinInv, TypeOK, TelemetrySorted, vars

\* Between replays the twin does what it likes.
LEMMA LiveKept ==
  ASSUME TwinInv, RunInv, run.phase = "none", Next, UNCHANGED run
  PROVE  TwinInv' /\ RunInv'
<1>1. run.records = <<>> /\ run.outputs = <<>>
  BY EmptySeq DEF RunInv, RunTyped
<1>2. RunInv'
  BY <1>1, NotSteppingKept DEF RunInv, RunTyped, QueueReady
<1>. QED  BY <1>2, TwinStepTyped

LEMMA ReplayNextInv == ReplayInv /\ [ReplayNext]_replayVars => ReplayInv'
<1>. SUFFICES ASSUME TwinInv, RunInv, [ReplayNext]_replayVars  PROVE TwinInv' /\ RunInv'
  BY DEF ReplayInv
<1>1. CASE run.phase = "none" /\ Next /\ UNCHANGED <<run, result, replays>>
  BY <1>1, LiveKept
<1>2. CASE FromProfile
  <2>1. UNCHANGED vars
    BY <1>2 DEF FromProfile, Prepared
  <2>. QED  BY <1>2, <2>1, FromProfileKept, TwinUnchanged
<1>3. ASSUME NEW first, NEW last, FromRepository(first, last)
      PROVE  TwinInv' /\ RunInv'
  <2>1. UNCHANGED vars
    BY <1>3 DEF FromRepository, Prepared
  <2>. QED  BY <1>3, <2>1, FromRepositoryKept, TwinUnchanged
<1>4. ASSUME NEW n \in 1..MaxSamples, NEW times \in [1..n -> Time],
             NEW ours \in [1..n -> BOOLEAN], FromCsv(times, ours)
      PROVE  TwinInv' /\ RunInv'
  <2>1. UNCHANGED vars
    BY <1>4 DEF FromCsv, Prepared
  <2>. QED  BY <1>4, <2>1, FromCsvKept, TwinUnchanged
<1>5. CASE Begin
  BY <1>5, BeginKept
<1>6. CASE BeginFails
  BY <1>6, BeginFailsKept
<1>7. CASE Dismiss
  BY <1>7, DroppedKept, TwinUnchanged DEF Dismiss
<1>8. CASE ReplayStep
  BY <1>8, ReplayStepKept
<1>9. CASE ReplayStepFails
  BY <1>9, ReplayStepFailsKept
<1>10. CASE Finish
  BY <1>10, DroppedKept, TwinUnchanged DEF Finish
<1>11. CASE UNCHANGED replayVars
  <2>1. UNCHANGED vars /\ UNCHANGED run
    BY <1>11 DEF replayVars
  <2>2. UNCHANGED <<twin, epoch, records>>
    BY <2>1 DEF vars
  <2>3. RunInv'
    BY <2>1, <2>2 DEF RunInv, RunTyped, QueueReady, Rising, Timed, TwinBehind, LastIsLatest,
                      Consecutive, AllKept, InStep
  <2>. QED  BY <2>1, <2>3, TwinUnchanged
<1>. QED  BY <1>1, <1>2, <1>3, <1>4, <1>5, <1>6, <1>7, <1>8, <1>9, <1>10, <1>11 DEF ReplayNext

LEMMA ReplayInvHolds == ReplaySpec => []ReplayInv
BY ReplayInitInv, ReplayNextInv, PTL DEF ReplaySpec

\* The variables of the live twin keep their types and the repositories their
\* capacities, whatever is replayed into it and wherever a replay fails.
THEOREM ReplaysTypeCorrect == ReplaySpec => []TypeOK
<1>1. ReplayInv => TypeOK
  BY DEF ReplayInv, TwinInv
<1>. QED  BY <1>1, ReplayInvHolds, PTL

\* engine.py:131-187: a profile or a range of the repository that is replayed
\* into a twin that was reset is never refused for clock skew, however long it
\* is, whichever of its steps fail, and whatever the twin had been fed before.
THEOREM OrderedAreAccepted == ReplaySpec => []OrderedReplaysAreNotSkewed
<1>1. ReplayInv => OrderedReplaysAreNotSkewed
  <2>. SUFFICES ASSUME ReplayInv, run.phase = "stepping", run.queue # <<>>,
                       run.source # "csv", run.reset
       PROVE  ~Skewed(Head(run.queue).time)
    BY DEF OrderedReplaysAreNotSkewed
  <2>1. run.queue \in Seq(SnapshotType) /\ TypeOK
    BY DEF ReplayInv, RunInv, RunTyped, TwinInv
  <2>2. 1 \in 1..Len(run.queue) /\ Head(run.queue) = run.queue[1]
    BY <2>1
  <2>3. twin.initialized /\ twin.prevTime <= Head(run.queue).time
    BY <2>2 DEF ReplayInv, RunInv, TwinBehind
  <2>4. Head(run.queue).time \in Nat
    <3>1. Head(run.queue) \in SnapshotType
      BY <2>1, <2>2, ElementOfSeq
    <3>. QED  BY <3>1 DEF SnapshotType
  <2>5. twin.prevTime \in Nat
    <3>1. twin.prevTime \in {Never} \union Time
      BY <2>1 DEF TypeOK, Instance
    <3>. QED  BY <3>1, TimeIsNat
  <2>6. Ready = twin
    BY <2>1, <2>3, ReadyType
  <2>. QED  BY <2>3, <2>4, <2>5, <2>6 DEF Skewed
<1>. QED  BY <1>1, ReplayInvHolds, PTL

\* engine.py:159-187: what a replay collects is one run of the twin: an output
\* for each record, of the same sample, consecutive steps of one initialization
\* up to the latest of the twin, and those of samples that name the system in
\* its state history until that is full.
THEOREM CollectedIsOneRun == ReplaySpec => []ResultIsOneRun
<1>1. ReplayInv => ResultIsOneRun
  <2> DEFINE c == run.records
             n == Len(c)
  <2>. SUFFICES ASSUME ReplayInv, n > 0
       PROVE  /\ Len(run.outputs) = n
              /\ c[n] = twin.latest
              /\ run.reset => c[1].step = 1
              /\ \A i \in 1..n - 1 :
                   c[i + 1] = [c[i] EXCEPT !.step = @ + 1, !.time = c[i + 1].time]
              /\ \A i \in 1..n : run.outputs[i].time = c[i].time
              /\ Len(records) < MaxRecords =>
                   \A i \in 1..n : run.outputs[i].ours => c[i] \in ToSet(records)
    BY DEF ResultIsOneRun
  <2>1. c \in Seq(Record) /\ n \in Nat /\ c # <<>> /\ Len(run.outputs) = n /\ RunInv
    BY EmptySeq DEF ReplayInv, RunInv, RunTyped
  <2>2. records \in Seq(Record)
    BY DEF ReplayInv, TwinInv, TypeOK
  <2>3. c[n] = twin.latest /\ (run.reset => c[1].step = 1)
    BY <2>1 DEF RunInv, LastIsLatest, Consecutive
  <2>4. ASSUME NEW i \in 1..n - 1
        PROVE  c[i + 1] = [c[i] EXCEPT !.step = @ + 1, !.time = c[i + 1].time]
    <3>1. c[i] \in Record /\ c[i + 1] \in Record
      <4>1. i \in 1..n /\ i + 1 \in 1..n
        BY <2>1
      <4>. QED  BY <2>1, <4>1, ElementOfSeq
    <3>2. c[i + 1].epoch = c[i].epoch /\ c[i + 1].step = c[i].step + 1
      BY <2>1 DEF RunInv, Consecutive
    <3>3. \A a, b \in Record : b.epoch = a.epoch /\ b.step = a.step + 1 =>
            b = [a EXCEPT !.step = @ + 1, !.time = b.time]
      BY DEF Record
    <3>. HIDE DEF c
    <3>. QED  BY <3>1, <3>2, <3>3
  <2>5. ASSUME Len(records) < MaxRecords
        PROVE  \A i \in 1..n : run.outputs[i].ours => c[i] \in ToSet(records)
    <3>1. \A k \in 1..n : run.outputs[k].ours => \E i \in 1..Len(records) : records[i] = c[k]
      BY <2>1, <2>5 DEF RunInv, AllKept
    <3>2. DOMAIN records = 1..Len(records)
      BY <2>2
    <3>. HIDE DEF c, n
    <3>. QED  BY <3>1, <3>2 DEF ToSet
  <2>6. \A i \in 1..n : run.outputs[i].time = c[i].time
    BY <2>1 DEF RunInv, InStep
  <2>. QED  BY <2>1, <2>3, <2>4, <2>5, <2>6
<1>. QED  BY <1>1, ReplayInvHolds, PTL

-----------------------------------------------------------------------------
(* A schedule whose phases the interval divides.                           *)

\* The samples of phase k, and of them all.
Phase(schedule, dt, k) == schedule[k][1] \div dt
Samples(schedule, dt) == [k \in 1..Len(schedule) |-> Phase(schedule, dt, k)]

IsSchedule(schedule, dt) ==
  /\ dt \in Nat \ {0} /\ Len(schedule) \in Nat /\ DOMAIN schedule = 1..Len(schedule)
  /\ \A k \in 1..Len(schedule) : schedule[k][1] \in Nat

Divides(schedule, dt) == \A k \in DOMAIN schedule : schedule[k][1] % dt = 0

\* A phase that the interval divides is held for the quotient.
LEMMA PhaseIs ==
  ASSUME NEW dt \in Nat \ {0}, NEW d \in Nat, d % dt = 0
  PROVE  d \div dt \in Nat /\ d = dt * (d \div dt) /\ Held(d, dt) = d \div dt
  <1> DEFINE q == d \div dt
  <1>1. q \in Int /\ d = (dt * q) + 0 /\ q >= 0
    <2>1. d \div dt \in Int /\ d = (dt * (d \div dt)) + (d % dt)
      BY Divided
    <2>2. d \div dt >= 0
      OBVIOUS
    <2>3. QED
      BY <2>1, <2>2
  <1>2. dt - 1 \in 0..dt - 1 /\ d + dt - 1 = (dt * q) + (dt - 1)
    BY <1>1
  <1> HIDE DEF q
  <1>3. ((dt * q) + (dt - 1)) \div dt = q
    BY <1>1, <1>2, Quotient
  <1>4. Held(d, dt) = q
    BY <1>2, <1>3 DEF Held
  <1>5. QED
    BY <1>1, <1>4 DEF q

\* How long the phases are together is a multiple of the interval.
LEMMA StartIs ==
  ASSUME NEW schedule, NEW dt, IsSchedule(schedule, dt), Divides(schedule, dt),
         NEW k \in 0..Len(schedule)
  PROVE  LET start == Total([i \in 1..k |-> schedule[i][1]])
             count == SumOf(Samples(schedule, dt), k) IN
         start = dt * count /\ start \div dt = count /\ count \in Nat
  <1> DEFINE m == Len(schedule)
             durations == [i \in 1..m |-> schedule[i][1]]
             samples == Samples(schedule, dt)
             T == {i \in Nat : i <= m /\ SumOf(durations, i) # dt * SumOf(samples, i)}
  <1>1. dt \in Nat \ {0} /\ m \in Nat /\ DOMAIN schedule = 1..m /\ \A i \in 1..m : schedule[i][1] \in Nat
    BY DEF IsSchedule
  <1>2. \A i \in 1..m : samples[i] \in Nat /\ durations[i] = dt * samples[i]
    <2> SUFFICES ASSUME NEW i \in 1..m PROVE samples[i] \in Nat /\ durations[i] = dt * samples[i]
      OBVIOUS
    <2>1. schedule[i][1] \in Nat /\ schedule[i][1] % dt = 0
      BY <1>1 DEF Divides
    <2>2. samples[i] = schedule[i][1] \div dt /\ durations[i] = schedule[i][1]
      BY DEF Samples, Phase
    <2>3. QED
      BY <1>1, <2>1, <2>2, PhaseIs
  <1> HIDE DEF samples, durations, m
  <1>3. \A i \in 0..m : SumOf(samples, i) \in Nat
    <2> SUFFICES ASSUME NEW i \in 0..m PROVE SumOf(samples, i) \in Nat
      OBVIOUS
    <2>1. \A j \in 1..m : samples[j] \in Nat
      BY <1>2
    <2>2. i <= i
      OBVIOUS
    <2>3. QED
      BY <1>1, <2>1, <2>2, SumsGrow
  <1>4. T = {}
    <2> SUFFICES ASSUME T # {} PROVE FALSE
      OBVIOUS
    <2>1. PICK i \in T : \A j \in T : i <= j
      BY LeastNumber
    <2>2. i \in Nat /\ i <= m /\ SumOf(durations, i) # dt * SumOf(samples, i)
      OBVIOUS
    <2>3. /\ SumOf(durations, i) = IF i = 0 THEN 0 ELSE SumOf(durations, i - 1) + durations[i]
          /\ SumOf(samples, i) = IF i = 0 THEN 0 ELSE SumOf(samples, i - 1) + samples[i]
      BY <2>2, SumIs
    <2>4. i # 0
      BY <1>1, <2>2, <2>3
    <2>5. i \in 1..m /\ i - 1 \in 0..m
      BY <1>1, <2>2, <2>4
    <2>6. i - 1 \notin T
      <3> HIDE DEF T
      <3>1. ASSUME i - 1 \in T PROVE FALSE
        <4>1. i <= i - 1
          BY <2>1, <3>1
        <4>2. QED
          BY <2>2, <4>1
      <3>2. QED
        BY <3>1
    <2>7. SumOf(durations, i - 1) = dt * SumOf(samples, i - 1)
      BY <2>5, <2>6
    <2> DEFINE a == SumOf(samples, i - 1)
               b == samples[i]
    <2>8. a \in Nat /\ b \in Nat /\ durations[i] = dt * b
      BY <1>2, <1>3, <2>5
    <2>9. SumOf(durations, i) = (dt * a) + (dt * b) /\ SumOf(samples, i) = a + b
      BY <2>3, <2>4, <2>7, <2>8
    <2> HIDE DEF a, b
    <2>10. dt * (a + b) = (dt * a) + (dt * b)
      BY <1>1, <2>8
    <2>11. QED
      BY <2>2, <2>9, <2>10
  <1>5. SumOf(durations, k) = dt * SumOf(samples, k)
    <2>1. k \in Nat /\ k <= m /\ k \notin T
      BY <1>1, <1>4 DEF m
    <2>2. QED
      BY <2>1
  <1> DEFINE first == [i \in 1..k |-> schedule[i][1]]
  <1>6. Total(first) = SumOf(durations, k)
    <2>1. k \in Nat /\ k <= m
      BY <1>1 DEF m
    <2>2. Len(first) = k
      <3> DEFINE R == {schedule[i][1] : i \in 1..k}
      <3>1. first \in Seq(R)
        BY <2>1
      <3>2. DOMAIN first = 1..k
        OBVIOUS
      <3> HIDE DEF first, R
      <3>3. QED
        BY <2>1, <3>1, <3>2
    <2>3. \A i \in 1..k : first[i] = durations[i]
      BY <1>1, <2>1 DEF durations
    <2> HIDE DEF first
    <2>4. Total(first) = SumOf(first, k)
      BY <2>1, <2>2, TotalIs
    <2>5. SumOf(first, k) = SumOf(durations, k)
      BY <2>1, <2>3, SumAgrees
    <2>6. QED
      BY <2>4, <2>5
  <1>7. SumOf(samples, k) \in Nat
    BY <1>3 DEF m
  <1> DEFINE c == SumOf(samples, k)
  <1>8. (dt * c) \div dt = c
    <2>1. 0 \in 0..dt - 1 /\ c \in Int
      BY <1>1, <1>7
    <2> HIDE DEF c
    <2>2. ((dt * c) + 0) \div dt = c
      BY <1>1, <2>1, Quotient
    <2>3. (dt * c) + 0 = dt * c
      BY <1>1, <2>1
    <2>4. QED
      BY <2>2, <2>3
  <1>9. QED
    BY <1>5, <1>6, <1>7, <1>8 DEF samples

\* A sequence has in the place of every sample the current of its phase.
KeepsPhases(f, schedule, dt) ==
  /\ f \in Seq({schedule[k][2] : k \in 1..Len(schedule)})
  /\ Len(f) = SumOf(Samples(schedule, dt), Len(schedule))
  /\ \A k \in 1..Len(schedule) :
       \A i \in SumOf(Samples(schedule, dt), k - 1) + 1..SumOf(Samples(schedule, dt), k) :
         f[i] = schedule[k][2]

\* Followed, a schedule whose phases the interval divides keeps each of them
\* for its whole time, and nothing between.
LEMMA FollowIs ==
  ASSUME NEW schedule, NEW dt, IsSchedule(schedule, dt), Divides(schedule, dt), Len(schedule) # 0
  PROVE  KeepsPhases(Follow(schedule, dt), schedule, dt)
  <1> DEFINE m == Len(schedule)
             count(k) == SumOf(Samples(schedule, dt), k)
             V == {schedule[k][2] : k \in 1..m}
             block(k) == [i \in 1..Held(schedule[k][1], dt) |-> schedule[k][2]]
             blocks == [k \in DOMAIN schedule |-> block(k)]
             flat(k) == FlatOf(blocks, k)
             Follows(l) == /\ flat(l) \in Seq(V) /\ Len(flat(l)) = count(l)
                           /\ \A k \in 1..l : \A i \in count(k - 1) + 1..count(k) :
                                flat(l)[i] = schedule[k][2]
             T == {l \in Nat : 1 <= l /\ l <= m /\ ~Follows(l)}
  <1>1. dt \in Nat \ {0} /\ m \in Nat /\ DOMAIN schedule = 1..m /\ \A i \in 1..m : schedule[i][1] \in Nat
    BY DEF IsSchedule
  <1>2. ASSUME NEW k \in 1..m
        PROVE  /\ k - 1 \in 0..m /\ k \in 0..m /\ k \in Nat /\ Phase(schedule, dt, k) \in Nat
               /\ count(k) = count(k - 1) + Phase(schedule, dt, k)
               /\ block(k) \in Seq(V) /\ Len(block(k)) = Phase(schedule, dt, k)
               /\ \A i \in 1..Phase(schedule, dt, k) : block(k)[i] = schedule[k][2]
    <2> DEFINE h == Phase(schedule, dt, k)
    <2>1. schedule[k][1] \in Nat /\ schedule[k][1] % dt = 0
      BY <1>1 DEF Divides
    <2>2. h \in Nat /\ Held(schedule[k][1], dt) = h
      BY <1>1, <2>1, PhaseIs DEF Phase
    <2>3. Samples(schedule, dt)[k] = h
      BY DEF Samples
    <2>4. k \in Nat /\ k # 0 /\ k - 1 \in 0..m /\ k \in 0..m
      BY <1>1
    <2>5. count(k) = count(k - 1) + h
      BY <2>3, <2>4, SumIs
    <2> HIDE DEF h
    <2>6. block(k) = [i \in 1..h |-> schedule[k][2]]
      BY <2>2
    <2>7. schedule[k][2] \in V
      OBVIOUS
    <2> HIDE DEF V
    <2>8. block(k) \in Seq(V) /\ DOMAIN block(k) = 1..h /\ \A i \in 1..h : block(k)[i] = schedule[k][2]
      <3> HIDE DEF block
      <3>1. QED
        BY <2>2, <2>6, <2>7
    <2>9. Len(block(k)) = h
      <3> HIDE DEF block
      <3>1. QED
        BY <2>2, <2>8
    <2>10. QED
      BY <2>2, <2>4, <2>5, <2>8, <2>9 DEF h
  <1>3. \A k \in 1..m : blocks[k] = block(k)
    BY <1>1
  <1>4. count(0) = 0
    BY SumIs
  <1>5. \A k, l \in 0..m : k <= l => count(k) \in Nat /\ count(l) \in Nat /\ count(k) <= count(l)
    <2> SUFFICES ASSUME NEW k \in 0..m, NEW l \in 0..m, k <= l
                 PROVE  count(k) \in Nat /\ count(l) \in Nat /\ count(k) <= count(l)
      OBVIOUS
    <2>1. \A i \in 1..m : Samples(schedule, dt)[i] \in Nat
      BY <1>2 DEF Samples
    <2>2. QED
      BY <1>1, <2>1, SumsGrow
  <1> HIDE DEF count, block, blocks, m, V
  <1>6. T = {}
    <2> SUFFICES ASSUME T # {} PROVE FALSE
      OBVIOUS
    <2>1. PICK l \in T : \A j \in T : l <= j
      BY LeastNumber
    <2>2. l \in Nat /\ 1 <= l /\ l <= m /\ l \in 1..m /\ ~Follows(l)
      BY <1>1
    <2>3. flat(l) = IF l = 1 THEN blocks[1] ELSE flat(l - 1) \o blocks[l]
      BY <2>2, FlatIs
    <2>4. blocks[l] = block(l)
      BY <1>3, <2>2
    <2> DEFINE h == Phase(schedule, dt, l)
    <2>5. /\ h \in Nat /\ count(l) = count(l - 1) + h /\ block(l) \in Seq(V) /\ Len(block(l)) = h
          /\ \A i \in 1..h : block(l)[i] = schedule[l][2]
      BY <1>2, <2>2
    <2> HIDE DEF h
    <2>6. CASE l = 1
      <3>1. count(l - 1) = 0 /\ count(l) = h
        BY <1>4, <2>5, <2>6
      <3>2. flat(l) = block(l)
        BY <2>3, <2>4, <2>6
      <3>3. \A k \in 1..l : k = l
        BY <2>6
      <3>4. \A i \in count(l - 1) + 1..count(l) : flat(l)[i] = schedule[l][2]
        BY <2>5, <3>1, <3>2
      <3> HIDE DEF flat
      <3>5. Follows(l)
        BY <2>5, <3>1, <3>2, <3>3, <3>4
      <3>6. QED
        BY <2>2, <3>5
    <2>7. CASE l # 1
      <3>1. l - 1 \in Nat /\ 1 <= l - 1 /\ l - 1 <= m /\ ~(l <= l - 1)
        <4>1. l \in Nat /\ 1 <= l /\ l <= m /\ m \in Nat /\ l # 1
          BY <1>1, <2>2, <2>7
        <4> HIDE DEF T
        <4>2. QED
          BY <4>1
      <3>2. l - 1 \notin T
        <4> HIDE DEF T
        <4>1. QED
          BY <2>1, <3>1
      <3>3. Follows(l - 1)
        <4> HIDE DEF Follows
        <4>1. QED
          BY <3>1, <3>2
      <3> DEFINE p == flat(l - 1)
                 q == block(l)
                 c == count(l - 1)
      <3>4. /\ p \in Seq(V) /\ Len(p) = c
            /\ \A k \in 1..l - 1 : \A i \in count(k - 1) + 1..count(k) : p[i] = schedule[k][2]
        BY <3>3
      <3>5. flat(l) = p \o q
        BY <2>3, <2>4, <2>7
      <3>6. c \in Nat /\ count(l) = c + h
        <4>1. l - 1 \in 0..m /\ l - 1 <= l - 1
          BY <1>1, <3>1
        <4>2. QED
          BY <1>5, <2>5, <4>1
      <3> HIDE DEF flat, p, q, c
      <3>7. q \in Seq(V) /\ Len(q) = h /\ \A i \in 1..h : q[i] = schedule[l][2]
        BY <2>5 DEF q
      <3>8. flat(l) \in Seq(V) /\ Len(flat(l)) = c + h
        <4>1. p \o q \in Seq(V)
          BY <3>4, <3>7
        <4>2. Len(p \o q) = Len(p) + Len(q)
          BY <3>4, <3>7
        <4>3. QED
          BY <3>4, <3>5, <3>7, <4>1, <4>2
      <3>9. \A i \in 1..c : flat(l)[i] = p[i]
        BY <3>4, <3>5, <3>6, <3>7, <2>5
      <3>10. \A i \in c + 1..c + h : flat(l)[i] = q[i - c]
        BY <3>4, <3>5, <3>6, <3>7, <2>5
      <3>11. ASSUME NEW k \in 1..l, NEW i \in count(k - 1) + 1..count(k)
             PROVE  flat(l)[i] = schedule[k][2]
        <4>1. CASE k = l
          <5>1. i \in c + 1..c + h
            BY <3>6, <4>1 DEF c
          <5>2. i - c \in 1..h
            BY <2>5, <3>6, <5>1
          <5>3. QED
            BY <3>7, <3>10, <4>1, <5>1, <5>2
        <4>2. CASE k # l
          <5>1. k \in 1..l - 1 /\ k \in 0..m /\ k - 1 \in 0..m /\ l - 1 \in 0..m /\ k <= l - 1 /\ k - 1 <= l - 1
            BY <1>1, <2>2, <4>2
          <5>2. count(k - 1) \in Nat /\ count(k) \in Nat /\ count(k) <= c
            BY <1>5, <5>1 DEF c
          <5>3. i \in 1..c
            BY <3>6, <5>2
          <5>4. p[i] = schedule[k][2]
            BY <3>4, <5>1
          <5>5. QED
            BY <3>9, <5>3, <5>4
        <4>3. QED
          BY <4>1, <4>2
      <3>12. Follows(l)
        BY <3>6, <3>8, <3>11
      <3>13. QED
        BY <2>2, <3>12
    <2>8. QED
      BY <2>6, <2>7
  <1>7. Follows(m)
    <2> HIDE DEF Follows
    <2>1. m \in Nat /\ 1 <= m /\ m <= m
      BY <1>1 DEF m
    <2>2. m \notin T
      <3> HIDE DEF T
      <3>1. QED
        BY <1>6
    <2>3. QED
      BY <2>1, <2>2
  <1>8. Len(blocks) = m
    <2>1. blocks \in Seq({block(k) : k \in 1..m}) /\ DOMAIN blocks = 1..m
      BY <1>1 DEF blocks
    <2> HIDE DEF blocks
    <2>2. QED
      BY <1>1, <2>1
  <1>9. Follow(schedule, dt) = flat(m)
    <2>1. Follow(schedule, dt) = FlattenSeq(blocks)
      BY DEF Follow, blocks, block
    <2>2. m # 0
      BY DEF m
    <2>3. QED
      BY <1>8, <2>1, <2>2, FlattenIs
  <1>10. QED
    BY <1>7, <1>9 DEF m, count, V, KeepsPhases

-----------------------------------------------------------------------------
(* The points of a profile.                                                *)

\* The points of a profile are at later and later times.
LEMMA PointsRise ==
  ASSUME NEW points, IsProfile(points)
  PROVE  LET n == Len(points) IN
         /\ n \in Nat \ {0} /\ DOMAIN points = 1..n /\ \A i \in 1..n : points[i] \in ProfilePoint
         /\ \A i, j \in 1..n : i < j => points[i].time < points[j].time
  <1> DEFINE n == Len(points)
             at(i) == points[i].time
             T == {j \in Nat : j <= n /\ \E i \in 1..n : i < j /\ ~(at(i) < at(j))}
  <1>1. /\ n \in Nat \ {0} /\ DOMAIN points = 1..n /\ \A i \in 1..n : points[i] \in ProfilePoint
        /\ \A i \in 2..n : at(i - 1) < at(i)
    BY DEF IsProfile
  <1>2. \A i \in 1..n : at(i) \in Nat
    BY <1>1 DEF ProfilePoint
  <1> HIDE DEF at, n
  <1>3. T = {}
    <2> SUFFICES ASSUME T # {} PROVE FALSE
      OBVIOUS
    <2>1. PICK j \in T : \A l \in T : j <= l
      BY LeastNumber
    <2>2. j \in Nat /\ j <= n
      OBVIOUS
    <2>3. PICK i \in 1..n : i < j /\ ~(at(i) < at(j))
      OBVIOUS
    <2>4. j \in 2..n /\ j - 1 \in 1..n
      BY <1>1, <2>2, <2>3
    <2>5. at(j - 1) < at(j) /\ at(j - 1) \in Nat /\ at(j) \in Nat /\ at(i) \in Nat
      BY <1>1, <1>2, <2>4
    <2>6. i < j - 1 /\ ~(at(i) < at(j - 1))
      BY <2>2, <2>3, <2>5
    <2>7. j - 1 \in T
      BY <1>1, <2>4, <2>6
    <2>8. j <= j - 1
      <3> HIDE DEF T
      <3>1. QED
        BY <2>1, <2>7
    <2>9. QED
      BY <2>2, <2>8
  <1>4. \A i, j \in 1..n : i < j => at(i) < at(j)
    <2> SUFFICES ASSUME NEW i \in 1..n, NEW j \in 1..n, i < j PROVE at(i) < at(j)
      OBVIOUS
    <2>1. j \notin T /\ j \in Nat /\ j <= n
      BY <1>1, <1>3
    <2>2. QED
      BY <2>1
  <1>5. QED
    BY <1>1, <1>4 DEF at, n

\* At the start of the way from a to b there is a.
LEMMA BetweenStart ==
  ASSUME NEW a \in InLowestTerms, NEW b \in InLowestTerms, NEW d \in Nat \ {0}
  PROVE  Between(a, b, 0, d) = a
  <1>1. /\ a[1] \in Int /\ a[2] \in Nat \ {0} /\ Over(a[1], a[2]) = a
        /\ b[1] \in Int /\ b[2] \in Nat \ {0}
    BY DEF InLowestTerms
  <1> DEFINE e == d * a[2] * b[2]
             c == (b[1] * a[2]) - (a[1] * b[2])
  <1>2. d * a[2] \in Nat \ {0}
    BY <1>1
  <1>3. e \in Int /\ e # 0
    BY <1>1, <1>2
  <1>4. c \in Int
    BY <1>1
  <1> HIDE DEF c, e
  <1>5. 0 * c = 0
    BY <1>4
  <1>6. Over(0 * c, e) = Zero
    BY <1>3, <1>5, OverOfNothing
  <1>7. Between(a, b, 0, d) = Plus(a, Zero)
    BY <1>6 DEF Between, c, e
  <1>8. Zero[1] = 0 /\ Zero[2] = 1
    BY DEF Zero, Whole
  <1>9. (a[1] * 1) + (0 * a[2]) = a[1] /\ a[2] * 1 = a[2]
    BY <1>1
  <1>10. Plus(a, Zero) = Over(a[1], a[2])
    BY <1>8, <1>9 DEF Plus
  <1>11. QED
    BY <1>1, <1>7, <1>10

\* At the time of a point, what is interpolated is that point.
LEMMA PointIsThere ==
  ASSUME NEW points, IsProfile(points), NEW k \in 1..Len(points)
  PROVE  LET p == InterpolateAt(points, points[k].time) IN
         /\ {"time", "current"} \subseteq DOMAIN p
         /\ p.current = points[k].current
  <1> DEFINE n == Len(points)
             t == points[k].time
             inside(i) == points[i].time <= t /\ t < points[i + 1].time
             high == CHOOSE i \in 1..n - 1 : inside(i)
             found == InterpolateAt(points, t)
  <1>1. /\ n \in Nat \ {0} /\ DOMAIN points = 1..n /\ \A i \in 1..n : points[i] \in ProfilePoint
        /\ \A i, j \in 1..n : i < j => points[i].time < points[j].time
    BY PointsRise
  <1>2. \A i \in 1..n : /\ points[i].time \in Nat /\ points[i].current \in InLowestTerms
                        /\ {"time", "current"} \subseteq DOMAIN points[i]
    BY <1>1 DEF ProfilePoint
  <1>3. Head(points) = points[1] /\ Last(points) = points[n] /\ 1 \in 1..n /\ n \in 1..n
    BY <1>1 DEF IsProfile, Last
  <1> HIDE DEF n
  <1>10. k \in 1..n /\ k \in Nat /\ n \in Nat /\ t \in Nat
    BY <1>1, <1>2 DEF n
  <1>4. CASE t <= Head(points).time
    <2>1. k = 1
      <3>1. ~(1 < k)
        <4>1. points[1].time \in Nat /\ ~(points[1].time < t)
          BY <1>2, <1>3, <1>4, <1>10
        <4>2. QED
          BY <1>1, <1>3, <1>10, <4>1
      <3>2. QED
        BY <1>10, <3>1
    <2>2. found = points[1]
      BY <1>3, <1>4 DEF InterpolateAt
    <2>3. QED
      BY <1>2, <1>3, <2>1, <2>2
  <1>5. CASE ~(t <= Head(points).time) /\ t >= Last(points).time
    <2>1. k = n
      <3>1. ~(k < n)
        <4>1. points[n].time \in Nat /\ ~(t < points[n].time)
          BY <1>2, <1>3, <1>5, <1>10
        <4>2. QED
          BY <1>1, <1>3, <1>10, <4>1
      <3>2. QED
        BY <1>10, <3>1
    <2>2. found = points[n]
      BY <1>3, <1>5 DEF InterpolateAt
    <2>3. QED
      BY <1>2, <1>3, <2>1, <2>2
  <1>6. CASE ~(t <= Head(points).time) /\ ~(t >= Last(points).time)
    <2>1. k # n /\ k \in 1..n - 1 /\ k + 1 \in 1..n
      <3>1. points[n].time \in Nat /\ ~(t >= points[n].time)
        BY <1>2, <1>3, <1>6
      <3>2. k # n
        BY <1>10, <3>1
      <3>3. QED
        BY <1>10, <3>2
    <2>2. inside(k)
      BY <1>1, <1>2, <2>1
    <2>3. \A i \in 1..n - 1 : inside(i) => i = k
      <3> SUFFICES ASSUME NEW i \in 1..n - 1, inside(i) PROVE i = k
        OBVIOUS
      <3>1. i \in 1..n /\ i + 1 \in 1..n /\ k \in 1..n
        BY <1>1
      <3>2. ~(k < i)
        BY <1>1, <1>2, <3>1
      <3>3. ~(i + 1 <= k)
        <4>1. i + 1 < k => points[i + 1].time < points[k].time
          BY <1>1, <3>1
        <4>2. points[i + 1].time \in Nat /\ t \in Nat /\ t < points[i + 1].time
          BY <1>2, <3>1
        <4>3. ~(i + 1 < k) /\ i + 1 # k
          BY <4>1, <4>2
        <4>4. QED
          BY <3>1, <4>3
      <3>4. QED
        BY <3>1, <3>2, <3>3
    <2>4. high = k
      <3> HIDE DEF inside
      <3>1. QED
        BY <2>1, <2>2, <2>3
    <2> DEFINE p == points[k]
               q == points[k + 1]
               Way(a, b) == Between(a, b, t - p.time, q.time - p.time)
               voltage == IF NoVoltage \in {p.voltage, q.voltage} THEN NoVoltage
                          ELSE Way(p.voltage, q.voltage)
    <2>5. found = Point(t, Way(p.current, q.current), voltage)
      <3>1. found = LET lower == points[high]
                        upper == points[high + 1]
                        At(a, b) == Between(a, b, t - lower.time, upper.time - lower.time)
                    IN Point(t, At(lower.current, upper.current),
                             IF NoVoltage \in {lower.voltage, upper.voltage} THEN NoVoltage
                             ELSE At(lower.voltage, upper.voltage))
        BY <1>6, Zenon DEF InterpolateAt, n
      <3> HIDE DEF high, found
      <3>2. QED
        BY <2>4, <3>1
    <2>6. t - p.time = 0 /\ q.time - p.time \in Nat \ {0}
      <3>1. p.time = t /\ q.time \in Nat
        BY <1>2, <2>1
      <3>2. p.time < q.time
        <4>1. k < k + 1
          BY <1>10
        <4>2. QED
          BY <1>1, <1>10, <2>1, <4>1
      <3> HIDE DEF p, q, t
      <3>3. QED
        BY <1>10, <3>1, <3>2
    <2>7. Way(p.current, q.current) = p.current
      <3>1. p.current \in InLowestTerms /\ q.current \in InLowestTerms
        <4>1. k \in 1..n /\ k + 1 \in 1..n
          BY <1>10, <2>1
        <4> HIDE DEF p, q
        <4>2. p = points[k] /\ q = points[k + 1]
          BY DEF p, q
        <4>3. QED
          BY <1>2, <4>1, <4>2
      <3> DEFINE w == q.time - p.time
                 a == p.current
                 b == q.current
      <3> HIDE DEF w, a, b
      <3>2. Between(a, b, 0, w) = a
        BY <2>6, <3>1, BetweenStart DEF w, a, b
      <3>3. QED
        BY <2>6, <3>2 DEF w, a, b
    <2> HIDE DEF voltage
    <2>8. {"time", "current"} \subseteq DOMAIN found /\ found.current = Way(p.current, q.current)
      <3> DEFINE c == Way(p.current, q.current)
      <3> HIDE DEF c, found
      <3>1. found = [time |-> t, current |-> c, voltage |-> voltage]
        BY <2>5 DEF Point, c
      <3>2. QED
        BY <3>1 DEF c
    <2>9. QED
      BY <2>7, <2>8
  <1>7. QED
    BY <1>4, <1>5, <1>6

\* A point whose time is on the grid is among the samples.
LEMMA PointIsSampled ==
  ASSUME NEW points, IsProfile(points), points[1].time = 0, NEW interval \in Nat \ {0},
         NEW k \in 1..Len(points), points[k].time % interval = 0
  PROVE  \E s \in ToSet(ToSnapshots(points, interval)) :
           s.time = points[k].time /\ s.current = points[k].current
  <1> DEFINE n == Len(points)
             t == points[k].time
             end == Duration(points)
             times == SampleTimes(points, interval)
             q == t \div interval
             samples == ToSnapshots(points, interval)
             here == InterpolateAt(points, t)
  <1>1. /\ n \in Nat \ {0} /\ DOMAIN points = 1..n /\ \A i \in 1..n : points[i] \in ProfilePoint
        /\ \A i, j \in 1..n : i < j => points[i].time < points[j].time
    BY PointsRise
  <1>2. \A i \in 1..n : points[i].time \in Nat
    BY <1>1 DEF ProfilePoint
  <1>3. Head(points) = points[1] /\ Last(points) = points[n] /\ n \in 1..n
    BY <1>1 DEF IsProfile, Last
  <1>4. end = points[n].time /\ end \in Nat
    BY <1>2, <1>3 DEF Duration
  <1>5. t \in Nat /\ t <= end
    BY <1>1, <1>2, <1>3, <1>4
  <1> HIDE DEF t, end, n
  <1>16. t % interval = 0
    BY DEF t
  <1>6. q \in Nat /\ t = interval * q
    <2>1. t \div interval \in Int /\ t = (interval * (t \div interval)) + (t % interval)
      BY <1>5, Divided
    <2>2. t \div interval >= 0
      BY <1>5
    <2>3. QED
      BY <1>16, <2>1, <2>2
  <1> DEFINE m == end \div interval
  <1>7. m \in Int /\ q <= m
    <2>1. m \in Int /\ end = (interval * m) + (end % interval) /\ end % interval < interval /\ end % interval \in Int
      <3>1. /\ end \div interval \in Int /\ end = (interval * (end \div interval)) + (end % interval)
            /\ end % interval \in Int /\ end % interval < interval
        <4>1. end \in Int
          BY <1>4
        <4>2. QED
          BY <4>1, Divided
      <3>2. QED
        BY <3>1
    <2> HIDE DEF m, q, t, end
    <2> DEFINE a == interval * q
               b == interval * m
               r == end % interval
    <2> HIDE DEF a, b, r
    <2>7. a <= end /\ end = b + r /\ r < interval /\ r \in Int /\ b \in Int /\ a \in Int
      <3>1. a \in Int /\ b \in Int
        BY <1>6, <2>1 DEF a, b
      <3>2. QED
        BY <1>5, <1>6, <2>1, <3>1 DEF a, b, r
    <2>8. a < b + interval
      BY <1>4, <2>7
    <2>2. interval * q < (interval * m) + interval
      BY <2>8 DEF a, b
    <2>3. interval * (m + 1) = (interval * m) + interval
      BY <2>1
    <2>4. interval * q < interval * (m + 1)
      BY <2>2, <2>3
    <2>5. q < m + 1
      BY <1>6, <2>1, <2>4
    <2>6. QED
      BY <1>6, <2>1, <2>5
  <1>8. times = [i \in 1..m + 1 |-> (i - 1) * interval]
    BY DEF SampleTimes, Grid, end
  <1> HIDE DEF m, q, times
  <1>9. q + 1 \in 1..m + 1 /\ (q + 1) - 1 = q /\ q * interval = interval * q
    BY <1>6, <1>7
  <1>10. times[q + 1] = t /\ DOMAIN times = 1..m + 1
    BY <1>6, <1>8, <1>9
  <1>11. samples[q + 1] = [here EXCEPT !.time = t] /\ q + 1 \in DOMAIN samples
    <2>1. samples = [i \in DOMAIN times |-> [InterpolateAt(points, times[i]) EXCEPT !.time = times[i]]]
      BY DEF ToSnapshots, times
    <2> HIDE DEF samples
    <2>2. QED
      BY <1>9, <1>10, <2>1
  <1>12. {"time", "current"} \subseteq DOMAIN here /\ here.current = points[k].current
    BY PointIsThere DEF t
  <1> HIDE DEF samples, here
  <1>13. samples[q + 1].time = t /\ samples[q + 1].current = points[k].current
    BY <1>11, <1>12
  <1>14. samples[q + 1] \in ToSet(samples)
    BY <1>11 DEF ToSet
  <1>15. QED
    BY <1>13, <1>14 DEF samples, t

-----------------------------------------------------------------------------
(* The profiles of the replays.                                            *)

\* The profile of a run is one that is made from its request, and its samples
\* are made from the profile.
ProfileMade ==
  \/ run.profile = <<>> /\ run.request = Custom
  \/ /\ IsProfile(run.profile)
     /\ run.interval \in Intervals
     /\ run.samples = ToSnapshots(run.profile, run.interval)
     /\ run.request # Custom => run.request \in Requests /\ run.profile = Generated(run.request)

\* Before a run there is no profile.
LEMMA ProfileFields ==
  /\ {"request", "profile", "interval", "samples"} \subseteq DOMAIN NoRun
  /\ NoRun.profile = <<>> /\ NoRun.request = Custom
BY DEF NoRun

\* A step that keeps the request and the profile keeps what is said of them.
LEMMA SameProfile ==
  ASSUME ProfileMade, run'.request = run.request, run'.profile = run.profile,
         run'.interval = run.interval, run'.samples = run.samples
  PROVE  ProfileMade'
BY DEF ProfileMade

\* A run without a profile has nothing to say.
LEMMA NoProfile ==
  ASSUME run'.profile = <<>>, run'.request = Custom
  PROVE  ProfileMade'
BY DEF ProfileMade

\* A replay of a profile is prepared with what is made of its request.
LEMMA PreparedMade ==
  ASSUME FromProfile
  PROVE  ProfileMade'
<1>1. PICK plan \in Plans : Prepared("profile", plan.queue, plan)
  BY DEF FromProfile
<1>2. PICK request, points :
        /\ plan \in Made(request, points)
        /\ request # Custom => request \in Requests /\ points = Generated(request)
  BY <1>1 DEF Plans
<1>3. PICK interval \in Intervals :
        LET samples == ToSnapshots(points, interval) IN
        /\ IsProfile(points)
        /\ plan = [NoRun EXCEPT !.request = request, !.profile = points, !.interval = interval,
                                !.samples = samples, !.queue = Snapshots(samples)]
  BY <1>2 DEF Made
<1> DEFINE samples == ToSnapshots(points, interval)
           queue == Snapshots(samples)
<1>. HIDE DEF samples, queue
<1>4. plan = [NoRun EXCEPT !.request = request, !.profile = points, !.interval = interval,
                           !.samples = samples, !.queue = queue]
  BY <1>3 DEF samples, queue
<1>5. run' = [plan EXCEPT !.phase = "ready", !.source = "profile", !.queue = plan.queue]
  BY <1>1 DEF Prepared
<1>6. /\ run'.request = request /\ run'.profile = points
      /\ run'.interval = interval /\ run'.samples = samples
  BY <1>4, <1>5, ProfileFields
<1>. QED  BY <1>2, <1>3, <1>6 DEF ProfileMade, samples

\* No other step changes the profile of a run.
LEMMA ProfileStaysMade ==
  ASSUME ReplayInv, ProfileMade, [ReplayNext]_replayVars
  PROVE  ProfileMade'
<1>1. {"request", "profile", "interval", "samples"} \subseteq DOMAIN run
  BY ProfileFields DEF ReplayInv, RunInv, RunTyped
<1>2. ASSUME run' = NoRun PROVE ProfileMade'
  BY <1>2, ProfileFields, NoProfile
<1>3. ASSUME NEW source, NEW queue, Prepared(source, queue, NoRun) PROVE ProfileMade'
  <2>1. run' = [NoRun EXCEPT !.phase = "ready", !.source = source, !.queue = queue]
    BY <1>3 DEF Prepared
  <2>. QED  BY <2>1, ProfileFields, NoProfile
<1>4. CASE UNCHANGED run
  BY <1>4, SameProfile
<1>5. CASE FromProfile
  BY <1>5, PreparedMade
<1>6. ASSUME NEW first, NEW last, FromRepository(first, last) PROVE ProfileMade'
  BY <1>3, <1>6 DEF FromRepository
<1>7. ASSUME NEW times, NEW ours, FromCsv(times, ours) PROVE ProfileMade'
  BY <1>3, <1>7 DEF FromCsv
<1>8. CASE Begin
  <2>1. PICK reset \in BOOLEAN, raise \in BOOLEAN, target \in Targets :
          run' = [NoRun EXCEPT !.phase = "stepping", !.source = run.source, !.queue = run.queue,
                               !.reset = reset, !.raise = raise, !.target = target]
    BY <1>8 DEF Begin
  <2>. QED  BY <2>1, ProfileFields, NoProfile
<1>9. CASE ReplayStep
  <2>1. PICK snapshot, observed, simulated : run' = Executed(snapshot, observed, simulated)
    BY <1>9 DEF ReplayStep
  <2>2. /\ run'.request = run.request /\ run'.profile = run.profile
        /\ run'.interval = run.interval /\ run'.samples = run.samples
    BY <1>1, <2>1 DEF Executed
  <2>. QED  BY <2>2, SameProfile
<1>10. CASE ReplayStepFails
  <2>1. run' = NoRun \/ run' = Skipped
    BY <1>10 DEF ReplayStepFails
  <2>2. ASSUME run' = Skipped PROVE ProfileMade'
    <3>1. /\ run'.request = run.request /\ run'.profile = run.profile
          /\ run'.interval = run.interval /\ run'.samples = run.samples
      BY <1>1, <2>2 DEF Skipped
    <3>. QED  BY <3>1, SameProfile
  <2>. QED  BY <1>2, <2>1, <2>2
<1>11. CASE BeginFails \/ Dismiss \/ Finish
  BY <1>2, <1>11 DEF BeginFails, Dismiss, Finish
<1>12. CASE UNCHANGED replayVars
  BY <1>4, <1>12 DEF replayVars
<1>. QED  BY <1>4, <1>5, <1>6, <1>7, <1>8, <1>9, <1>10, <1>11, <1>12 DEF ReplayNext

\* The points of a profile that are asked for again are given unchanged.
LEMMA PointsAreKept ==
  ASSUME ProfileMade
  PROVE  ResamplingKeepsThePoints
<1> DEFINE points == run.profile
           interval == run.interval
<1>. SUFFICES ASSUME points # <<>>, Head(points).time = 0, NEW p \in ToSet(points),
                     interval = 0 \/ p.time % interval = 0
     PROVE  \E s \in ToSet(run.samples) : s.time = p.time /\ s.current = p.current
  BY DEF ResamplingKeepsThePoints
<1>1. IsProfile(points) /\ interval \in Nat /\ run.samples = ToSnapshots(points, interval)
  BY ReplayAssumption DEF ProfileMade
<1>. HIDE DEF points, interval
<1>2. CASE interval = 0
  BY <1>1, <1>2 DEF ToSnapshots
<1>3. CASE interval # 0
  <2>1. points \in Seq(ProfilePoint) /\ points[1].time = 0
    BY <1>1 DEF IsProfile
  <2>2. PICK k \in 1..Len(points) : p = points[k]
    BY <2>1 DEF ToSet
  <2>. QED  BY <1>1, <1>3, <2>1, <2>2, PointIsSampled
<1>. QED  BY <1>2, <1>3

-----------------------------------------------------------------------------
\* A function on 1..n is a sequence.
LEMMA SequenceOf ==
  ASSUME NEW A, NEW n \in Nat, NEW s \in [1..n -> A]
  PROVE  s \in Seq(A) /\ Len(s) = n
BY SeqDef, LenProperties

\* What is repeated consists of what is repeated.
LEMMA RepeatedIs ==
  ASSUME NEW n \in Nat \ {0}, NEW A, NEW base \in Seq(A), Len(base) # 0
  PROVE  Repeated(n, base) \in Seq(A) /\ Len(Repeated(n, base)) # 0
<1> DEFINE s == [i \in 1..n |-> base]
<1>1. s \in [1..n -> Seq(A)]
  OBVIOUS
<1>2. Len(s) = n
  <2>1. s \in Seq(Seq(A)) /\ DOMAIN s = 1..n
    OBVIOUS
  <2>. HIDE DEF s
  <2>. QED  BY <2>1
<1>3. (\A i \in 1..n : s[i] \in Seq(A)) /\ Len(s[1]) # 0
  OBVIOUS
<1>. HIDE DEF s
<1>4. FlattenSeq(s) \in Seq(A) /\ Len(FlattenSeq(s)) # 0
  BY <1>2, <1>3, FlattenTyped
<1>. QED  BY <1>4 DEF Repeated, s

\* A sampled schedule whose phases the interval divides.
LEMMA SampledScheduleIs ==
  ASSUME NEW schedule, NEW dt, IsSchedule(schedule, dt), Divides(schedule, dt), Len(schedule) # 0,
         NEW x
  PROVE  LET profile == Sampled(Append(Follow(schedule, dt), x), dt) IN
         /\ Last(profile).time = StartOf(schedule, Len(schedule) + 1)
         /\ \A k \in DOMAIN schedule :
              LET from == StartOf(schedule, k) IN
              \A i \in from \div dt + 1 .. (from + schedule[k][1]) \div dt :
                profile[i] = Point((i - 1) * dt, schedule[k][2], NoVoltage)
<1> DEFINE m == Len(schedule)
           count(k) == SumOf(Samples(schedule, dt), k)
           f == Follow(schedule, dt)
           V == {schedule[k][2] : k \in 1..m}
           c == Append(f, x)
           profile == Sampled(c, dt)
           starts(k) == Total([i \in 1..k |-> schedule[i][1]])
<1>1. dt \in Nat \ {0} /\ m \in Nat \ {0} /\ DOMAIN schedule = 1..m /\ \A i \in 1..m : schedule[i][1] \in Nat
  BY DEF IsSchedule
<1>2. /\ f \in Seq(V) /\ Len(f) = count(m)
      /\ \A k \in 1..m : \A i \in count(k - 1) + 1..count(k) : f[i] = schedule[k][2]
  <2>1. KeepsPhases(f, schedule, dt)
    BY FollowIs
  <2>2. f \in Seq(V) /\ Len(f) = count(m)
    BY <2>1 DEF KeepsPhases
  <2>3. \A k \in 1..m : \A i \in count(k - 1) + 1..count(k) : f[i] = schedule[k][2]
    <3>. HIDE DEF f
    <3>. QED  BY <2>1 DEF KeepsPhases
  <2>. QED  BY <2>2, <2>3
<1>3. ASSUME NEW k \in 0..m
      PROVE  starts(k) = dt * count(k) /\ starts(k) \div dt = count(k) /\ count(k) \in Nat
  BY <1>3, StartIs
<1>4. ASSUME NEW k \in 1..m
      PROVE  /\ starts(k - 1) + schedule[k][1] = starts(k)
             /\ count(k - 1) <= count(k) /\ count(k) <= count(m)
  <2>1. k - 1 \in 0..m /\ k \in 0..m /\ k \in Nat /\ k # 0 /\ m \in 0..m /\ k - 1 <= k /\ k <= m
    BY <1>1
  <2>2. \A i \in 1..m : Samples(schedule, dt)[i] \in Nat
    <3> SUFFICES ASSUME NEW i \in 1..m PROVE Samples(schedule, dt)[i] \in Nat
      OBVIOUS
    <3>1. schedule[i][1] \in Nat /\ schedule[i][1] % dt = 0
      BY <1>1 DEF Divides
    <3>. QED  BY <1>1, <3>1, PhaseIs DEF Samples, Phase
  <2>3. count(k - 1) <= count(k) /\ count(k) <= count(m)
    BY <1>1, <2>1, <2>2, SumsGrow
  <2>4. schedule[k][1] \in Nat /\ schedule[k][1] = dt * Samples(schedule, dt)[k]
    <3>1. schedule[k][1] \in Nat /\ schedule[k][1] % dt = 0
      BY <1>1 DEF Divides
    <3>2. Samples(schedule, dt)[k] = schedule[k][1] \div dt
      BY DEF Samples, Phase
    <3>. QED  BY <1>1, <3>1, <3>2, PhaseIs
  <2> DEFINE a == count(k - 1)
             b == Samples(schedule, dt)[k]
  <2>5. count(k) = a + b
    BY <2>1, SumIs
  <2>6. a \in Nat /\ b \in Nat /\ starts(k - 1) = dt * a /\ starts(k) = dt * (a + b)
    BY <1>3, <2>1, <2>2, <2>5
  <2>. HIDE DEF a, b, starts, count
  <2>7. (dt * a) + (dt * b) = dt * (a + b)
    BY <1>1, <2>6
  <2>. QED  BY <2>3, <2>4, <2>6, <2>7 DEF b
<1>. HIDE DEF f, V, count, starts, m
<1>5. m \in 0..m /\ count(m) \in Nat
  BY <1>1, <1>3
<1>6. /\ Len(c) = count(m) + 1 /\ DOMAIN c = 1..count(m) + 1
      /\ \A i \in 1..count(m) : c[i] = f[i]
  <2>1. c \in Seq(V \union {x}) /\ Len(c) = Len(f) + 1
    BY <1>2
  <2>2. \A i \in 1..Len(f) : c[i] = f[i]
    BY <1>2
  <2>. HIDE DEF c
  <2>. QED  BY <1>2, <2>1, <2>2
<1>. HIDE DEF c
<1>7. profile = [i \in 1..count(m) + 1 |-> Point((i - 1) * dt, c[i], NoVoltage)]
  BY <1>6 DEF Sampled
<1>8. Len(profile) = count(m) + 1
  <2> DEFINE n == count(m) + 1
             R == {Point((i - 1) * dt, c[i], NoVoltage) : i \in 1..n}
  <2>1. n \in Nat
    BY <1>5
  <2>. HIDE DEF profile, n
  <2>2. profile = [i \in 1..n |-> Point((i - 1) * dt, c[i], NoVoltage)]
    BY <1>7 DEF n
  <2>3. profile \in [1..n -> R]
    BY <2>2
  <2>4. Len(profile) = n
    <3>. HIDE DEF R
    <3>. QED  BY <2>1, <2>3, LenProperties, SeqDef
  <2>. QED  BY <2>4 DEF n
<1>. HIDE DEF profile
<1>9. Last(profile).time = starts(m)
  <2>1. count(m) + 1 \in 1..count(m) + 1 /\ (count(m) + 1) - 1 = count(m)
    BY <1>5
  <2>2. Last(profile) = Point(count(m) * dt, c[count(m) + 1], NoVoltage)
    BY <1>7, <1>8, <2>1 DEF Last
  <2>3. Last(profile).time = count(m) * dt
    BY <2>2 DEF Point
  <2>. QED  BY <1>1, <1>3, <1>5, <2>3
<1>10. StartOf(schedule, m + 1) = starts(m)
  <2>1. (m + 1) - 1 = m
    BY <1>1
  <2>. QED  BY <2>1 DEF StartOf, starts
<1>11. ASSUME NEW k \in 1..m,
              NEW i \in StartOf(schedule, k) \div dt + 1 .. (StartOf(schedule, k) + schedule[k][1]) \div dt
       PROVE  profile[i] = Point((i - 1) * dt, schedule[k][2], NoVoltage)
  <2>1. StartOf(schedule, k) = starts(k - 1)
    BY DEF StartOf, starts
  <2>2. k - 1 \in 0..m /\ k \in 0..m
    BY <1>1
  <2>3. starts(k - 1) \div dt = count(k - 1) /\ (starts(k - 1) + schedule[k][1]) \div dt = count(k)
        /\ count(k - 1) \in Nat /\ count(k) \in Nat
    BY <1>3, <1>4, <2>2
  <2>4. i \in count(k - 1) + 1..count(k)
    BY <2>1, <2>3
  <2>5. i \in 1..count(m) /\ i \in 1..count(m) + 1
    BY <1>4, <1>5, <2>3, <2>4
  <2>6. c[i] = schedule[k][2]
    BY <1>2, <1>6, <2>4, <2>5
  <2>. QED  BY <1>7, <2>5, <2>6
<1>. QED  BY <1>1, <1>9, <1>10, <1>11 DEF m, profile, c, f

\* The profiles made by the generators with phases keep their phases.
LEMMA PhasesAreKept ==
  ASSUME ProfileMade
  PROVE  SchedulesAreKept
<1> DEFINE r == Defaulted(run.request)
           dt == run.request.dt
           schedule == ScheduleOf(r)
<1>. SUFFICES ASSUME run.request.type \in {"PULSE", "DST"}, \A k \in DOMAIN schedule : schedule[k][1] % dt = 0
     PROVE  /\ Last(run.profile).time = StartOf(schedule, Len(schedule) + 1)
            /\ \A k \in DOMAIN schedule :
                 LET from == StartOf(schedule, k) IN
                 \A i \in from \div dt + 1 .. (from + schedule[k][1]) \div dt :
                   run.profile[i] = Point((i - 1) * dt, schedule[k][2], NoVoltage)
  BY DEF SchedulesAreKept
<1>1. IsProfile(run.profile) /\ run.request \in Payloads /\ run.profile = Generated(run.request)
  <2>1. run.request # Custom
    <3>1. Custom.type = "CUSTOM"
      BY DEF Custom
    <3>. QED  BY <3>1
  <2>. QED  BY <2>1, ReplayAssumption DEF ProfileMade
<1>2. /\ r.type = run.request.type /\ r.dt = dt
      /\ r.pulse \in Int /\ r.rest \in Int /\ r.cycles \in Nat /\ r.dt \in Nat \ {0}
  BY <1>1 DEF Payloads, Defaulted, Or
<1>3. run.profile # <<>>
  BY <1>1 DEF IsProfile
<1>. HIDE DEF r, dt, schedule
<1>4. /\ schedule \in Seq({schedule[k] : k \in 1..Len(schedule)}) /\ Len(schedule) # 0
      /\ \A k \in 1..Len(schedule) : schedule[k][1] \in Nat
      /\ \E x : run.profile = Sampled(Append(Follow(schedule, dt), x), dt)
  <2>1. CASE r.type = "PULSE"
    <3> DEFINE base == <<<<r.pulse, Whole(r.peak)>>, <<r.rest, Whole(r.restCurrent)>>>>
               A == {base[1], base[2]}
    <3>1. schedule = Repeated(r.cycles, base)
      BY <2>1, <1>2 DEF schedule, ScheduleOf, PulseSchedule, r
    <3>2. run.profile = PulseDischarge(r)
      BY <1>1, <2>1 DEF Generated, r
    <3>3. /\ ~(r.pulse <= 0 \/ r.rest <= 0 \/ r.cycles < 1)
          /\ run.profile = Sampled(Append(Follow(PulseSchedule(r), r.dt), Whole(r.restCurrent)), r.dt)
      BY <1>3, <3>2 DEF PulseDischarge, Refused
    <3>4. r.pulse \in Nat /\ r.rest \in Nat /\ r.cycles \in Nat \ {0}
      BY <1>2, <3>3
    <3>5. base \in Seq(A) /\ Len(base) # 0 /\ \A a \in A : a[1] \in Nat
      BY <3>4
    <3>. HIDE DEF base, A
    <3>6. schedule \in Seq(A) /\ Len(schedule) # 0
      BY <3>1, <3>4, <3>5, RepeatedIs
    <3>7. schedule = PulseSchedule(r)
      BY <3>1 DEF PulseSchedule, base
    <3>8. \A k \in 1..Len(schedule) : schedule[k][1] \in Nat
      BY <3>5, <3>6
    <3>. QED  BY <1>2, <3>3, <3>6, <3>7, <3>8
  <2>2. CASE r.type = "DST"
    <3> DEFINE base == [k \in DOMAIN DstSteps |->
                 LET part == DstSteps[k][2] IN
                 <<DstSteps[k][1], IF part >= 0 THEN Over(part * r.peak, 8) ELSE Over(-part * r.regen, 8)>>]
               A == {base[k] : k \in 1..10}
    <3>1. schedule = DstSchedule(r) /\ DstSchedule(r) = Repeated(r.cycles, base)
      BY <2>2, <1>2 DEF schedule, ScheduleOf, DstSchedule, r
    <3>2. run.profile = Dst(r)
      BY <1>1, <2>2 DEF Generated, r
    <3>3. ~(r.cycles < 1) /\ run.profile = Sampled(Append(Follow(DstSchedule(r), r.dt), Zero), r.dt)
      BY <1>3, <3>2 DEF Dst, Refused
    <3>4. r.cycles \in Nat \ {0}
      BY <1>2, <3>3
    <3>5. DOMAIN base = 1..10 /\ \A k \in 1..10 : base[k][1] \in Nat
      <4>1. DOMAIN DstSteps = 1..10 /\ \A k \in 1..10 : DstSteps[k][1] \in Nat
        BY DEF DstSteps
      <4>. QED  BY <4>1
    <3>6. base \in Seq(A) /\ Len(base) = 10 /\ \A a \in A : a[1] \in Nat
      <4>. HIDE DEF base
      <4>1. base \in [1..10 -> A]
        <5>1. base = [k \in 1..10 |-> base[k]]
          BY <3>5 DEF base
        <5>. QED  BY <5>1
      <4>2. 10 \in Nat
        OBVIOUS
      <4>3. base \in Seq(A) /\ Len(base) = 10
        <5>. HIDE DEF A
        <5>. QED  BY <4>1, <4>2, SequenceOf
      <4>4. \A a \in A : a[1] \in Nat
        BY <3>5
      <4>. QED  BY <4>3, <4>4
    <3>. HIDE DEF base, A
    <3>7. schedule \in Seq(A) /\ Len(schedule) # 0
      <4>1. Len(base) # 0
        BY <3>6
      <4>2. Repeated(r.cycles, base) \in Seq(A) /\ Len(Repeated(r.cycles, base)) # 0
        BY <3>4, <3>6, <4>1, RepeatedIs
      <4>. QED  BY <3>1, <4>2
    <3>8. \A k \in 1..Len(schedule) : schedule[k][1] \in Nat
      BY <3>6, <3>7
    <3>. QED  BY <1>2, <3>1, <3>3, <3>7, <3>8
  <2>. QED  BY <1>2, <2>1, <2>2
<1>5. IsSchedule(schedule, dt)
  BY <1>2, <1>4 DEF IsSchedule
<1>6. Divides(schedule, dt)
  BY DEF Divides
<1>7. PICK x : run.profile = Sampled(Append(Follow(schedule, dt), x), dt)
  BY <1>4
<1>. QED  BY <1>4, <1>5, <1>6, <1>7, SampledScheduleIs

\* profiles.py:171-190, 315-340 and 550-570: whatever is asked for, at whatever
\* interval, nothing is lost or shifted on the way from the request to the
\* samples: no point that falls on the grid, and no phase of a schedule that
\* the interval divides.
THEOREM ProfilesKept == ReplaySpec => []ProfilesAreKept
<1>1. ReplayInit => ProfileMade
  BY ProfileFields DEF ReplayInit, ProfileMade
<1>2. ReplayInv /\ ProfileMade /\ [ReplayNext]_replayVars => ProfileMade'
  BY ProfileStaysMade
<1>3. ProfileMade => ProfilesAreKept
  BY PointsAreKept, PhasesAreKept DEF ProfilesAreKept
<1>. QED  BY <1>1, <1>2, <1>3, ReplayInvHolds, PTL DEF ReplaySpec

-----------------------------------------------------------------------------
(* The figures of error of some pairs.                                     *)

\* A set of numbers that a sequence lists has a greatest one.
LEMMA GreatestOf ==
  ASSUME NEW n \in Nat \ {0}, NEW s, \A i \in 1..n : s[i] \in Int, DOMAIN s = 1..n
  PROVE  MaxOf(s) \in Int /\ \A i \in 1..n : s[i] <= MaxOf(s)
  <1> DEFINE Has(k) == \E j \in 1..k : \A i \in 1..k : s[i] <= s[j]
             T == {k \in Nat : 1 <= k /\ k <= n /\ ~Has(k)}
  <1>1. T = {}
    <2> SUFFICES ASSUME T # {} PROVE FALSE
      OBVIOUS
    <2>1. PICK k \in T : \A l \in T : k <= l
      BY LeastNumber
    <2>2. k \in Nat /\ 1 <= k /\ k <= n /\ ~Has(k)
      OBVIOUS
    <2>3. k # 1
      <3>1. ASSUME k = 1 PROVE Has(k)
        <4>1. 1 \in 1..k /\ \A i \in 1..k : i = 1
          BY <3>1
        <4>2. s[1] \in Int
          BY <2>2
        <4>3. ASSUME NEW i \in 1..k
              PROVE  s[i] <= s[1]
          <5>1. s[i] = s[1]
            BY <4>1
          <5>2. QED
            BY <4>2, <5>1
        <4>4. QED
          BY <4>1, <4>3
      <3>2. QED
        BY <2>2, <3>1
    <2>4. Has(k - 1)
      <3> HIDE DEF Has
      <3>1. k - 1 \notin T
        <4>1. ASSUME k - 1 \in T PROVE FALSE
          <5> HIDE DEF T
          <5>1. k <= k - 1
            BY <2>1, <4>1
          <5>2. QED
            BY <2>2, <5>1
        <4>2. QED
          BY <4>1
      <3>2. QED
        BY <2>2, <2>3, <3>1
    <2>5. PICK j \in 1..k - 1 : \A i \in 1..k - 1 : s[i] <= s[j]
      BY <2>4
    <2>6. j \in 1..k /\ k \in 1..k /\ s[j] \in Int /\ s[k] \in Int
      BY <2>2
    <2>7. CASE s[k] <= s[j]
      <3>1. \A i \in 1..k : s[i] <= s[j]
        BY <2>2, <2>5, <2>7
      <3>2. Has(k)
        BY <2>6, <3>1
      <3>3. QED
        BY <2>2, <3>2
    <2>8. CASE ~(s[k] <= s[j])
      <3>1. ASSUME NEW i \in 1..k
            PROVE  s[i] <= s[k]
        <4>1. s[i] \in Int
          BY <2>2
        <4>2. CASE i = k
          BY <4>1, <4>2
        <4>3. CASE i # k
          <5>1. i \in 1..k - 1
            BY <2>2, <4>3
          <5>2. s[i] <= s[j]
            BY <2>5, <5>1
          <5>3. QED
            BY <2>6, <2>8, <4>1, <5>2
        <4>4. QED
          BY <4>2, <4>3
      <3>2. Has(k)
        BY <2>6, <3>1
      <3>3. QED
        BY <2>2, <3>2
    <2>9. QED
      BY <2>7, <2>8
  <1>2. Has(n)
    <2> HIDE DEF Has
    <2>1. n \notin T
      BY <1>1
    <2>2. QED
      BY <2>1
  <1>3. PICK j \in 1..n : \A i \in 1..n : s[i] <= s[j]
    BY <1>2
  <1>4. ToSet(s) = {s[i] : i \in 1..n}
    BY DEF ToSet
  <1>5. \E x \in ToSet(s) : \A y \in ToSet(s) : x >= y
    <2>1. s[j] \in ToSet(s)
      BY <1>4
    <2>2. \A y \in ToSet(s) : s[j] >= y
      BY <1>3, <1>4
    <2>3. QED
      BY <2>1, <2>2
  <1>6. MaxOf(s) \in ToSet(s) /\ \A y \in ToSet(s) : MaxOf(s) >= y
    BY <1>5 DEF MaxOf, Max
  <1>7. QED
    BY <1>4, <1>6

\* One less what is unexplained is at most one, and negative exactly when the
\* mean square of the errors exceeds the variance.
LEMMA UnexplainedIs ==
  ASSUME NEW n \in Nat \ {0}, NEW Q \in Nat, NEW spread \in Nat \ {0}
  PROVE  LET r == Plus(Whole(1), Minus(Over(Q * n, spread))) IN
         /\ AtMost(r, Whole(1))
         /\ Less(r, Zero) <=> Less(Over(spread, n * n), Over(Q, n))
  <1> DEFINE x == Q * n
             nn == n * n
             r == Plus(Whole(1), Minus(Over(x, spread)))
             variance == Over(spread, nn)
             mse == Over(Q, n)
  <1>1. x \in Nat /\ nn \in Nat \ {0}
    OBVIOUS
  <1>2. Q * nn = x * n
    OBVIOUS
  <1> HIDE DEF x, nn
  <1>3. /\ StandsFor(Over(x, spread), x, spread)
        /\ StandsFor(variance, spread, nn) /\ StandsFor(mse, Q, n)
    BY <1>1, OverStands
  <1>4. StandsFor(Whole(1), spread, spread) /\ StandsFor(Whole(1), 1, 1) /\ StandsFor(Zero, 0, 1)
    BY DEF StandsFor, Whole, Zero
  <1>5. StandsFor(r, spread + (-x), spread)
    <2> DEFINE a == Over(x, spread)
    <2>1. StandsFor(a, x, spread)
      BY <1>3
    <2> HIDE DEF a
    <2>2. StandsFor(Minus(a), -x, spread) /\ -x \in Int
      BY <1>1, <2>1, MinusStands
    <2>3. StandsFor(Plus(Whole(1), Minus(a)), spread + (-x), spread)
      BY <1>4, <2>2, PlusStands
    <2>4. QED
      BY <2>3 DEF a
  <1> HIDE DEF r, variance, mse
  <1> DEFINE z == spread + (-x)
  <1>6. z \in Int /\ z * 1 <= 1 * spread /\ (0 * spread <= z * 1 <=> x <= spread)
    BY <1>1
  <1>7. StandsFor(r, z, spread)
    BY <1>5
  <1> HIDE DEF z
  <1>8. AtMost(r, Whole(1))
    BY <1>4, <1>6, <1>7, FractionsCompare
  <1>9. AtMost(Zero, r) <=> x <= spread
    <2>1. AtMost(Zero, r) <=> 0 * spread <= z * 1
      BY <1>4, <1>6, <1>7, FractionsCompare
    <2>2. QED
      BY <1>6, <2>1
  <1>10. AtMost(mse, variance) <=> x <= spread
    <2>1. AtMost(mse, variance) <=> Q * nn <= spread * n
      BY <1>1, <1>3, FractionsCompare
    <2>2. x * n <= spread * n <=> x <= spread
      BY <1>1, Cancelled
    <2>3. QED
      BY <1>2, <2>1, <2>2
  <1>11. Less(r, Zero) <=> Less(variance, mse)
    <2>1. (AtMost(Zero, r) <=> ~Less(r, Zero)) /\ (AtMost(mse, variance) <=> ~Less(variance, mse))
      BY DEF AtMost
    <2>2. QED
      BY <1>9, <1>10, <2>1
  <1>12. QED
    BY <1>8, <1>11 DEF r, variance, mse, x, nn

\* The figures of any pairs of which there are some.
LEMMA FiguresFit ==
  ASSUME NEW n \in Nat \ {0}, NEW pairs, DOMAIN pairs = 1..n, Len(pairs) = n,
         \A i \in 1..n : pairs[i].observed \in Int /\ pairs[i].simulated \in Int
  PROVE  LET m == SignalMetrics(pairs)
             y == [i \in DOMAIN pairs |-> pairs[i].observed] IN
         /\ AtMost(m.bias, m.mae) /\ AtMost(Minus(m.bias), m.mae)
         /\ AtMost(Over(m.mae[1] * m.mae[1], m.mae[2] * m.mae[2]), m.mse)
         /\ AtMost(m.mse, Whole(m.most * m.most))
         /\ AtMost(m.rSquared, Whole(1))
         /\ SameAs(m.rSquared, Whole(1)) <=> m.mse = Zero
         /\ Spread(y, y) > 0 => (Less(m.rSquared, Zero) <=> Less(Variance(y), m.mse))
  <1> DEFINE d == Deviations(pairs)
             y == [i \in DOMAIN pairs |-> pairs[i].observed]
             e == [i \in DOMAIN d |-> Abs(d[i])]
             sq == Squares(d)
             yy == [i \in DOMAIN y |-> y[i] * y[i]]
             S == SumOf(d, n)
             A == SumOf(e, n)
             Q == SumOf(sq, n)
             most == MaxOf(e)
             spread == Spread(y, y)
             bias == Over(S, n)
             mae == Over(A, n)
             mse == Over(Q, n)
             rSquared == IF spread > 0 THEN Plus(Whole(1), Minus(Over(Q * n, spread)))
                         ELSE IF Q = 0 THEN Whole(1) ELSE Zero
             m == SignalMetrics(pairs)
  <1>1. /\ d \in [1..n -> Int] /\ y \in [1..n -> Int]
    BY DEF Deviations
  <1> HIDE DEF d, y
  <1>2. /\ e \in [1..n -> Nat] /\ sq \in [1..n -> Int] /\ yy \in [1..n -> Int]
        /\ \A i \in 1..n : e[i] = Abs(d[i]) /\ sq[i] = d[i] * d[i]
    <2>1. \A i \in 1..n : Abs(d[i]) \in Nat
      BY <1>1, AbsIs
    <2>2. QED
      BY <1>1, <2>1 DEF Squares
  <1> HIDE DEF e, sq, yy
  <1>3. Len(d) = n /\ Len(y) = n /\ Len(e) = n /\ Len(sq) = n /\ Len(yy) = n
    BY <1>1, <1>2
  <1>4. Total(d) = S /\ Total(e) = A /\ Total(sq) = Q
    BY <1>3, TotalIs
  <1>5. spread \in Int
    <2>1. Total(y) = SumOf(y, n) /\ Total(yy) = SumOf(yy, n)
      BY <1>3, TotalIs
    <2>2. SumOf(y, n) \in Int /\ SumOf(yy, n) \in Int
      <3>1. n \in 0..n
        OBVIOUS
      <3>2. \A i \in 1..n : y[i] \in Int /\ yy[i] \in Int
        BY <1>1, <1>2
      <3>3. QED
        BY <3>1, <3>2, SumsAreNumbers
    <2>3. Product(y, y) = Total(yy)
      BY DEF Product, yy
    <2>4. QED
      BY <1>3, <2>1, <2>2, <2>3 DEF Spread
  <1>6. most \in Int /\ \A i \in 1..n : e[i] <= most
    <2>1. DOMAIN e = 1..n /\ \A i \in 1..n : e[i] \in Int
      BY <1>2
    <2>2. QED
      BY <2>1, GreatestOf
  <1>7. /\ S \in Int /\ A \in Int /\ Q \in Nat /\ S <= A /\ -S <= A
        /\ A * A <= n * Q /\ Q <= n * (most * most)
    <2>1. \A i \in 1..n : /\ d[i] \in Int /\ e[i] = Abs(d[i]) /\ sq[i] = d[i] * d[i]
                          /\ e[i] <= most
      BY <1>1, <1>2, <1>6
    <2> HIDE DEF most
    <2>2. QED
      BY <1>6, <2>1, SumsFit
  <1>8. /\ m.bias = bias /\ m.mae = mae /\ m.mse = mse /\ m.most = most
        /\ m.rSquared = rSquared
    <2>1. Mean(d) = bias /\ AbsoluteError(d) = mae /\ Mean(sq) = mse
      BY <1>3, <1>4 DEF Mean, AbsoluteError, e
    <2>2. m.bias = Mean(d) /\ m.mae = AbsoluteError(d) /\ m.mse = Mean(sq) /\ m.most = most
      BY DEF SignalMetrics, d, sq, e
    <2>3. m.rSquared = IF Spread(y, y) > 0
                   THEN Plus(Whole(1), Minus(Over(Total(Squares(d)) * Len(y), Spread(y, y))))
                   ELSE IF Total(Squares(d)) = 0 THEN Whole(1) ELSE Zero
      BY DEF SignalMetrics, Unexplained, d, y
    <2>4. m.rSquared = rSquared
      BY <1>3, <1>4, <2>3 DEF sq
    <2>5. QED
      BY <2>1, <2>2, <2>4
  <1> HIDE DEF m, S, A, Q, most, spread
  <1>9. /\ bias[1] \in Int /\ bias[2] \in Nat \ {0} /\ bias[1] * n = S * bias[2]
        /\ mae[1] \in Int /\ mae[2] \in Nat \ {0} /\ mae[1] * n = A * mae[2]
        /\ mse[1] \in Int /\ mse[2] \in Nat \ {0} /\ mse[1] * n = Q * mse[2]
    <2>1. n \in Int /\ n # 0 /\ Q \in Int
      BY <1>7
    <2>2. QED
      BY <1>7, <2>1, OverIs
  <1>16. StandsFor(bias, S, n) /\ StandsFor(mae, A, n) /\ StandsFor(mse, Q, n)
    BY <1>9, Zenon DEF StandsFor
  <1> DEFINE square == Over(mae[1] * mae[1], mae[2] * mae[2])
  <1>10. SameAs(rSquared, Whole(1)) <=> mse = Zero
    <2>1. mse = Zero <=> Q = 0
      <3>1. Q \in Int
        BY <1>7
      <3>2. QED
        BY <3>1, NothingIs
    <2>2. CASE spread > 0
      <3>1. Q * n \in Int /\ spread \in Nat \ {0} /\ (Q * n = 0 <=> Q = 0)
        BY <1>5, <1>7, <2>2
      <3>2. SameAs(Plus(Whole(1), Minus(Over(Q * n, spread))), Whole(1)) <=> Q * n = 0
        BY <3>1, OneIs
      <3>3. QED
        BY <2>1, <2>2, <3>1, <3>2
    <2>3. CASE ~(spread > 0)
      <3>1. SameAs(Whole(1), Whole(1)) /\ ~SameAs(Zero, Whole(1))
        BY DEF SameAs, Whole, Zero
      <3>2. QED
        BY <2>1, <2>3, <3>1
    <2>4. QED
      BY <2>2, <2>3
  <1>17. /\ AtMost(rSquared, Whole(1))
         /\ spread > 0 => (Less(rSquared, Zero) <=> Less(Over(spread, n * n), mse))
    <2>1. CASE spread > 0
      <3>1. spread \in Nat \ {0} /\ Q \in Nat
        BY <1>5, <1>7, <2>1
      <3>2. QED
        BY <2>1, <3>1, UnexplainedIs
    <2>2. CASE ~(spread > 0)
      <3>1. AtMost(Whole(1), Whole(1)) /\ AtMost(Zero, Whole(1))
        BY DEF AtMost, Less, Whole, Zero
      <3>2. QED
        BY <2>2, <3>1
    <2>3. QED
      BY <2>1, <2>2
  <1>18. Spread(y, y) > 0 => (Less(rSquared, Zero) <=> Less(Variance(y), mse))
    <2>1. Variance(y) = Over(spread, n * n)
      BY <1>3 DEF Variance, spread
    <2>2. QED
      BY <1>17, <2>1 DEF spread
  <1> HIDE DEF rSquared, bias, mae, mse
  <1>11. AtMost(bias, mae)
    <2>1. S * n <= A * n
      BY <1>7, Cancelled
    <2>2. QED
      BY <1>7, <1>16, <2>1, FractionsCompare
  <1>12. AtMost(Minus(bias), mae)
    <2> DEFINE a == Minus(bias)
    <2>1. a[1] = -bias[1] /\ a[2] = bias[2]
      BY DEF Minus
    <2> HIDE DEF a
    <2> DEFINE x == -S
    <2>2. a[1] \in Int /\ a[2] \in Nat \ {0} /\ a[1] * n = x * a[2]
      <3> DEFINE p == bias[1]
                 q == bias[2]
      <3>1. p \in Int /\ q \in Nat \ {0} /\ p * n = S * q
        BY <1>9
      <3> HIDE DEF p, q
      <3>2. (-p) * n = -(p * n) /\ (-S) * q = -(S * q) /\ -p \in Int
        BY <1>7, <3>1, Negated
      <3>3. a[1] = -p /\ a[2] = q
        BY <2>1 DEF p, q
      <3>4. QED
        BY <3>1, <3>2, <3>3
    <2>3. x \in Int /\ x <= A
      BY <1>7
    <2> HIDE DEF x
    <2>4. x * n <= A * n
      BY <1>7, <2>3, Cancelled
    <2>6. StandsFor(a, x, n)
      BY <2>2, Zenon DEF StandsFor
    <2>7. AtMost(a, mae)
      BY <1>7, <1>16, <2>3, <2>4, <2>6, FractionsCompare
    <2>5. QED
      BY <2>7 DEF a
  <1>13. AtMost(square, mse)
    <2> DEFINE p == mae[1]
               q == mae[2]
    <2> HIDE DEF p, q
    <2>1. p \in Int /\ q \in Nat \ {0} /\ p * n = A * q
      BY <1>9 DEF p, q
    <2>2. p * p \in Int /\ q * q \in Nat \ {0}
      BY <2>1
    <2>3. square[1] \in Int /\ square[2] \in Nat \ {0} /\ square[1] * (q * q) = (p * p) * square[2]
      <3>1. square = Over(p * p, q * q)
        BY DEF p, q
      <3>2. q * q \in Int /\ q * q # 0
        BY <2>2
      <3>3. QED
        BY <2>2, <3>1, <3>2, OverIs
    <2>4. (p * p) * n <= Q * (q * q)
      <3> DEFINE pp == p * p
                 qq == q * q
      <3>1. pp \in Int /\ qq \in Nat /\ pp * n \in Int /\ Q * qq \in Int
        BY <1>7, <2>1, <2>2
      <3>2. (pp * n) * n = (A * A) * qq
        <4>1. (pp * n) * n = (p * n) * (p * n)
          BY <2>1
        <4>2. (A * q) * (A * q) = (A * A) * qq
          BY <1>7, <2>1
        <4>3. QED
          BY <2>1, <4>1, <4>2
      <3>3. (A * A) * qq <= (n * Q) * qq
        <4> HIDE DEF qq
        <4> DEFINE aa == A * A
                   nq == n * Q
        <4>1. aa \in Int /\ nq \in Int /\ aa <= nq
          BY <1>7
        <4> HIDE DEF aa, nq
        <4>2. aa * qq <= nq * qq
          BY <3>1, <4>1
        <4>3. QED
          BY <4>2 DEF aa, nq
      <3>4. (n * Q) * qq = (Q * qq) * n
        <4> HIDE DEF qq
        <4>1. QED
          BY <1>7, <3>1
      <3> HIDE DEF pp, qq
      <3> DEFINE u == pp * n
                 v == Q * qq
      <3>5. u \in Int /\ v \in Int /\ u * n <= v * n
        BY <3>1, <3>2, <3>3, <3>4
      <3> HIDE DEF u, v
      <3>6. u <= v
        BY <3>5, Cancelled
      <3>7. QED
        BY <3>6 DEF u, v, pp, qq
    <2> DEFINE pp == p * p
               qq == q * q
    <2> HIDE DEF square, pp, qq
    <2>5. StandsFor(square, pp, qq)
      BY <2>3, Zenon DEF StandsFor, pp, qq
    <2>6. pp \in Int /\ qq \in Nat \ {0} /\ pp * n <= Q * qq /\ Q \in Int
      BY <1>7, <2>2, <2>4 DEF pp, qq
    <2>7. QED
      BY <1>16, <2>5, <2>6, FractionsCompare
  <1>14. AtMost(mse, Whole(most * most))
    <2> DEFINE b == Whole(most * most)
               mm == most * most
    <2>1. mm \in Int /\ b[1] = mm /\ b[2] = 1
      BY <1>6 DEF Whole
    <2> HIDE DEF b, mm
    <2>2. b[1] * 1 = mm * b[2] /\ b[1] \in Int /\ b[2] \in Nat \ {0} /\ 1 \in Nat \ {0}
      BY <2>1
    <2>3. Q * 1 <= mm * n
      <3>1. Q <= n * mm
        BY <1>7 DEF mm
      <3>2. n * mm = mm * n /\ Q * 1 = Q
        BY <1>7, <2>1
      <3>3. QED
        BY <3>1, <3>2
    <2>4. AtMost(mse, b)
      <3>1. StandsFor(b, mm, 1)
        BY <2>2, Zenon DEF StandsFor
      <3>2. Q \in Int /\ 1 \in Nat \ {0}
        BY <1>7
      <3>3. QED
        BY <1>16, <2>1, <2>3, <3>1, <3>2, FractionsCompare
    <2>5. QED
      BY <2>4 DEF b
  <1>15. QED
    BY <1>8, <1>10, <1>11, <1>12, <1>13, <1>14, <1>17, <1>18 DEF m, mae, mse, y

-----------------------------------------------------------------------------
(* The figures of the replays.                                             *)

\* What was observed are some of the outputs.
LEMMA ObservedIs ==
  ASSUME NEW outputs \in Seq(OutputType), NEW n \in Nat \ {0}, n = Len(outputs)
  PROVE  Observed(outputs) \in Seq(OutputType)
<1> DEFINE s == [i \in DOMAIN outputs |-> IF outputs[i].observed = 0 THEN <<>> ELSE <<outputs[i]>>]
<1>1. DOMAIN outputs = 1..n /\ \A i \in 1..n : outputs[i] \in OutputType
  BY ElementOfSeq
<1>2. \A x \in OutputType : <<x>> \in Seq(OutputType)
  OBVIOUS
<1>3. s \in [1..n -> Seq(OutputType)]
  BY <1>1, <1>2, EmptySeq
<1>. HIDE DEF s
<1>4. Len(s) = n
  BY <1>3, SequenceOf
<1>5. FlattenSeq(s) \in Seq(OutputType)
  BY <1>3, <1>4, FlattenTyped
<1>. QED  BY <1>5 DEF Observed, s

\* The figures of error fit each other whatever a run has collected.
LEMMA ErrorsFit ==
  ASSUME ReplayInv
  PROVE  ErrorsFitEachOther
<1> DEFINE pairs == Observed(run.outputs)
           n == Len(pairs)
<1>. SUFFICES ASSUME pairs # <<>>
     PROVE  LET m == SignalMetrics(pairs)
                y == [i \in DOMAIN pairs |-> pairs[i].observed] IN
            /\ AtMost(m.bias, m.mae) /\ AtMost(Minus(m.bias), m.mae)
            /\ AtMost(Over(m.mae[1] * m.mae[1], m.mae[2] * m.mae[2]), m.mse)
            /\ AtMost(m.mse, Whole(m.most * m.most))
            /\ AtMost(m.rSquared, Whole(1))
            /\ SameAs(m.rSquared, Whole(1)) <=> m.mse = Zero
            /\ Spread(y, y) > 0 => (Less(m.rSquared, Zero) <=> Less(Variance(y), m.mse))
  BY Zenon DEF ErrorsFitEachOther
<1>1. run.outputs \in Seq(OutputType)
  BY DEF ReplayInv, RunInv, RunTyped
<1>2. run.outputs # <<>>
  <2>1. ASSUME run.outputs = <<>> PROVE FALSE
    <3> DEFINE s == [i \in DOMAIN run.outputs |->
                 IF run.outputs[i].observed = 0 THEN <<>> ELSE <<run.outputs[i]>>]
    <3>1. DOMAIN run.outputs = {}
      BY <2>1
    <3>2. s = <<>>
      BY <3>1
    <3>3. FlattenSeq(s) = <<>>
      <4>. HIDE DEF s
      <4>1. Len(s) = 0
        BY <3>2
      <4>. QED  BY <3>2, <4>1 DEF FlattenSeq
    <3>. QED  BY <3>3 DEF Observed
  <2>. QED  BY <2>1
<1>3. pairs \in Seq(OutputType)
  <2>1. Len(run.outputs) \in Nat \ {0}
    BY <1>1, <1>2
  <2>. QED  BY <1>1, <2>1, ObservedIs
<1>. HIDE DEF pairs
<1>4. n \in Nat \ {0} /\ DOMAIN pairs = 1..n /\ \A i \in 1..n : pairs[i] \in OutputType
  BY <1>3, ElementOfSeq
<1>5. ASSUME NEW i \in 1..n
      PROVE  pairs[i].observed \in Int /\ pairs[i].simulated \in Int
  BY <1>4 DEF OutputType
<1>. QED  BY <1>4, <1>5, FiguresFit

\* evaluator.py:99-187: the figures of error of what a replay has collected
\* bound one another, are perfect exactly when there is no error, and have
\* R-squared below 0 exactly when the mean square of the errors exceeds the
\* variance of what was observed, for any voltages observed and simulated.
THEOREM FiguresOfErrorFit == ReplaySpec => []ErrorsFitEachOther
<1>. QED  BY ErrorsFit, ReplayInvHolds, PTL

===============================================================================
