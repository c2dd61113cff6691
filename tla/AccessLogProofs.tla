---------------------------- MODULE AccessLogProofs ----------------------------
(* For any goroutines, readers, windows, rings, buffers and batches, and    *)
(* with the process ending at any moment: what the dashboard shows and     *)
(* streams is right, the backend misses no signal and is flushed by Close, *)
(* and the backend is a LossyQueue.                                        *)
EXTENDS AccessLog, SequenceTheorems, FiniteSetTheorems, TLAPS

\* A worker past the backend holds the logger's mutex, and its entry is the
\* latest of the log.
WorkerOK(w) ==
    /\ wpc[w] # "idle" => went[w] \in Entry
    /\ wpc[w] \in {"signal", "observe"} <=> mu = w
    /\ mu = w => length > 0 /\ went[w].id = length

WorkersOK == \A w \in Workers : WorkerOK(w)

\* The last entry that the observers have been given.
Observed == IF mu \in Workers THEN length - 1 ELSE length

\* What the dashboard was told of is finite and was logged before.
SeenOK == IsFiniteSet(seen) /\ \A e \in seen : e.id <= Observed

\* Both lists hold entries of their kind, and all that are still in the window.
HitsOK ==
    /\ \A e \in hostHits : e.kind = "ok"
    /\ \A e \in dnsBlocks : e.kind = "dns-block"
    /\ \A e \in seen : Recent(e) => (e.kind = "ok" => e \in hostHits)
                                    /\ (e.kind = "dns-block" => e \in dnsBlocks)

\* The map of streams holds the readers that are connected.
ReadersOK == \A s \in Subscribers : s \in logSubs <=> spc[s] = "on"

\* What a reader has and will get are entries the observers have been given.
StreamOK(s) ==
    /\ last[s] <= Observed
    /\ \A i \in 1..Len(stream[s]) :
          /\ stream[s][i] <= Observed
          /\ stream[s][i] > last[s]
          /\ \A j \in 1..Len(stream[s]) : i < j => stream[s][i] < stream[s][j]

StreamsOK == \A s \in Subscribers : StreamOK(s)

\* Once a slot of the ring is used, so are those after it, with later times.
RingOK ==
    \A i \in 1..maxBuckets :
        /\ \A j \in 1..maxBuckets : i < j /\ Slot(i).time > 0 => Slot(i).time < Slot(j).time
        /\ Slot(i).time > 0 => Slot(i).reqs <= Cardinality({e \in seen : e.ts = Slot(i).time})

\* The dashboard's part of the inductive invariant.
CollectorInv == SeenOK /\ HitsOK /\ ReadersOK /\ StreamsOK /\ RingOK

\* A full buffer has its signal sent, or about to be.
SignalOK == Len(buf) >= batchSize /\ ~dead => token \/ \E w \in Workers : wpc[w] = "signal"

\* Where an entry is: in the buffer, in the batch under way, or dealt with.
Buffered == ToSet(buf)
Ended == posted \cup failed

\* An entry is in one place at a time.
PlacesOK ==
    /\ 1..length = Buffered \cup batch \cup Ended
    /\ Buffered \cap (batch \cup Ended) = {} /\ batch \cap Ended = {}
    /\ rpc = "post" <=> batch # {}

\* The goroutine's last flush takes all that was logged before Close.
ClosingOK ==
    /\ before \subseteq 1..length
    /\ final \/ rpc \in {"return", "done"} => stopCh /\ before \subseteq Ended \cup batch
    /\ final => rpc # "select"

\* The backend's part of the inductive invariant.
BackendInv == SignalOK /\ PlacesOK /\ ClosingOK

\* The inductive invariant.
IndInv == TypeOK /\ WorkersOK /\ CollectorInv /\ BackendInv

-----------------------------------------------------------------------------
(* Lists and the ring.                                                     *)

\* An empty buffer holds nothing.
LEMMA ToSetEmpty == ToSet(<<>>) = {}
BY DEF ToSet

\* A non-empty one holds something.
LEMMA ToSetNonEmpty == \A S : \A s \in Seq(S) : s # <<>> => ToSet(s) # {}
<1> SUFFICES ASSUME NEW S, NEW s \in Seq(S), s # <<>> PROVE ToSet(s) # {}
  OBVIOUS
<1>1. Len(s) \in Nat \ {0} /\ DOMAIN s = 1..Len(s)
  BY EmptySeq, LenProperties
<1>2. 1 \in DOMAIN s
  BY <1>1
<1> QED BY <1>2 DEF ToSet

\* Appending adds one entry.
LEMMA ToSetAppend ==
    ASSUME NEW S, NEW s \in Seq(S), NEW x \in S
    PROVE  ToSet(Append(s, x)) = ToSet(s) \cup {x}
<1> DEFINE t == Append(s, x)
<1>1. /\ t \in Seq(S) /\ Len(t) = Len(s) + 1 /\ t[Len(s) + 1] = x
      /\ \A i \in 1..Len(s) : t[i] = s[i]
  BY AppendProperties
<1>2. DOMAIN t = 1..Len(t) /\ DOMAIN s = 1..Len(s) /\ Len(s) \in Nat
  BY <1>1, LenProperties
<1> HIDE DEF t
<1>3. DOMAIN t = DOMAIN s \cup {Len(s) + 1}
  BY <1>1, <1>2
<1>4. ToSet(t) = ToSet(s) \cup {x}
  BY <1>1, <1>2, <1>3 DEF ToSet
<1> QED BY <1>4 DEF t

\* A slot of the ring, counted from any place.
LEMMA RingIndex ==
    ASSUME NEW b \in 0..(maxBuckets - 1), NEW i \in 1..maxBuckets
    PROVE  (b + i) % maxBuckets = IF b + i < maxBuckets THEN b + i ELSE b + i - maxBuckets
BY CollectorAssumption

\* The current bucket is the last slot, and no two places are the same slot.
LEMMA RingPlaces ==
    ASSUME CollectorTypeOK
    PROVE  /\ Slot(maxBuckets) = Cur
           /\ \A i \in 1..maxBuckets : Slot(i) \in [time : 0..MaxTime, reqs : Nat]
<1> USE CollectorAssumption DEF CollectorTypeOK
<1>1. \A i \in 1..maxBuckets : (bucketIdx + i) % maxBuckets \in 0..(maxBuckets - 1)
  BY RingIndex
<1>2. (bucketIdx + maxBuckets) % maxBuckets = bucketIdx
  BY RingIndex
<1> QED BY <1>1, <1>2 DEF Slot, Cur

\* Advancing shifts the ring by one slot and puts the new bucket last.
LEMMA AdvanceShifts ==
    ASSUME CollectorTypeOK, NEW t \in 1..MaxTime, NEW n \in Nat, Advance(t, n)
    PROVE  /\ bucketIdx' \in 0..(maxBuckets - 1)
           /\ buckets' \in [0..(maxBuckets - 1) -> [time : 0..MaxTime, reqs : Nat]]
           /\ \A i \in 1..maxBuckets :
                 Slot(i)' = IF i = maxBuckets THEN NewBucket(t, n) ELSE Slot(i + 1)
<1> USE CollectorAssumption DEF CollectorTypeOK
<1> DEFINE b == (bucketIdx + 1) % maxBuckets
<1>1. b = IF bucketIdx + 1 < maxBuckets THEN bucketIdx + 1 ELSE 0
  BY RingIndex
<1>2. b \in 0..(maxBuckets - 1)
  BY <1>1
<1>3. NewBucket(t, n) \in [time : 0..MaxTime, reqs : Nat]
  BY DEF NewBucket
<1>4. bucketIdx' = b /\ buckets' = [buckets EXCEPT ![b] = NewBucket(t, n)]
  BY DEF Advance
<1> HIDE DEF b
<1>5. buckets' \in [0..(maxBuckets - 1) -> [time : 0..MaxTime, reqs : Nat]]
  BY <1>2, <1>3, <1>4
<1>6. ASSUME NEW i \in 1..maxBuckets
      PROVE  Slot(i)' = IF i = maxBuckets THEN NewBucket(t, n) ELSE Slot(i + 1)
  <2> DEFINE k == (b + i) % maxBuckets
  <2>1. k = IF b + i < maxBuckets THEN b + i ELSE b + i - maxBuckets
    BY <1>2, RingIndex
  <2>2. Slot(i)' = buckets'[k]
    BY <1>4 DEF Slot
  <2>3. CASE i = maxBuckets
    <3>1. k = b
      BY <1>2, <2>1, <2>3
    <3> QED BY <1>2, <1>4, <2>2, <2>3, <3>1
  <2>4. CASE i # maxBuckets
    <3>1. i + 1 \in 1..maxBuckets
      BY <2>4
    <3> DEFINE m == (bucketIdx + (i + 1)) % maxBuckets
    <3>2. m = IF bucketIdx + (i + 1) < maxBuckets THEN bucketIdx + (i + 1)
                                                  ELSE bucketIdx + (i + 1) - maxBuckets
      BY <3>1, RingIndex
    <3> HIDE DEF k, m
    <3>3. k = m /\ k # b /\ k \in 0..(maxBuckets - 1)
      BY <1>1, <1>2, <2>1, <2>4, <3>2
    <3>4. buckets'[k] = buckets[k]
      BY <1>2, <1>4, <3>3
    <3> QED BY <2>2, <2>4, <3>3, <3>4 DEF Slot, m
  <2> QED BY <2>3, <2>4
<1> QED BY <1>2, <1>4, <1>5, <1>6

-----------------------------------------------------------------------------
(* The collector.                                                          *)

\* Later entries never take away from what a bucket's time has seen.
LEMMA SeenGrows ==
    ASSUME IsFiniteSet(seen'), seen \subseteq seen', NEW t
    PROVE  /\ Cardinality({e \in seen : e.ts = t}) \in Nat
           /\ Cardinality({e \in seen' : e.ts = t}) \in Nat
           /\ Cardinality({e \in seen : e.ts = t}) <= Cardinality({e \in seen' : e.ts = t})
<1> DEFINE A == {e \in seen : e.ts = t}
           B == {e \in seen' : e.ts = t}
<1>1. IsFiniteSet(B)
  BY FS_Subset
<1>2. A \in SUBSET B
  OBVIOUS
<1> HIDE DEF A, B
<1>3. IsFiniteSet(A) /\ Cardinality(A) <= Cardinality(B)
  BY <1>1, <1>2, FS_Subset
<1>4. Cardinality(A) \in Nat /\ Cardinality(B) \in Nat
  BY <1>1, <1>3, FS_CardinalityType
<1> QED BY <1>3, <1>4 DEF A, B

\* A new bucket keeps the ring in order if it is later than the current one.
LEMMA RingAdvances ==
    ASSUME CollectorTypeOK, RingOK, IsFiniteSet(seen'), seen \subseteq seen',
           NEW t \in 1..MaxTime, NEW n \in Nat, Advance(t, n), Cur.time = 0 \/ t > Cur.time,
           n <= Cardinality({e \in seen' : e.ts = t})
    PROVE  RingOK'
<1> USE CollectorAssumption
<1>1. \A i \in 1..maxBuckets : Slot(i)' = IF i = maxBuckets THEN NewBucket(t, n) ELSE Slot(i + 1)
  BY AdvanceShifts
<1>2. \A i \in 1..maxBuckets : Slot(i).time \in 0..MaxTime /\ Slot(i).reqs \in Nat
  BY RingPlaces
<1>3. NewBucket(t, n).time = t /\ NewBucket(t, n).reqs = n
  BY DEF NewBucket
<1>4. \A i \in 1..maxBuckets : Slot(i).time > 0 => Slot(i).time < t
  <2> SUFFICES ASSUME NEW i \in 1..maxBuckets, Slot(i).time > 0 PROVE Slot(i).time < t
    OBVIOUS
  <2>1. Slot(maxBuckets) = Cur
    BY RingPlaces
  <2>2. CASE i = maxBuckets
    BY <1>2, <2>1, <2>2
  <2>3. CASE i < maxBuckets
    <3>0. maxBuckets \in 1..maxBuckets
      OBVIOUS
    <3>1. Slot(i).time < Slot(maxBuckets).time
      BY <2>3, <3>0 DEF RingOK
    <3> QED BY <1>2, <2>1, <3>1
  <2> QED BY <2>2, <2>3
<1>5. ASSUME NEW i \in 1..maxBuckets, NEW j \in 1..maxBuckets, i < j, Slot(i)'.time > 0
      PROVE  Slot(i)'.time < Slot(j)'.time
  <2>1. i + 1 \in 1..maxBuckets /\ Slot(i)' = Slot(i + 1)
    BY <1>1, <1>5
  <2>2. CASE j = maxBuckets
    BY <1>1, <1>3, <1>4, <1>5, <2>1, <2>2
  <2>3. CASE j # maxBuckets
    <3>1. j + 1 \in 1..maxBuckets /\ Slot(j)' = Slot(j + 1) /\ i + 1 < j + 1
      BY <1>1, <1>5, <2>3
    <3> QED BY <1>5, <2>1, <3>1 DEF RingOK
  <2> QED BY <2>2, <2>3
<1>6. ASSUME NEW i \in 1..maxBuckets, Slot(i)'.time > 0
      PROVE  Slot(i)'.reqs <= Cardinality({e \in seen' : e.ts = Slot(i)'.time})
  <2>1. CASE i = maxBuckets
    BY <1>1, <1>3, <2>1
  <2>2. CASE i # maxBuckets
    <3>1. i + 1 \in 1..maxBuckets /\ Slot(i)' = Slot(i + 1)
      BY <1>1, <2>2
    <3>2. Slot(i + 1).reqs <= Cardinality({e \in seen : e.ts = Slot(i + 1).time})
      BY <1>6, <3>1 DEF RingOK
    <3>3. PICK u : u = Slot(i + 1).time
      OBVIOUS
    <3>4. /\ Cardinality({e \in seen : e.ts = u}) \in Nat
          /\ Cardinality({e \in seen' : e.ts = u}) \in Nat
          /\ Cardinality({e \in seen : e.ts = u}) <= Cardinality({e \in seen' : e.ts = u})
      BY SeenGrows
    <3>5. Slot(i + 1).reqs \in Nat
      BY <1>2, <3>1
    <3>6. Slot(i + 1).reqs <= Cardinality({e \in seen' : e.ts = u})
      BY <3>2, <3>3, <3>4, <3>5
    <3> QED BY <3>1, <3>3, <3>6
  <2> QED BY <2>1, <2>2
<1> QED BY <1>5, <1>6 DEF RingOK

\* What each part of CollectorInv reads; a step that leaves that alone keeps it.
LEMMA RingKept == RingOK /\ UNCHANGED <<buckets, bucketIdx, seen>> => RingOK'
BY DEF RingOK, Slot

\* The same for the entries seen,
LEMMA SeenKept == SeenOK /\ Observed' = Observed /\ UNCHANGED seen => SeenOK'
BY DEF SeenOK

\* for the lists of hits,
LEMMA HitsKept == HitsOK /\ UNCHANGED <<now, hostHits, dnsBlocks, seen>> => HitsOK'
BY DEF HitsOK, Recent

\* for the map of streams,
LEMMA ReadersKept == ReadersOK /\ UNCHANGED <<logSubs, spc>> => ReadersOK'
BY DEF ReadersOK

\* for the streams,
LEMMA StreamsKept == StreamsOK /\ Observed' = Observed /\ UNCHANGED <<stream, last>> => StreamsOK'
BY DEF StreamsOK, StreamOK

\* and for all of the collector.
LEMMA CollectorKept ==
    ASSUME CollectorTypeOK, CollectorInv, Observed' = Observed, UNCHANGED collectorVars
    PROVE  CollectorTypeOK' /\ CollectorInv'
<1>1. CollectorTypeOK'
  BY DEF CollectorTypeOK, collectorVars
<1> QED BY <1>1, RingKept, SeenKept, HitsKept, ReadersKept, StreamsKept DEF CollectorInv, collectorVars

\* A reader that has nothing to read.
LEMMA EmptyStream == <<>> \in Seq(Nat) /\ Len(<<>>) = 0
BY EmptySeq

\* What happens in the collector apart from the log.
LEMMA CollectorStep ==
    ASSUME CollectorTypeOK, CollectorInv, Observed \in Nat, Observed' = Observed, CollectorNext
    PROVE  CollectorTypeOK' /\ CollectorInv'
<1> USE CollectorAssumption
<1>1. CASE AddLiveBytes
  <2>1. Advance(now, 0) /\ now \in 1..MaxTime /\ (Cur.time = 0 \/ now > Cur.time)
        /\ UNCHANGED <<now, hostHits, dnsBlocks, logSubs, spc, stream, last, seen>>
    BY <1>1 DEF AddLiveBytes, CollectorTypeOK
  <2>2. CollectorTypeOK'
    BY <2>1, AdvanceShifts DEF CollectorTypeOK
  <2>3. IsFiniteSet(seen')
    BY <2>1 DEF CollectorInv, SeenOK
  <2>4. 0 <= Cardinality({e \in seen' : e.ts = now})
    <3>1. PICK t : t = now
      OBVIOUS
    <3>2. Cardinality({e \in seen' : e.ts = t}) \in Nat
      BY <2>1, <2>3, SeenGrows
    <3> QED BY <3>1, <3>2
  <2>5. RingOK'
    <3>1. PICK t : t = now
      OBVIOUS
    <3> QED BY <2>1, <2>3, <2>4, <3>1, RingAdvances DEF CollectorInv
  <2> QED BY <2>1, <2>2, <2>5, SeenKept, HitsKept, ReadersKept, StreamsKept DEF CollectorInv
<1>2. CASE compact
  <2>1. PICK t \in 1..now :
          /\ hostHits' = {e \in hostHits : e.ts > t - window}
          /\ dnsBlocks' = {e \in dnsBlocks : e.ts > t - window}
          /\ UNCHANGED <<now, buckets, bucketIdx, logSubs, spc, stream, last, seen>>
    BY <1>2 DEF compact, compactHits
  <2>2. CollectorTypeOK'
    BY <2>1 DEF CollectorTypeOK
  <2>3. \A e \in seen : Recent(e)' => Recent(e) /\ e.ts > t - window
    BY <2>1, CollectorAssumption DEF CollectorTypeOK, Recent, Entry
  <2>4. HitsOK'
    BY <2>1, <2>3 DEF CollectorInv, HitsOK
  <2> QED BY <2>1, <2>2, <2>4, RingKept, SeenKept, ReadersKept, StreamsKept DEF CollectorInv
<1>3. CASE Tick
  <2>1. /\ now' = now + 1 /\ now < MaxTime
        /\ UNCHANGED <<hostHits, dnsBlocks, buckets, bucketIdx, logSubs, spc, stream, last, seen>>
    BY <1>3 DEF Tick
  <2>2. CollectorTypeOK'
    BY <2>1 DEF CollectorTypeOK
  <2>3. \A e \in seen : Recent(e)' => Recent(e)
    BY <2>1 DEF CollectorTypeOK, Recent, Entry
  <2>4. HitsOK'
    BY <2>1, <2>3 DEF CollectorInv, HitsOK, Recent
  <2> QED BY <2>1, <2>2, <2>4, RingKept, SeenKept, ReadersKept, StreamsKept DEF CollectorInv
<1>4. ASSUME NEW s \in Subscribers, Subscribe(s) PROVE CollectorTypeOK' /\ CollectorInv'
  <2>1. UNCHANGED <<now, hostHits, dnsBlocks, buckets, bucketIdx, stream, last, seen>>
    BY <1>4 DEF Subscribe
  <2>2. CollectorTypeOK'
    BY <1>4 DEF CollectorTypeOK, Subscribe
  <2>3. ReadersOK'
    BY <1>4 DEF CollectorTypeOK, CollectorInv, ReadersOK, Subscribe
  <2> QED BY <2>1, <2>2, <2>3, RingKept, SeenKept, HitsKept, StreamsKept DEF CollectorInv
<1>5. ASSUME NEW s \in Subscribers, Receive(s) PROVE CollectorTypeOK' /\ CollectorInv'
  <2> DEFINE old == stream[s]
             new == Tail(stream[s])
  <2>1. /\ old # <<>> /\ last' = [last EXCEPT ![s] = Head(old)] /\ stream' = [stream EXCEPT ![s] = new]
        /\ UNCHANGED <<now, hostHits, dnsBlocks, buckets, bucketIdx, logSubs, spc, seen>>
    BY <1>5 DEF Receive
  <2>2. /\ old \in Seq(Nat) /\ Len(old) \in Nat \ {0} /\ Head(old) = old[1] /\ Head(old) \in Nat
        /\ new \in Seq(Nat) /\ Len(new) = Len(old) - 1
        /\ \A i \in 1..Len(new) : new[i] = old[i + 1]
    BY <2>1, EmptySeq, HeadTailProperties DEF CollectorTypeOK
  <2>7. Len(new) = Len(old) - 1 /\ Len(old) \in Nat \ {0}
    BY <2>2
  <2>3. \A i \in 1..Len(old) : old[i] \in Nat
    BY <2>2, ElementOfSeq
  <2> HIDE DEF new, old
  <2>4. CollectorTypeOK'
    BY <2>1, <2>2 DEF CollectorTypeOK
  <2>5. ASSUME NEW r \in Subscribers PROVE StreamOK(r)'
    <3>1. StreamOK(r) /\ StreamOK(s)
      BY DEF CollectorInv, StreamsOK
    <3>0. stream[s] = old
      BY DEF old
    <3>2. CASE r = s
      <4>1. last'[s] = old[1] /\ stream'[s] = new
        BY <2>1, <2>2 DEF CollectorTypeOK
      <4>2. old[1] <= Observed
        BY <2>2, <3>0, <3>1 DEF StreamOK
      <4>3. ASSUME NEW i \in 1..Len(new)
            PROVE  /\ new[i] <= Observed /\ new[i] > old[1]
                   /\ \A j \in 1..Len(new) : i < j => new[i] < new[j]
        <5>0. \A j \in 1..Len(new) : j + 1 \in 1..Len(old) /\ 1 < j + 1
          BY <2>7
        <5>1. i + 1 \in 1..Len(old) /\ 1 \in 1..Len(old) /\ 1 < i + 1 /\ new[i] = old[i + 1]
          BY <2>2, <2>7, <5>0
        <5>2. \A j \in 1..Len(new) : j + 1 \in 1..Len(old) /\ new[j] = old[j + 1]
          BY <2>2, <5>0
        <5>3. old[i + 1] <= Observed /\ old[1] < old[i + 1]
          BY <3>0, <3>1, <5>1 DEF StreamOK
        <5>4. ASSUME NEW j \in 1..Len(new), i < j PROVE new[i] < new[j]
          <6>1. i + 1 < j + 1
            BY <2>2, <5>4
          <6> QED BY <3>0, <3>1, <5>1, <5>2, <6>1 DEF StreamOK
        <5> QED BY <2>3, <5>1, <5>3, <5>4
      <4> QED BY <3>2, <4>1, <4>2, <4>3 DEF StreamOK
    <3>3. CASE r # s
      BY <2>1, <3>1, <3>3 DEF CollectorTypeOK, StreamOK
    <3> QED BY <3>2, <3>3
  <2>6. StreamsOK'
    BY <2>5 DEF StreamsOK
  <2> QED BY <2>1, <2>4, <2>6, RingKept, SeenKept, HitsKept, ReadersKept DEF CollectorInv
<1>6. ASSUME NEW s \in Subscribers, Unsubscribe(s) PROVE CollectorTypeOK' /\ CollectorInv'
  <2>1. UNCHANGED <<now, hostHits, dnsBlocks, buckets, bucketIdx, seen>>
    BY <1>6 DEF Unsubscribe
  <2> DEFINE Left == spc[s] = "on" /\ spc' = [spc EXCEPT ![s] = "leaving"]
                     /\ logSubs' = logSubs \ {s} /\ Drop(s)
             Closed == spc[s] = "leaving" /\ spc' = [spc EXCEPT ![s] = "off"]
                     /\ UNCHANGED <<logSubs, stream, last>>
  <2>0. Left \/ Closed
    BY <1>6 DEF Unsubscribe
  <2>2. CollectorTypeOK'
    <3>1. CASE Left
      BY <2>1, <3>1, EmptyStream DEF CollectorTypeOK, Drop
    <3>2. CASE Closed
      BY <2>1, <3>2 DEF CollectorTypeOK
    <3> QED BY <2>0, <3>1, <3>2
  <2>3. ReadersOK'
    BY <1>6 DEF CollectorTypeOK, CollectorInv, ReadersOK, Unsubscribe, Drop
  <2>4. ASSUME NEW r \in Subscribers PROVE StreamOK(r)'
    <3>1. \/ stream'[r] = stream[r] /\ last'[r] = last[r]
          \/ stream'[r] = <<>> /\ last'[r] = 0
      <4>1. CASE Left /\ r = s
        BY <4>1 DEF Drop, CollectorTypeOK
      <4>2. CASE Left /\ r # s
        BY <4>2 DEF Drop, CollectorTypeOK
      <4>3. CASE Closed
        BY <4>3
      <4> QED BY <2>0, <4>1, <4>2, <4>3
    <3> QED BY <3>1, EmptyStream DEF CollectorInv, StreamsOK, StreamOK
  <2>5. StreamsOK'
    BY <2>4 DEF StreamsOK
  <2> QED BY <2>1, <2>2, <2>3, <2>5, RingKept, SeenKept, HitsKept DEF CollectorInv
<1> QED BY <1>1, <1>2, <1>3, <1>4, <1>5, <1>6 DEF CollectorNext

\* Another entry of the current bucket's time.
LEMMA RingCounts ==
    ASSUME CollectorTypeOK, RingOK, IsFiniteSet(seen), NEW e, e \notin seen, e.ts = Cur.time,
           Cur.time > 0, seen' = seen \cup {e}, UNCHANGED bucketIdx,
           buckets' = [buckets EXCEPT ![bucketIdx].reqs = @ + 1]
    PROVE  RingOK'
<1> USE CollectorAssumption
<1> DEFINE At(i) == (bucketIdx + i) % maxBuckets
<1>1. \A i \in 1..maxBuckets : /\ At(i) \in 0..(maxBuckets - 1)
                               /\ At(i) = bucketIdx <=> i = maxBuckets
  <2> SUFFICES ASSUME NEW i \in 1..maxBuckets
               PROVE  At(i) \in 0..(maxBuckets - 1) /\ (At(i) = bucketIdx <=> i = maxBuckets)
    OBVIOUS
  <2>1. bucketIdx \in 0..(maxBuckets - 1)
    BY DEF CollectorTypeOK
  <2>2. At(i) = IF bucketIdx + i < maxBuckets THEN bucketIdx + i ELSE bucketIdx + i - maxBuckets
    BY <2>1, RingIndex
  <2> HIDE DEF At
  <2> QED BY <2>1, <2>2
<1>2. \A i \in 1..maxBuckets : Slot(i) \in [time : 0..MaxTime, reqs : Nat]
  BY RingPlaces
<1>3. \A i \in 1..maxBuckets :
        /\ Slot(i)'.time = Slot(i).time
        /\ Slot(i)'.reqs = IF i = maxBuckets THEN Slot(i).reqs + 1 ELSE Slot(i).reqs
  <2> SUFFICES ASSUME NEW i \in 1..maxBuckets
               PROVE  /\ Slot(i)'.time = Slot(i).time
                      /\ Slot(i)'.reqs = IF i = maxBuckets THEN Slot(i).reqs + 1 ELSE Slot(i).reqs
    OBVIOUS
  <2>1. Slot(i) = buckets[At(i)] /\ Slot(i)' = buckets'[At(i)]
    BY DEF Slot
  <2>2. At(i) \in 0..(maxBuckets - 1) /\ (At(i) = bucketIdx <=> i = maxBuckets)
    BY <1>1
  <2> HIDE DEF At
  <2>3. CASE i = maxBuckets
    BY <2>1, <2>2, <2>3 DEF CollectorTypeOK
  <2>4. CASE i # maxBuckets
    BY <2>1, <2>2, <2>4 DEF CollectorTypeOK
  <2> QED BY <2>3, <2>4
<1>4. ASSUME NEW i \in 1..maxBuckets, Slot(i)'.time > 0
      PROVE  Slot(i)'.reqs <= Cardinality({x \in seen' : x.ts = Slot(i)'.time})
  <2>0. PICK t : t = Slot(i).time
    OBVIOUS
  <2> DEFINE A == {x \in seen : x.ts = t}
             B == {x \in seen' : x.ts = t}
  <2>1. Slot(i).reqs <= Cardinality(A) /\ Slot(i).reqs \in Nat
    BY <1>2, <1>3, <1>4, <2>0 DEF RingOK
  <2>2. IsFiniteSet(seen')
    BY FS_AddElement
  <2>3. Cardinality(A) \in Nat /\ Cardinality(B) \in Nat /\ Cardinality(A) <= Cardinality(B)
    BY <2>2, SeenGrows
  <2>4. i = maxBuckets => Cardinality(B) = Cardinality(A) + 1
    <3> SUFFICES ASSUME i = maxBuckets PROVE Cardinality(B) = Cardinality(A) + 1
      OBVIOUS
    <3>1. e.ts = t
      BY <2>0, RingPlaces
    <3>2. B = A \cup {e} /\ e \notin A
      BY <3>1
    <3>3. IsFiniteSet(A)
      BY FS_Subset
    <3> HIDE DEF A, B
    <3> QED BY <3>2, <3>3, FS_AddElement
  <2>5. {x \in seen' : x.ts = Slot(i)'.time} = B
    BY <1>3, <2>0
  <2> HIDE DEF A, B
  <2>6. Slot(i)'.reqs = IF i = maxBuckets THEN Slot(i).reqs + 1 ELSE Slot(i).reqs
    BY <1>3
  <2>7. Slot(i)'.reqs <= Cardinality(B)
    BY <2>1, <2>3, <2>4, <2>6
  <2> QED BY <2>5, <2>7
<1> QED BY <1>3, <1>4 DEF RingOK

\* The observers are given the latest entry.
LEMMA ObserveStep ==
    ASSUME CollectorTypeOK, CollectorInv, Observed \in Nat, Observed' = Observed + 1,
           NEW e \in Entry, e.id = Observed', Observe(e)
    PROVE  CollectorTypeOK' /\ CollectorInv'
<1> USE CollectorAssumption
<1>1. e \notin seen
  BY DEF CollectorInv, SeenOK, CollectorTypeOK, Entry
<1>2. seen' = seen \cup {e} /\ IsFiniteSet(seen') /\ UNCHANGED <<now, logSubs, spc, last>>
  BY FS_AddElement DEF Observe, CollectorInv, SeenOK
<1>3. SeenOK'
  <2>1. \A x \in seen : x.id \in Nat /\ x.id <= Observed
    BY DEF CollectorTypeOK, Entry, CollectorInv, SeenOK
  <2> QED BY <1>2, <2>1 DEF SeenOK
<1>4. HitsOK'
  BY <1>2 DEF Observe, CollectorInv, HitsOK, Recent
<1>5. e.ts \in 1..MaxTime /\ recordTraffic(e.ts) /\ Cur.time \in 0..MaxTime
  BY RingPlaces DEF Entry, Observe, CollectorTypeOK, Cur
<1>6. RingOK' /\ bucketIdx' \in 0..(maxBuckets - 1)
      /\ buckets' \in [0..(maxBuckets - 1) -> [time : 0..MaxTime, reqs : Nat]]
  <2>1. CASE Cur.time = e.ts
    <3>1. buckets' = [buckets EXCEPT ![bucketIdx].reqs = @ + 1] /\ UNCHANGED bucketIdx
      BY <1>5, <2>1 DEF recordTraffic
    <3>2. RingOK'
      BY <1>1, <1>2, <1>5, <2>1, <3>1, RingCounts DEF CollectorInv, SeenOK
    <3>3. buckets[bucketIdx] \in [time : 0..MaxTime, reqs : Nat] /\ bucketIdx \in 0..(maxBuckets - 1)
      BY DEF CollectorTypeOK
    <3>4. [buckets[bucketIdx] EXCEPT !.reqs = @ + 1] \in [time : 0..MaxTime, reqs : Nat]
      BY <3>3
    <3>5. buckets' = [buckets EXCEPT ![bucketIdx] = [buckets[bucketIdx] EXCEPT !.reqs = @ + 1]]
      BY <3>1, <3>3 DEF CollectorTypeOK
    <3> QED BY <3>1, <3>2, <3>3, <3>4, <3>5 DEF CollectorTypeOK
  <2>2. CASE Cur.time # e.ts /\ (Cur.time = 0 \/ e.ts > Cur.time)
    <3>1. Advance(e.ts, 1)
      BY <1>5, <2>2 DEF recordTraffic
    <3>2. PICK t \in 1..MaxTime : t = e.ts
      BY <1>5
    <3>3. 1 <= Cardinality({x \in seen' : x.ts = t})
      <4> DEFINE A == {x \in seen : x.ts = t}
                 B == {x \in seen' : x.ts = t}
      <4>1. B = A \cup {e} /\ e \notin A
        BY <1>1, <1>2, <3>2
      <4>2. IsFiniteSet(A)
        BY FS_Subset DEF CollectorInv, SeenOK
      <4> HIDE DEF A, B
      <4>3. Cardinality(A) \in Nat /\ Cardinality(B) = Cardinality(A) + 1
        BY <4>1, <4>2, FS_AddElement, FS_CardinalityType
      <4> QED BY <4>3 DEF B
    <3>4. RingOK'
      BY <1>2, <2>2, <3>1, <3>2, <3>3, RingAdvances DEF CollectorInv
    <3> QED BY <3>1, <3>2, <3>4, AdvanceShifts
  <2>3. CASE Cur.time # e.ts /\ ~(Cur.time = 0 \/ e.ts > Cur.time)
    <3>1. UNCHANGED <<buckets, bucketIdx>>
      BY <1>5, <2>3 DEF recordTraffic
    <3>2. \A i \in 1..maxBuckets : Slot(i)' = Slot(i) /\ Slot(i).reqs \in Nat
      BY <3>1, RingPlaces DEF Slot
    <3>3. ASSUME NEW i \in 1..maxBuckets, Slot(i).time > 0
          PROVE  Slot(i)'.reqs <= Cardinality({x \in seen' : x.ts = Slot(i)'.time})
      <4>1. PICK t : t = Slot(i).time
        OBVIOUS
      <4>2. Slot(i).reqs <= Cardinality({x \in seen : x.ts = t})
        BY <3>3, <4>1 DEF CollectorInv, RingOK
      <4>3. /\ Cardinality({x \in seen : x.ts = t}) \in Nat
            /\ Cardinality({x \in seen' : x.ts = t}) \in Nat
            /\ Cardinality({x \in seen : x.ts = t}) <= Cardinality({x \in seen' : x.ts = t})
        BY <1>2, SeenGrows
      <4>4. Slot(i).reqs <= Cardinality({x \in seen' : x.ts = t})
        BY <3>2, <4>2, <4>3
      <4> QED BY <3>2, <4>1, <4>4
    <3> QED BY <3>1, <3>2, <3>3 DEF CollectorInv, RingOK, CollectorTypeOK
  <2> QED BY <2>1, <2>2, <2>3
<1>7. ASSUME NEW s \in Subscribers
      PROVE  /\ stream'[s] \in Seq(Nat)
             /\ StreamOK(s)'
  <2> DEFINE old == stream[s]
             new == Append(old, e.id)
  <2>1. old \in Seq(Nat) /\ Len(old) \in Nat /\ e.id \in Nat
    BY LenProperties DEF CollectorTypeOK, Entry
  <2>2. /\ new \in Seq(Nat) /\ Len(new) = Len(old) + 1 /\ new[Len(old) + 1] = e.id
        /\ \A i \in 1..Len(old) : new[i] = old[i]
    BY <2>1, AppendProperties
  <2>3. stream'[s] = old \/ stream'[s] = new
    BY DEF Observe
  <2>4. \A i \in 1..Len(old) : old[i] \in Nat
    BY <2>1, ElementOfSeq
  <2>5. StreamOK(s) /\ last[s] \in Nat
    BY DEF CollectorInv, StreamsOK, CollectorTypeOK
  <2>6. \A i \in 1..Len(old) :
          /\ old[i] <= Observed /\ old[i] > last[s]
          /\ \A j \in 1..Len(old) : i < j => old[i] < old[j]
    BY <2>5 DEF StreamOK
  <2>7. last[s] <= Observed /\ last'[s] = last[s]
    BY <1>2, <2>5 DEF StreamOK
  <2> HIDE DEF old, new
  <2>8. CASE stream'[s] = old
    BY <2>1, <2>4, <2>5, <2>6, <2>7, <2>8 DEF StreamOK
  <2>9. CASE stream'[s] = new
    <3>1. ASSUME NEW i \in 1..Len(new)
          PROVE  /\ new[i] <= Observed' /\ new[i] > last[s]
                 /\ \A j \in 1..Len(new) : i < j => new[i] < new[j]
      <4>1. CASE i = Len(old) + 1
        <5>1. \A j \in 1..Len(new) : ~(i < j)
          BY <2>1, <2>2, <4>1
        <5> QED BY <2>1, <2>2, <2>5, <2>7, <4>1, <5>1
      <4>2. CASE i \in 1..Len(old)
        <5>1. new[i] = old[i] /\ old[i] \in Nat /\ old[i] <= Observed /\ old[i] > last[s]
          BY <2>2, <2>4, <2>6, <4>2
        <5>2. ASSUME NEW j \in 1..Len(new), i < j PROVE new[i] < new[j]
          <6>1. CASE j = Len(old) + 1
            BY <2>1, <2>2, <5>1, <6>1
          <6>2. CASE j \in 1..Len(old)
            BY <2>2, <2>6, <4>2, <5>1, <5>2, <6>2
          <6> QED BY <2>1, <2>2, <6>1, <6>2
        <5> QED BY <5>1, <5>2
      <4> QED BY <2>1, <2>2, <4>1, <4>2
    <3> QED BY <2>2, <2>5, <2>7, <2>9, <3>1 DEF StreamOK
  <2> QED BY <2>3, <2>8, <2>9
<1>8. StreamsOK'
  BY <1>7 DEF StreamsOK
<1>9. ReadersOK'
  BY <1>2, ReadersKept DEF CollectorInv
<1>10. CollectorTypeOK'
  <2>1. stream' \in [Subscribers -> Seq(Nat)]
    BY <1>7 DEF Observe
  <2>2. seen' \subseteq Entry /\ hostHits' \subseteq seen' /\ dnsBlocks' \subseteq seen'
    BY <1>2 DEF Observe, CollectorTypeOK
  <2> QED BY <1>2, <1>6, <2>1, <2>2 DEF CollectorTypeOK
<1> QED BY <1>3, <1>4, <1>6, <1>8, <1>9, <1>10 DEF CollectorInv

\* A collector that has seen nothing yet.
LEMMA FreshCollector == Observed \in Nat /\ CollectorInit => CollectorTypeOK /\ CollectorInv
<1> SUFFICES ASSUME Observed \in Nat, CollectorInit PROVE CollectorTypeOK /\ CollectorInv
  OBVIOUS
<1> USE CollectorAssumption
<1>1. CollectorTypeOK
  BY EmptyStream DEF CollectorInit, CollectorTypeOK, NoBuckets, NewBucket
<1>2. StreamsOK
  BY EmptyStream DEF CollectorInit, StreamsOK, StreamOK
<1>3. RingOK
  <2>1. \A i \in 1..maxBuckets : Slot(i).time = 0
    <3> SUFFICES ASSUME NEW i \in 1..maxBuckets PROVE Slot(i).time = 0
      OBVIOUS
    <3>1. (bucketIdx + i) % maxBuckets \in 0..(maxBuckets - 1)
      BY <1>1 DEF CollectorTypeOK
    <3> QED BY <3>1 DEF CollectorInit, NoBuckets, NewBucket, Slot
  <2> QED BY <2>1 DEF RingOK
<1>4. SeenOK /\ HitsOK /\ ReadersOK
  BY FS_EmptySet DEF CollectorInit, SeenOK, HitsOK, ReadersOK
<1> QED BY <1>1, <1>2, <1>3, <1>4 DEF CollectorInv

\* The collector after the process has ended is a fresh one.
LEMMA CollectorEnds ==
    ASSUME Observed' \in Nat, CollectorGone
    PROVE  CollectorTypeOK' /\ CollectorInv'
<1>1. CollectorInit'
  BY DEF CollectorInit, CollectorGone, NoBuckets
<1>2. (Observed \in Nat /\ CollectorInit => CollectorTypeOK /\ CollectorInv)'
  BY FreshCollector, PTL
<1> QED BY <1>1, <1>2

-----------------------------------------------------------------------------
(* The logger and its backend.                                             *)

\* The number of entries observed is a number.
LEMMA ObservedTyped == TypeOK /\ WorkersOK => Observed \in Nat
BY LogAssumption DEF TypeOK, WorkersOK, WorkerOK, Observed

\* The types apart from the collector's.
LogTypeOK ==
    /\ mu \in Workers \cup {"main", None}
    /\ wpc \in [Workers -> {"idle", "busy", "signal", "observe"}]
    /\ went \in [Workers -> Entry \cup {None}]
    /\ length \in 0..MaxEntries
    /\ buf \in Seq(Entries) /\ batch \subseteq Entries
    /\ token \in BOOLEAN /\ final \in BOOLEAN /\ stopCh \in BOOLEAN /\ dead \in BOOLEAN
    /\ rpc \in {"select", "post", "report", "return", "done"}
    /\ posted \subseteq Entries /\ failed \subseteq Entries /\ before \subseteq Entries

\* The type invariant is the collector's and the logger's.
LEMMA TypeSplit == TypeOK <=> CollectorTypeOK /\ LogTypeOK
BY DEF TypeOK, LogTypeOK

\* What the loggers' and the backend's steps keep by themselves.
LogInv == LogTypeOK /\ WorkersOK /\ BackendInv

\* A request begins.
LEMMA Beginning ==
    ASSUME CollectorTypeOK, LogInv, NEW w \in Workers, NEW kind \in Kinds[w], Begin(w, kind)
    PROVE  LogInv' /\ Observed' = Observed
<1> DEFINE e == [id |-> 0, ts |-> now, kind |-> kind]
<1>1. /\ wpc[w] = "idle" /\ wpc' = [wpc EXCEPT ![w] = "busy"] /\ went' = [went EXCEPT ![w] = e]
      /\ UNCHANGED <<mu, length, buf, token, backendVars>>
  BY DEF Begin
<1>2. e \in Entry
  BY LogAssumption DEF Entry, CollectorTypeOK
<1> HIDE DEF e
<1>3. LogTypeOK'
  BY <1>1, <1>2 DEF LogInv, LogTypeOK, backendVars
<1>4. WorkersOK'
  <2> SUFFICES ASSUME NEW v \in Workers PROVE WorkerOK(v)'
    BY DEF WorkersOK
  <2>1. WorkerOK(v)
    BY DEF LogInv, WorkersOK
  <2>2. CASE v = w
    BY <1>1, <1>2, <2>1, <2>2 DEF LogInv, LogTypeOK, WorkerOK
  <2>3. CASE v # w
    BY <1>1, <2>1, <2>3 DEF LogInv, LogTypeOK, WorkerOK
  <2> QED BY <2>2, <2>3
<1>5. SignalOK'
  <2>1. \A v \in Workers : wpc[v] = "signal" => wpc'[v] = "signal"
    BY <1>1 DEF LogInv, LogTypeOK
  <2> QED BY <1>1, <2>1 DEF LogInv, BackendInv, SignalOK, backendVars
<1>6. PlacesOK' /\ ClosingOK'
  BY <1>1 DEF LogInv, BackendInv, PlacesOK, ClosingOK, Buffered, Ended, backendVars
<1> QED BY <1>1, <1>3, <1>4, <1>5, <1>6 DEF LogInv, BackendInv, Observed

\* Log takes the mutex and the backend appends the entry.
LEMMA Logging ==
    ASSUME LogInv, NEW w \in Workers, Log(w)
    PROVE  LogInv' /\ Observed' = Observed
<1> USE LogAssumption
<1> DEFINE n == length + 1
           l == IF Len(buf') >= batchSize THEN "signal" ELSE "observe"
<1>1. /\ wpc[w] = "busy" /\ mu = None /\ length < MaxEntries /\ length' = n
      /\ buf' = Append(buf, n) /\ went' = [went EXCEPT ![w].id = n]
      /\ wpc' = [wpc EXCEPT ![w] = l] /\ mu' = w
      /\ UNCHANGED <<token, backendVars>>
  BY DEF Log, Extend
<1>2. length \in Nat /\ n \in Entries /\ n > 0
  BY <1>1 DEF LogInv, LogTypeOK, Entries
<1>3. /\ buf' \in Seq(Entries) /\ ToSet(buf') = ToSet(buf) \cup {n}
      /\ Len(buf') \in Nat
  BY <1>1, <1>2, AppendProperties, ToSetAppend, LenProperties DEF LogInv, LogTypeOK
<1>4. went[w] \in Entry /\ WorkerOK(w)
  BY <1>1 DEF LogInv, WorkersOK, WorkerOK
<1>5. went'[w] = [went[w] EXCEPT !.id = n] /\ \A v \in Workers : v # w => went'[v] = went[v]
  BY <1>1 DEF LogInv, LogTypeOK
<1>6. went'[w] \in Entry /\ went'[w].id = n
  BY <1>2, <1>4, <1>5 DEF Entry
<1>7. LogTypeOK'
  <2>1. went' \in [Workers -> Entry \cup {None}]
    BY <1>1, <1>5, <1>6 DEF LogInv, LogTypeOK
  <2>2. length' \in 0..MaxEntries
    BY <1>1, <1>2
  <2> HIDE DEF n
  <2> QED BY <1>1, <1>3, <2>1, <2>2 DEF LogInv, LogTypeOK, backendVars
<1>8. WorkersOK'
  <2> SUFFICES ASSUME NEW v \in Workers PROVE WorkerOK(v)'
    BY DEF WorkersOK
  <2>1. WorkerOK(v)
    BY DEF LogInv, WorkersOK
  <2>2. CASE v = w
    BY <1>1, <1>2, <1>6, <2>2 DEF LogInv, LogTypeOK, WorkerOK
  <2>3. CASE v # w
    BY <1>1, <1>5, <2>1, <2>3 DEF LogInv, LogTypeOK, WorkerOK
  <2> QED BY <2>2, <2>3
<1>9. SignalOK'
  <2>1. wpc'[w] = l
    BY <1>1 DEF LogInv, LogTypeOK
  <2> QED BY <2>1 DEF SignalOK
<1>10. PlacesOK'
  <2>1. 1..length' = 1..length \cup {n} /\ n \notin 1..length
    BY <1>1, <1>2
  <2>2. UNCHANGED <<batch, Ended, rpc>> /\ Buffered' = Buffered \cup {n}
    BY <1>1, <1>3 DEF backendVars, Ended, Buffered
  <2> HIDE DEF n
  <2> QED BY <2>1, <2>2 DEF LogInv, BackendInv, PlacesOK
<1>11. ClosingOK'
  <2>1. 1..length \subseteq 1..length'
    BY <1>1, <1>2
  <2> QED BY <1>1, <2>1 DEF LogInv, BackendInv, ClosingOK, Ended, backendVars
<1>12. Observed' = Observed
  BY <1>1, <1>2 DEF Observed
<1> QED BY <1>7, <1>8, <1>9, <1>10, <1>11, <1>12 DEF LogInv, BackendInv

\* The backend is signalled, or its channel already holds a signal.
LEMMA Signalling ==
    ASSUME LogInv, NEW w \in Workers, Signal(w)
    PROVE  LogInv' /\ Observed' = Observed
<1>1. /\ wpc[w] = "signal" /\ token' = TRUE /\ wpc' = [wpc EXCEPT ![w] = "observe"]
      /\ UNCHANGED <<mu, went, length, buf, backendVars>>
  BY DEF Signal
<1>2. LogTypeOK'
  BY <1>1 DEF LogInv, LogTypeOK, backendVars
<1>3. WorkersOK'
  <2> SUFFICES ASSUME NEW v \in Workers PROVE WorkerOK(v)'
    BY DEF WorkersOK
  <2>1. WorkerOK(v)
    BY DEF LogInv, WorkersOK
  <2> QED BY <1>1, <2>1 DEF LogInv, LogTypeOK, WorkerOK
<1>4. SignalOK'
  BY <1>1 DEF SignalOK
<1>5. PlacesOK' /\ ClosingOK'
  BY <1>1 DEF LogInv, BackendInv, PlacesOK, ClosingOK, Buffered, Ended, backendVars
<1> QED BY <1>1, <1>2, <1>3, <1>4, <1>5 DEF LogInv, BackendInv, Observed

\* Log gives the mutex back after the observers.
LEMMA Returning ==
    ASSUME LogInv, NEW w \in Workers, Return(w)
    PROVE  /\ LogInv' /\ Observed' = Observed + 1
           /\ went[w] \in Entry /\ went[w].id = Observed' /\ Observe(went[w])
<1> USE LogAssumption
<1>1. WorkerOK(w) /\ wpc[w] = "observe"
  BY DEF LogInv, WorkersOK, Return
<1>2. mu = w /\ length > 0 /\ went[w].id = length /\ went[w] \in Entry
  BY <1>1 DEF WorkerOK
<1>3. PICK l \in {"idle", "busy"}, g \in Entry \cup {None} :
        /\ mu' = None /\ wpc' = [wpc EXCEPT ![w] = l] /\ went' = [went EXCEPT ![w] = g]
        /\ l = "busy" => g \in Entry
        /\ UNCHANGED <<length, buf, token, backendVars>> /\ Observe(went[w])
  <2>1. mu' = None /\ UNCHANGED <<length, buf, token, backendVars>> /\ Observe(went[w])
    BY <1>2 DEF Return
  <2>2. CASE wpc' = [wpc EXCEPT ![w] = "idle"] /\ went' = [went EXCEPT ![w] = None]
    BY <2>1, <2>2
  <2>3. CASE wpc' = [wpc EXCEPT ![w] = "busy"] /\ went' = [went EXCEPT ![w].id = 0]
    <3> DEFINE again == [went[w] EXCEPT !.id = 0]
    <3>1. again \in Entry
      BY <1>2 DEF Entry
    <3>2. went' = [went EXCEPT ![w] = again]
      BY <2>3
    <3> QED BY <2>1, <2>3, <3>1, <3>2
  <2> QED BY <2>2, <2>3 DEF Return
<1>4. Observed' = Observed + 1 /\ Observed' = length
  BY <1>2, <1>3 DEF Observed, LogInv, LogTypeOK
<1>5. LogTypeOK'
  BY <1>3 DEF LogInv, LogTypeOK, backendVars
<1>6. WorkersOK'
  <2> SUFFICES ASSUME NEW v \in Workers PROVE WorkerOK(v)'
    BY DEF WorkersOK
  <2>1. WorkerOK(v)
    BY DEF LogInv, WorkersOK
  <2>2. CASE v = w
    BY <1>3, <2>2 DEF LogInv, LogTypeOK, WorkerOK
  <2>3. CASE v # w
    BY <1>2, <1>3, <2>1, <2>3 DEF LogInv, LogTypeOK, WorkerOK
  <2> QED BY <2>2, <2>3
<1>7. SignalOK'
  <2>1. \A v \in Workers : wpc[v] = "signal" => wpc'[v] = "signal"
    BY <1>1, <1>3 DEF LogInv, LogTypeOK
  <2> QED BY <1>3, <2>1 DEF LogInv, BackendInv, SignalOK, backendVars
<1>8. PlacesOK' /\ ClosingOK'
  BY <1>3 DEF LogInv, BackendInv, PlacesOK, ClosingOK, Buffered, Ended, backendVars
<1> QED BY <1>2, <1>3, <1>4, <1>5, <1>6, <1>7, <1>8 DEF LogInv, BackendInv

\* What the backend's goroutine does leaves the logger alone.
LEMMA Running ==
    ASSUME LogInv, Run
    PROVE  /\ LogInv' /\ Observed' = Observed /\ UNCHANGED collectorVars
<1> USE LogAssumption
<1>0. UNCHANGED <<mu, wpc, went, length, stopCh, dead, before, collectorVars>>
  BY DEF Run, RunTick, RunSignal, RunStop, Post, Report, RunReturns
<1>1. WorkersOK' /\ Observed' = Observed
  BY <1>0 DEF LogInv, WorkersOK, WorkerOK, Observed
<1>9. SUFFICES LogInv'
  BY <1>0, <1>1
<1>2. /\ <<>> \in Seq(Entries) /\ Len(<<>>) = 0 /\ buf \in Seq(Entries)
      /\ (buf # <<>> => ToSet(buf) # {}) /\ ToSet(buf) \subseteq 1..length /\ ToSet(buf) \subseteq Entries
  <2>1. 1..length \subseteq Entries
    BY DEF LogInv, LogTypeOK, Entries
  <2>2. ToSet(buf) \subseteq 1..length
    BY DEF LogInv, BackendInv, PlacesOK, Buffered
  <2> QED BY <2>1, <2>2, EmptySeq, ToSetNonEmpty DEF LogInv, LogTypeOK
\* A flush that begins, from the select.
<1>3. ASSUME rpc = "select", TakeBatch, rpc' = "post", buf # <<>>, UNCHANGED <<posted, failed>>,
             token' \in BOOLEAN, final' \in BOOLEAN, final' => stopCh
      PROVE  LogInv'
  <2>1. batch = {} /\ batch' = ToSet(buf) /\ buf' = <<>> /\ ToSet(buf') = {}
    BY <1>3, ToSetEmpty DEF TakeBatch, LogInv, BackendInv, PlacesOK
  <2>2. LogTypeOK'
    BY <1>0, <1>2, <1>3, <2>1 DEF LogInv, LogTypeOK
  <2>3. SignalOK'
    BY <1>2, <2>1 DEF SignalOK
  <2>4. PlacesOK'
    BY <1>0, <1>2, <1>3, <2>1 DEF LogInv, BackendInv, PlacesOK, Buffered, Ended
  <2>5. ClosingOK'
    BY <1>0, <1>2, <1>3, <2>1 DEF LogInv, BackendInv, PlacesOK, ClosingOK, Buffered, Ended
  <2> QED BY <1>1, <2>2, <2>3, <2>4, <2>5 DEF LogInv, BackendInv
<1>4. CASE RunTick
  <2>1. final => stopCh
    BY DEF LogInv, BackendInv, ClosingOK
  <2> QED BY <1>3, <1>4, <2>1 DEF RunTick, LogInv, LogTypeOK
<1>5. CASE RunSignal
  <2>1. final => stopCh
    BY DEF LogInv, BackendInv, ClosingOK
  <2>2. CASE buf # <<>>
    BY <1>3, <1>5, <2>1, <2>2 DEF RunSignal, StartFlush, LogInv, LogTypeOK
  <2>3. CASE buf = <<>>
    <3>1. UNCHANGED <<buf, batch, rpc, final, posted, failed>> /\ token' = FALSE
      BY <1>5, <2>3 DEF RunSignal, StartFlush
    <3>2. LogTypeOK'
      BY <1>0, <3>1 DEF LogInv, LogTypeOK
    <3>3. SignalOK'
      BY <1>2, <2>3, <3>1 DEF SignalOK
    <3>4. PlacesOK' /\ ClosingOK'
      BY <1>0, <3>1 DEF LogInv, BackendInv, PlacesOK, ClosingOK, Buffered, Ended
    <3> QED BY <1>1, <3>2, <3>3, <3>4 DEF LogInv, BackendInv
  <2> QED BY <2>2, <2>3
<1>6. CASE RunStop
  <2>1. rpc = "select" /\ stopCh /\ final' = TRUE /\ StartFlush("return") /\ UNCHANGED <<token, posted, failed>>
    BY <1>6 DEF RunStop
  <2>2. CASE buf # <<>>
    BY <1>3, <2>1, <2>2 DEF StartFlush, LogInv, LogTypeOK
  <2>3. CASE buf = <<>>
    <3>1. UNCHANGED <<buf, batch>> /\ rpc' = "return"
      BY <2>1, <2>3 DEF StartFlush
    <3>2. LogTypeOK'
      BY <1>0, <2>1, <3>1 DEF LogInv, LogTypeOK
    <3>3. SignalOK'
      BY <1>2, <2>3, <3>1 DEF SignalOK
    <3>4. PlacesOK'
      BY <1>0, <2>1, <3>1 DEF LogInv, BackendInv, PlacesOK, Buffered, Ended
    <3>5. ClosingOK'
      BY <1>0, <2>1, <2>3, <3>1, ToSetEmpty DEF LogInv, BackendInv, PlacesOK, ClosingOK, Buffered, Ended
    <3> QED BY <1>1, <3>2, <3>3, <3>4, <3>5 DEF LogInv, BackendInv
  <2> QED BY <2>2, <2>3
<1>7. CASE Post
  <2>1. /\ rpc = "post" /\ batch' = {} /\ UNCHANGED <<buf, token, final>>
        /\ \/ posted' = posted \cup batch /\ rpc' = AfterFlush /\ UNCHANGED failed
           \/ failed' = failed \cup batch /\ rpc' = "report" /\ UNCHANGED posted
    BY <1>7 DEF Post
  <2>2. Ended' = Ended \cup batch /\ (rpc' = AfterFlush \/ rpc' = "report")
    BY <2>1 DEF Ended
  <2>3. LogTypeOK'
    BY <1>0, <2>1 DEF LogInv, LogTypeOK, AfterFlush
  <2>4. SignalOK'
    BY <1>0, <2>1 DEF LogInv, BackendInv, SignalOK
  <2>5. PlacesOK'
    BY <1>0, <2>1, <2>2 DEF LogInv, BackendInv, PlacesOK, Buffered, AfterFlush
  <2>6. ClosingOK'
    BY <1>0, <2>1, <2>2 DEF LogInv, BackendInv, ClosingOK, AfterFlush
  <2> QED BY <1>1, <2>3, <2>4, <2>5, <2>6 DEF LogInv, BackendInv
<1>8. CASE Report \/ RunReturns
  <2>1. /\ UNCHANGED <<buf, token, batch, final, posted, failed>>
        /\ \/ rpc = "report" /\ rpc' = AfterFlush
           \/ rpc = "return" /\ rpc' = "done"
    BY <1>8 DEF Report, RunReturns
  <2>2. LogTypeOK'
    BY <1>0, <2>1 DEF LogInv, LogTypeOK, AfterFlush
  <2>3. SignalOK'
    BY <1>0, <2>1 DEF LogInv, BackendInv, SignalOK
  <2>4. PlacesOK'
    BY <1>0, <2>1 DEF LogInv, BackendInv, PlacesOK, Buffered, Ended, AfterFlush
  <2>5. ClosingOK'
    BY <1>0, <2>1 DEF LogInv, BackendInv, ClosingOK, Ended, AfterFlush
  <2> QED BY <1>1, <2>2, <2>3, <2>4, <2>5 DEF LogInv, BackendInv
<1> QED BY <1>4, <1>5, <1>6, <1>7, <1>8 DEF Run

\* Close begins and returns.
LEMMA Closing ==
    ASSUME LogInv, CloseBegins \/ CloseReturns
    PROVE  LogInv' /\ Observed' = Observed
<1> USE LogAssumption
<1>1. /\ mu \notin Workers /\ mu' \notin Workers /\ mu' \in {"main", None}
      /\ UNCHANGED <<wpc, went, length, buf, token, rpc, batch, final, dead, posted, failed>>
      /\ \/ stopCh' = TRUE /\ ~stopCh /\ before' = 1..length
         \/ UNCHANGED <<stopCh, before>>
  BY DEF CloseBegins, CloseReturns, backendVars
<1>0. 1..length \subseteq Entries
  BY DEF LogInv, LogTypeOK, Entries
<1>2. LogTypeOK'
  <2>1. stopCh' \in BOOLEAN /\ before' \subseteq Entries
    BY <1>0, <1>1 DEF LogInv, LogTypeOK
  <2> QED BY <1>1, <2>1 DEF LogInv, LogTypeOK
<1>3. WorkersOK'
  <2> SUFFICES ASSUME NEW v \in Workers PROVE WorkerOK(v)'
    BY DEF WorkersOK
  <2>1. WorkerOK(v) /\ mu # v /\ mu' # v
    BY <1>1 DEF LogInv, WorkersOK
  <2> QED BY <1>1, <2>1 DEF WorkerOK
<1>4. SignalOK' /\ PlacesOK'
  BY <1>1 DEF LogInv, BackendInv, SignalOK, PlacesOK, Buffered, Ended
<1>5. ClosingOK'
  <2>1. CASE stopCh' = TRUE /\ ~stopCh /\ before' = 1..length
    <3>1. ~(final \/ rpc \in {"return", "done"})
      BY <2>1 DEF LogInv, BackendInv, ClosingOK
    <3> QED BY <1>1, <2>1, <3>1 DEF LogInv, BackendInv, ClosingOK, Ended
  <2>2. CASE UNCHANGED <<stopCh, before>>
    BY <1>1, <2>2 DEF LogInv, BackendInv, ClosingOK, Ended
  <2> QED BY <1>1, <2>1, <2>2
<1>6. Observed' = Observed
  BY <1>1 DEF Observed
<1> QED BY <1>2, <1>3, <1>4, <1>5, <1>6 DEF LogInv, BackendInv

\* The process ends.
LEMMA Exiting ==
    ASSUME LogInv, Exit
    PROVE  LogInv' /\ Observed' \in Nat /\ CollectorGone
<1> USE LogAssumption
<1>1. /\ dead' = TRUE /\ CollectorGone /\ mu' = None /\ token' = FALSE /\ final' = FALSE
      /\ wpc' = [w \in Workers |-> "idle"] /\ went' = [w \in Workers |-> None]
      /\ UNCHANGED <<length, buf, rpc, batch, stopCh, posted, failed, before>>
  BY DEF Exit
<1>2. LogTypeOK'
  BY <1>1 DEF LogInv, LogTypeOK
<1>3. WorkersOK'
  BY <1>1 DEF WorkersOK, WorkerOK
<1>4. SignalOK' /\ PlacesOK'
  BY <1>1 DEF LogInv, BackendInv, SignalOK, PlacesOK, Buffered, Ended
<1>5. ClosingOK'
  BY <1>1 DEF LogInv, BackendInv, ClosingOK, Ended
<1>6. Observed' \in Nat
  BY <1>1 DEF Observed, LogInv, LogTypeOK
<1> QED BY <1>1, <1>2, <1>3, <1>4, <1>5, <1>6 DEF LogInv, BackendInv

\* Every step keeps the invariant.
LEMMA NextInv == IndInv /\ [Next]_vars => IndInv'
<1> SUFFICES ASSUME IndInv, [Next]_vars PROVE IndInv'
  OBVIOUS
<1>1. CollectorTypeOK /\ CollectorInv /\ LogInv /\ Observed \in Nat
  BY TypeSplit, ObservedTyped DEF IndInv, LogInv
<1>2. (TypeOK <=> CollectorTypeOK /\ LogTypeOK)'
  BY TypeSplit, PTL
<1>3. SUFFICES CollectorTypeOK' /\ CollectorInv' /\ LogInv'
  BY <1>2 DEF IndInv, LogInv
<1>4. ASSUME NEW w \in Workers, NEW kind \in Kinds[w], Begin(w, kind)
      PROVE  CollectorTypeOK' /\ CollectorInv' /\ LogInv'
  BY <1>1, <1>4, Beginning, CollectorKept DEF Begin
<1>5. ASSUME NEW w \in Workers, Log(w) PROVE CollectorTypeOK' /\ CollectorInv' /\ LogInv'
  BY <1>1, <1>5, Logging, CollectorKept DEF Log
<1>6. ASSUME NEW w \in Workers, Signal(w) PROVE CollectorTypeOK' /\ CollectorInv' /\ LogInv'
  BY <1>1, <1>6, Signalling, CollectorKept DEF Signal
<1>7. ASSUME NEW w \in Workers, Return(w) PROVE CollectorTypeOK' /\ CollectorInv' /\ LogInv'
  <2>1. /\ LogInv' /\ Observed' = Observed + 1
        /\ went[w] \in Entry /\ went[w].id = Observed' /\ Observe(went[w])
    BY <1>1, <1>7, Returning
  <2>2. PICK e \in Entry : e = went[w]
    BY <2>1
  <2>3. e.id = Observed' /\ Observe(e)
    BY <2>1, <2>2 DEF Observe
  <2> QED BY <1>1, <2>1, <2>3, ObserveStep
<1>8. CASE Run
  BY <1>1, <1>8, Running, CollectorKept
<1>9. CASE CollectorNext /\ UNCHANGED logVars
  <2>1. Observed' = Observed
    BY <1>9 DEF Observed, logVars
  <2>2. LogInv'
    BY <1>1, <1>9 DEF logVars, backendVars, LogInv, LogTypeOK, WorkersOK, WorkerOK, BackendInv, SignalOK,
       PlacesOK, ClosingOK, Buffered, Ended
  <2> QED BY <1>1, <1>9, <2>1, <2>2, CollectorStep
<1>10. CASE CloseBegins \/ CloseReturns
  BY <1>1, <1>10, Closing, CollectorKept DEF CloseBegins, CloseReturns
<1>11. CASE Exit
  BY <1>1, <1>11, Exiting, CollectorEnds
<1>12. CASE UNCHANGED vars
  <2>1. Observed' = Observed /\ UNCHANGED collectorVars
    BY <1>12 DEF Observed, vars, logVars
  <2>2. LogInv'
    BY <1>1, <1>12 DEF vars, logVars, backendVars, LogInv, LogTypeOK, WorkersOK, WorkerOK, BackendInv,
       SignalOK, PlacesOK, ClosingOK, Buffered, Ended
  <2> QED BY <1>1, <2>1, <2>2, CollectorKept
<1> QED BY <1>4, <1>5, <1>6, <1>7, <1>8, <1>9, <1>10, <1>11, <1>12 DEF Next

\* Initially nothing was logged.
LEMMA InitInv == Init => IndInv
<1> SUFFICES ASSUME Init PROVE IndInv
  OBVIOUS
<1> USE LogAssumption
<1>1. <<>> \in Seq(Entries) /\ Len(<<>>) = 0
  BY EmptySeq
<1>2. LogTypeOK
  <2>1. length \in 0..MaxEntries /\ buf \in Seq(Entries)
    BY <1>1 DEF Init
  <2> QED BY <2>1 DEF Init, LogTypeOK
<1>3. WorkersOK
  BY DEF Init, WorkersOK, WorkerOK
<1>4. BackendInv
  BY <1>1, ToSetEmpty DEF Init, BackendInv, SignalOK, PlacesOK, ClosingOK, Buffered, Ended
<1>5. Observed \in Nat
  BY DEF Init, Observed
<1> QED BY <1>2, <1>3, <1>4, <1>5, FreshCollector, TypeSplit DEF Init, IndInv

\* So the invariant holds in every reachable state.
LEMMA IndInvHolds == Spec => []IndInv
BY InitInv, NextInv, PTL DEF Spec

-----------------------------------------------------------------------------

\* Whatever order entries are logged in and whenever the cleanup runs, TopHosts
\* and TopBlocked count exactly the entries whose requests began within the window.
THEOREM HitsAreExact == Spec => [](TypeOK /\ HitsExact)
<1>1. IndInv => HitsExact
  BY DEF IndInv, TypeOK, CollectorTypeOK, CollectorInv, HitsOK, HitsExact, Counted
<1>2. IndInv => TypeOK
  BY DEF IndInv
<1> QED BY IndInvHolds, <1>1, <1>2, PTL

\* However late entries come and however often slots are used again, Traffic's buckets
\* are in strictly increasing time, and none counts an entry twice or one of another time.
THEOREM TrafficInOrder == Spec => []TrafficChronological
<1>1. ASSUME IndInv PROVE TrafficChronological
  <2> DEFINE Used == {j \in 1..maxBuckets : Slot(j).time > 0}
  <2>1. DOMAIN Traffic = Used /\ \A i \in Used : Traffic[i] = Slot(i)
    BY DEF Traffic
  <2>2. ASSUME NEW i \in Used
        PROVE  /\ \A j \in Used : i < j => Slot(i).time < Slot(j).time
               /\ Slot(i).reqs <= Cardinality({e \in seen : e.ts = Slot(i).time})
    BY <1>1 DEF IndInv, CollectorInv, RingOK
  <2> HIDE DEF Used
  <2> QED BY <2>1, <2>2 DEF TrafficChronological
<1> QED BY IndInvHolds, <1>1, PTL

\* A reader that leaves while Observe runs never has its channel closed under a
\* send (Unsubscribe takes it out of the map under the lock first).
THEOREM NeverSendsOnClosed == Spec => []NoSendOnClosed
<1>1. IndInv => NoSendOnClosed
  BY DEF IndInv, TypeOK, CollectorTypeOK, CollectorInv, ReadersOK, NoSendOnClosed
<1> QED BY IndInvHolds, <1>1, PTL

\* Because the logger's mutex covers the observers, every reader gets entries in
\* the order of the log and none twice, however many it misses.
THEOREM StreamsInOrder == Spec => []StreamInOrder
<1>1. ASSUME IndInv PROVE StreamInOrder
  <2> SUFFICES ASSUME NEW s \in Subscribers, NEW i \in 1..Len(stream[s])
               PROVE  stream[s][i] > (IF i = 1 THEN last[s] ELSE stream[s][i - 1])
    BY DEF StreamInOrder
  <2>1. StreamOK(s) /\ stream[s] \in Seq(Nat) /\ Len(stream[s]) \in Nat
    BY <1>1, LenProperties DEF IndInv, CollectorInv, StreamsOK, TypeOK, CollectorTypeOK
  <2>2. CASE i = 1
    BY <2>1, <2>2 DEF StreamOK
  <2>3. CASE i # 1
    <3>1. i - 1 \in 1..Len(stream[s]) /\ i - 1 < i
      BY <2>1, <2>3
    <3>2. stream[s][i - 1] < stream[s][i]
      BY <2>1, <3>1 DEF StreamOK
    <3>3. stream[s][i] \in Nat /\ stream[s][i - 1] \in Nat
      BY <2>1, <3>1, ElementOfSeq
    <3> QED BY <2>3, <3>2, <3>3
  <2> QED BY <2>2, <2>3
<1> QED BY IndInvHolds, <1>1, PTL

\* A buffer that fills while the goroutine posts always finds it signalled when
\* it is back at its select.
THEOREM SignalsNotMissed == Spec => []NoMissedSignal
<1>1. IndInv => NoMissedSignal
  BY DEF IndInv, BackendInv, SignalOK, NoMissedSignal
<1> QED BY IndInvHolds, <1>1, PTL

\* Once the goroutine has returned, nothing logged before Close is unposted.
THEOREM CloseAlwaysFlushes == Spec => []CloseFlushes
<1>1. IndInv => CloseFlushes
  BY DEF IndInv, BackendInv, PlacesOK, ClosingOK, Ended, CloseFlushes
<1> QED BY IndInvHolds, <1>1, PTL

-----------------------------------------------------------------------------
(* The backend implements LossyQueue.                                      *)

\* The refinement mapping's parts: what is lost, and when the receiver is down.
Gone == dead \/ rpc = "done"
Lost == failed \cup (IF dead \/ rpc = "done" THEN batch \cup ToSet(buf) ELSE {})
Down == dead \/ rpc \in {"report", "done"}

\* A step that changes none of them is a stutter of the queue.
LEMMA QueueStutters ==
    ASSUME UNCHANGED <<length, posted>>, Lost' = Lost, Down' = Down
    PROVE  UNCHANGED Queue!vars
BY DEF Queue!vars, Lost, Down

\* The receiver ends, with the entries S it has not dealt with.
LEMMA QueueGoesDown ==
    ASSUME NEW S, S \subseteq Queue!OnTheWay, UNCHANGED <<length, posted>>,
           Lost' = Lost \cup S, Down', 1..length \subseteq Entries
    PROVE  Queue!Next
<1>1. (dead \/ rpc \in {"report", "done"})' = TRUE
  BY DEF Down
<1>2. Queue!GoDown(S)
  BY <1>1 DEF Queue!GoDown, Lost
<1>3. CASE S = {}
  BY <1>2, <1>3 DEF Queue!Next
<1>4. CASE S # {}
  <2>1. PICK x : x \in S
    BY <1>4
  <2>2. x \in Entries
    BY <2>1 DEF Queue!OnTheWay
  <2>3. Queue!Settle(x)
    BY <1>2, <2>1 DEF Queue!Settle
  <2> QED BY <2>2, <2>3 DEF Queue!Next
<1> QED BY <1>3, <1>4

\* Every step of the program is a step of the queue or none.
LEMMA QueueStep == IndInv /\ [Next]_vars => [Queue!Next]_(Queue!vars)
<1>idle. UNCHANGED vars => UNCHANGED Queue!vars
  <2> SUFFICES ASSUME UNCHANGED vars PROVE UNCHANGED Queue!vars
    OBVIOUS
  <2>1. UNCHANGED <<length, posted>> /\ Lost' = Lost /\ Down' = Down
    BY DEF vars, logVars, backendVars, Lost, Down
  <2> QED BY <2>1, QueueStutters
<1>live. SUFFICES ASSUME IndInv, Next, ~dead PROVE Queue!Next \/ UNCHANGED Queue!vars
  BY <1>idle DEF Next
<1> USE LogAssumption
<1>w. Queue!OnTheWay = 1..length \ (posted \cup Lost)
  BY DEF Queue!OnTheWay, Lost
<1>len. length \in Nat /\ 1..length \subseteq Entries
  BY <1>live DEF IndInv, TypeOK, Entries
<1>p. /\ Buffered \subseteq 1..length /\ batch \subseteq 1..length
      /\ Buffered \cap (posted \cup failed) = {} /\ batch \cap (posted \cup failed) = {}
      /\ rpc = "post" <=> batch # {}
  BY <1>live DEF IndInv, BackendInv, PlacesOK, Ended
<1>1. ASSUME NEW w \in Workers, Log(w) PROVE Queue!Next
  <2>0. PICK x : x = length + 1
    OBVIOUS
  <2>1. /\ length < MaxEntries /\ length' = x /\ buf' = Append(buf, x)
        /\ UNCHANGED <<rpc, batch, dead, posted, failed>>
    BY <1>1, <2>0 DEF Log, Extend, backendVars
  <2>2. x \in Entries /\ x \notin 1..length /\ 1..length' = 1..length \cup {x}
    BY <1>len, <2>0, <2>1 DEF Entries
  <2>3. ToSet(buf') = ToSet(buf) \cup {x}
    BY <1>live, <2>1, <2>2, ToSetAppend DEF IndInv, TypeOK
  <2>4. (dead \/ rpc \in {"report", "done"})' = (dead \/ rpc \in {"report", "done"})
    BY <2>1
  <2>5. CASE Gone
    <3>1. Queue!Refuse(x)
      BY <2>1, <2>2, <2>3, <2>4, <2>5 DEF Queue!Refuse, Gone
    <3> QED BY <2>2, <3>1 DEF Queue!Next
  <2>6. CASE ~Gone
    <3>1. Queue!Accept(x)
      BY <2>1, <2>2, <2>4, <2>6 DEF Queue!Accept, Gone
    <3> QED BY <2>2, <3>1 DEF Queue!Next
  <2> QED BY <2>5, <2>6
<1>2. CASE RunTick \/ RunSignal \/ RunStop
  <2>1. rpc = "select" /\ rpc' \in {"select", "post", "return"} /\ UNCHANGED <<length, posted, failed, dead>>
    BY <1>2 DEF RunTick, RunSignal, RunStop, StartFlush
  <2>2. Lost' = Lost /\ Down' = Down
    BY <1>live, <2>1 DEF Lost, Down
  <2> QED BY <2>1, <2>2, QueueStutters
<1>3. CASE Post
  <2>1. /\ rpc = "post" /\ UNCHANGED <<length, buf, dead>>
        /\ \/ posted' = posted \cup batch /\ rpc' \in {"select", "return"} /\ UNCHANGED failed
           \/ failed' = failed \cup batch /\ rpc' = "report" /\ UNCHANGED posted
    BY <1>3 DEF Post, AfterFlush
  <2>2. batch # {} /\ batch \subseteq Queue!OnTheWay /\ Lost = failed /\ Lost' = failed'
    BY <1>live, <1>w, <1>p, <2>1 DEF Lost
  <2>3. CASE posted' = posted \cup batch /\ rpc' \in {"select", "return"} /\ UNCHANGED failed
    <3>1. (dead \/ rpc \in {"report", "done"})' = (dead \/ rpc \in {"report", "done"})
      BY <1>live, <2>1, <2>3
    <3>2. Queue!Deliver(batch)
      BY <2>1, <2>2, <2>3, <3>1 DEF Queue!Deliver, Lost
    <3>3. PICK x : x \in batch
      BY <2>2
    <3>4. x \in Entries
      BY <1>len, <1>p, <3>3
    <3>5. Queue!Settle(x)
      BY <2>2, <3>2, <3>3 DEF Queue!Settle
    <3> QED BY <3>4, <3>5 DEF Queue!Next
  <2>4. CASE failed' = failed \cup batch /\ rpc' = "report" /\ UNCHANGED posted
    <3>1. PICK S : S = batch
      OBVIOUS
    <3>2. S \subseteq Queue!OnTheWay /\ Lost' = Lost \cup S /\ Down'
      BY <2>2, <2>4, <3>1 DEF Down
    <3> QED BY <1>len, <2>1, <2>4, <3>2, QueueGoesDown
  <2> QED BY <2>1, <2>3, <2>4
<1>4. CASE Report
  <2>1. rpc = "report" /\ rpc' \in {"select", "return"} /\ UNCHANGED <<length, buf, batch, posted, failed, dead>>
    BY <1>4 DEF Report, AfterFlush
  <2>2. Lost' = Lost
    BY <1>live, <2>1 DEF Lost
  <2>3. (dead \/ rpc \in {"report", "done"}) /\ (dead \/ rpc \in {"report", "done"})' = FALSE
    BY <1>live, <2>1
  <2>4. Queue!Recover
    BY <2>1, <2>2, <2>3 DEF Queue!Recover, Lost
  <2> QED BY <2>4 DEF Queue!Next
<1>5. CASE RunReturns \/ (Exit /\ rpc # "done")
  <2>1. /\ rpc # "done" /\ (dead' \/ rpc' = "done")
        /\ UNCHANGED <<length, buf, batch, posted, failed>>
    BY <1>5 DEF RunReturns, Exit
  <2>2. PICK S : S = batch \cup ToSet(buf)
    OBVIOUS
  <2>3. S \subseteq Queue!OnTheWay /\ Lost' = Lost \cup S /\ Down'
    BY <1>live, <1>w, <1>p, <2>1, <2>2 DEF Lost, Down, Buffered
  <2> QED BY <1>len, <2>1, <2>3, QueueGoesDown
<1>6. CASE Exit /\ rpc = "done"
  <2>1. dead' /\ UNCHANGED <<length, rpc, buf, batch, posted, failed>>
    BY <1>6 DEF Exit
  <2>2. Lost' = Lost /\ Down' = Down
    BY <1>6, <2>1 DEF Lost, Down
  <2> QED BY <2>1, <2>2, QueueStutters
<1>7. ASSUME UNCHANGED <<length, rpc, buf, batch, posted, failed, dead>> PROVE UNCHANGED Queue!vars
  <2>1. Lost' = Lost /\ Down' = Down
    BY <1>7 DEF Lost, Down
  <2> QED BY <1>7, <2>1, QueueStutters
<1>8. ASSUME NEW w \in Workers, NEW kind \in Kinds[w], Begin(w, kind) PROVE UNCHANGED Queue!vars
  BY <1>7, <1>8 DEF Begin, backendVars
<1>9. ASSUME NEW w \in Workers, Signal(w) \/ Return(w) PROVE UNCHANGED Queue!vars
  BY <1>7, <1>9 DEF Signal, Return, backendVars
<1>10. CASE CollectorNext /\ UNCHANGED logVars
  BY <1>7, <1>10 DEF logVars, backendVars
<1>11. CASE CloseBegins \/ CloseReturns
  BY <1>7, <1>11 DEF CloseBegins, CloseReturns, backendVars
<1> QED BY <1>live, <1>1, <1>2, <1>3, <1>4, <1>5, <1>6, <1>8, <1>9, <1>10, <1>11 DEF Next, Run

\* The backend keeps what LossyQueue says of what it may do: an entry is posted
\* at most once, and given up only with a failed post or with the receiver.
THEOREM BackendIsLossyQueue == Spec => Queue!Safety
<1>1. Init => Queue!Init
  <2> SUFFICES ASSUME Init PROVE Queue!Init
    OBVIOUS
  <2>1. 1..length = {}
    BY DEF Init
  <2>2. (dead \/ rpc \in {"report", "done"}) = FALSE
    BY DEF Init
  <2> QED BY <2>1, <2>2 DEF Init, Queue!Init
<1> QED BY <1>1, IndInvHolds, QueueStep, PTL DEF Spec, Queue!Safety
=============================================================================
