------------------------------ MODULE Collector ------------------------------
(***************************************************************************)
(* The statistics of the admin dashboard (pkg/stats/collector.go): hits of *)
(* the last hour, a ring of traffic buckets, and the log stream's          *)
(* subscribers.  Every operation but the end of Unsubscribe runs under the *)
(* collector's mutex, so each is one action.                               *)
(*                                                                         *)
(* An entry is its number in the log, the time its request began (shared   *)
(* by all entries of a request; the code's "Requests" of a bucket are its  *)
(* entries) and its kind: "ok" for a status below 400, "dns-block", or     *)
(* "other".  A bucket is one tick wide; the time 0 marks one never used.   *)
(***************************************************************************)
EXTENDS Integers, Sequences, FiniteSets, SequencesExt

CONSTANTS
    Subscribers,
    MaxTime,      \* bound on the clock
    window, maxBuckets, subBufSize

ASSUME CollectorAssumption ==
    /\ MaxTime \in Nat \ {0} /\ window \in Nat
    /\ maxBuckets \in Nat \ {0} /\ subBufSize \in Nat \ {0}

VARIABLES
    now,
    hostHits, dnsBlocks,   \* the entries kept
    buckets, bucketIdx,
    logSubs,   \* the subscribers in the map
    spc,       \* per subscriber: "off" without an open channel, "on", or "leaving"
    stream, last, \* per subscriber: its channel; the last entry it was sent
    seen       \* history: every entry observed

collectorVars == <<now, hostHits, dnsBlocks, buckets, bucketIdx, logSubs, spc, stream, last, seen>>

Entry == [id : Nat, ts : 1..MaxTime, kind : {"ok", "dns-block", "other"}]

NewBucket(t, n) == [time |-> t, reqs |-> n]

NoBuckets == [i \in 0..(maxBuckets - 1) |-> NewBucket(0, 0)]

CollectorTypeOK ==
    /\ now \in 1..MaxTime
    /\ seen \subseteq Entry /\ hostHits \subseteq seen /\ dnsBlocks \subseteq seen
    /\ buckets \in [0..(maxBuckets - 1) -> [time : 0..MaxTime, reqs : Nat]]
    /\ bucketIdx \in 0..(maxBuckets - 1)
    /\ logSubs \subseteq Subscribers /\ spc \in [Subscribers -> {"off", "on", "leaving"}]
    /\ stream \in [Subscribers -> Seq(Nat)] /\ last \in [Subscribers -> Nat]

CollectorInit ==
    /\ now = 1
    /\ hostHits = {} /\ dnsBlocks = {}
    /\ buckets = NoBuckets /\ bucketIdx = 0
    /\ logSubs = {}
    /\ spc = [s \in Subscribers |-> "off"]
    /\ stream = [s \in Subscribers |-> <<>>]
    /\ last = [s \in Subscribers |-> 0]
    /\ seen = {}

\* The process ends, and the collector's memory with it.
CollectorGone ==
    /\ hostHits' = {} /\ dnsBlocks' = {} /\ seen' = {}
    /\ buckets' = NoBuckets /\ bucketIdx' = 0
    /\ logSubs' = {} /\ spc' = [s \in Subscribers |-> "off"]
    /\ stream' = [s \in Subscribers |-> <<>>] /\ last' = [s \in Subscribers |-> 0]
    /\ now' = 1

-----------------------------------------------------------------------------
(* Observe, and the traffic counter's AddLiveBytes.                        *)

\* The slot after the current one is given to time t.
Advance(t, n) ==
    /\ bucketIdx' = (bucketIdx + 1) % maxBuckets
    /\ buckets' = [buckets EXCEPT ![bucketIdx'] = NewBucket(t, n)]

Cur == buckets[bucketIdx]

\* Fault: any other time than the current bucket's begins a bucket.
RecordAnyTime(t) ==
    IF Cur.time = t THEN buckets' = [buckets EXCEPT ![bucketIdx].reqs = @ + 1] /\ UNCHANGED bucketIdx
    ELSE Advance(t, 1)

\* An entry older than the current bucket leaves no trace.
recordTraffic(t) ==
    IF Cur.time = t THEN buckets' = [buckets EXCEPT ![bucketIdx].reqs = @ + 1] /\ UNCHANGED bucketIdx
    ELSE IF Cur.time = 0 \/ t > Cur.time THEN Advance(t, 1)
    ELSE UNCHANGED <<buckets, bucketIdx>>

\* The part of Logger.Log that runs in the collector; a full channel is skipped.
Observe(e) ==
    /\ hostHits' = IF e.kind = "ok" THEN hostHits \cup {e} ELSE hostHits
    /\ dnsBlocks' = IF e.kind = "dns-block" THEN dnsBlocks \cup {e} ELSE dnsBlocks
    /\ recordTraffic(e.ts)
    /\ stream' = [s \in Subscribers |->
                    IF s \in logSubs /\ Len(stream[s]) < subBufSize
                    THEN Append(stream[s], e.id) ELSE stream[s]]
    /\ seen' = seen \cup {e}
    /\ UNCHANGED <<now, logSubs, spc, last>>

\* Bytes of the traffic counter are added to the bucket of the present time.
AddLiveBytes ==
    /\ Cur.time = 0 \/ now > Cur.time
    /\ Advance(now, 0)
    /\ UNCHANGED <<now, hostHits, dnsBlocks, logSubs, spc, stream, last, seen>>

-----------------------------------------------------------------------------
(* Readers and the cleanup.                                                *)

\* Fault: everything up to the last expired hit goes, as if hits were in order.
CompactPrefix(hits, cutoff) ==
    LET old == {e \in hits : e.ts <= cutoff} IN {e \in hits : \A o \in old : e.id > o.id}

compactHits(hits, cutoff) == {e \in hits : e.ts > cutoff}

\* The cutoff comes from a clock that was read some time before the lock was taken.
compact ==
    /\ \E t \in 1..now :
         /\ hostHits' = compactHits(hostHits, t - window)
         /\ dnsBlocks' = compactHits(dnsBlocks, t - window)
    /\ UNCHANGED <<now, buckets, bucketIdx, logSubs, spc, stream, last, seen>>

Recent(e) == e.ts > now - window

\* The hits TopHosts and TopBlocked count.
Counted(hits) == {e \in hits : Recent(e)}

\* The ring, from the slot after the current one.
Slot(i) == buckets[(bucketIdx + i) % maxBuckets]

\* The used buckets, at their places in that order.
Traffic == [i \in {j \in 1..maxBuckets : Slot(j).time > 0} |-> Slot(i)]

Tick ==
    /\ now < MaxTime /\ now' = now + 1
    /\ UNCHANGED <<hostHits, dnsBlocks, buckets, bucketIdx, logSubs, spc, stream, last, seen>>

-----------------------------------------------------------------------------
(* The log stream: handleLogs of pkg/admin/api.go.                         *)

Subscribe(s) ==
    /\ spc[s] = "off"
    /\ logSubs' = logSubs \cup {s}
    /\ spc' = [spc EXCEPT ![s] = "on"]
    /\ UNCHANGED <<now, hostHits, dnsBlocks, buckets, bucketIdx, stream, last, seen>>

Receive(s) ==
    /\ spc[s] = "on" /\ stream[s] # <<>>
    /\ last' = [last EXCEPT ![s] = Head(stream[s])]
    /\ stream' = [stream EXCEPT ![s] = Tail(@)]
    /\ UNCHANGED <<now, hostHits, dnsBlocks, buckets, bucketIdx, logSubs, spc, seen>>

\* The handler's loop is over and nobody reads the channel any more.
Drop(s) == stream' = [stream EXCEPT ![s] = <<>>] /\ last' = [last EXCEPT ![s] = 0]

\* Fault: the channel is closed before it is taken out of the map.
CloseFirst(s) ==
    /\ \/ spc[s] = "on" /\ spc' = [spc EXCEPT ![s] = "off"] /\ Drop(s) /\ UNCHANGED logSubs
       \/ spc[s] = "off" /\ s \in logSubs /\ logSubs' = logSubs \ {s} /\ UNCHANGED <<spc, stream, last>>
    /\ UNCHANGED <<now, hostHits, dnsBlocks, buckets, bucketIdx, seen>>

\* The client is gone: out of the map under the lock, then closed without it.
Unsubscribe(s) ==
    /\ \/ spc[s] = "on" /\ spc' = [spc EXCEPT ![s] = "leaving"] /\ logSubs' = logSubs \ {s} /\ Drop(s)
       \/ spc[s] = "leaving" /\ spc' = [spc EXCEPT ![s] = "off"] /\ UNCHANGED <<logSubs, stream, last>>
    /\ UNCHANGED <<now, hostHits, dnsBlocks, buckets, bucketIdx, seen>>

CollectorNext ==
    \/ AddLiveBytes \/ compact \/ Tick
    \/ \E s \in Subscribers : Subscribe(s) \/ Receive(s) \/ Unsubscribe(s)

-----------------------------------------------------------------------------
(* Properties.                                                             *)

\* The dashboard counts exactly the entries whose requests began within the window
\* (a tunnel's are several), whatever order they were logged in and whenever the
\* cleanup ran.
HitsExact ==
    /\ Counted(hostHits) = {e \in seen : e.kind = "ok" /\ Recent(e)}
    /\ Counted(dnsBlocks) = {e \in seen : e.kind = "dns-block" /\ Recent(e)}

\* Traffic returns buckets in strictly increasing time, also once the ring's slots are
\* used again and when entries and live bytes come out of order, and no bucket counts
\* more entries than were logged with its time: a slot is given to a new time with
\* nothing left of the old one, and an entry never counts twice.
TrafficChronological ==
    \A i \in DOMAIN Traffic :
        /\ \A j \in DOMAIN Traffic : i < j => Traffic[i].time < Traffic[j].time
        /\ Traffic[i].reqs <= Cardinality({e \in seen : e.ts = Traffic[i].time})

\* Observe never sends on a closed channel, which would bring the process down.
NoSendOnClosed == \A s \in logSubs : spc[s] # "off"

\* Each reader of the log stream gets entries in the order of the log, without
\* repetition, however many were skipped.
StreamInOrder ==
    \A s \in Subscribers :
        \A i \in 1..Len(stream[s]) :
            stream[s][i] > (IF i = 1 THEN last[s] ELSE stream[s][i - 1])
=============================================================================
