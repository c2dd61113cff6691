----------------------------- MODULE TunnelProofs -----------------------------
(* For any connections, servers, chunks and capacity of the traffic        *)
(* channel: connections to one server share its resolver, the verdict on a *)
(* lookup follows from what its queries found, the entry that closes a     *)
(* connection is complete, and the traffic counter is a LossyQueue.        *)
EXTENDS Tunnel, SequenceTheorems, FiniteSetTheorems, TLAPS

\* What a connection that asks a resolver knows of the cache.
ResolverOK(c) ==
    LET r == resolver[c] IN
    /\ phase[c] \in {"create", "query"} => r # None
    /\ phase[c] = "create" => r.server \in Servers
    /\ r # None /\ r.server = Default => r.made = Default
    /\ r # None /\ r.server \in Servers /\ r.made # None => cache[r.server] = r.made

\* Replies are held only during a lookup over HTTPS, at most one per query.
RepliesOK(c) ==
    /\ replies[c] # <<>> => phase[c] = "query" /\ resolver[c].server \in DoH
    /\ \A i, j \in 1..Len(replies[c]) :
          i # j => replies[c][i].query # replies[c][j].query

\* The lookups' part of the inductive invariant.
LookupInv == LookupTypeOK /\ \A c \in Conns : ResolverOK(c) /\ RepliesOK(c)

\* Copying happens only while the connection is open, and a flusher outlives it.
StreamOK(s) ==
    /\ copy[s] \notin {"idle", "done"} => phase[s[1]] = "open" /\ s \in StreamsOf(s[1])
    /\ flusher[s] # "off" => phase[s[1]] \in {"open", "closed"}

\* A logged connection is closed.
EntryOK(c) == entry[c] # None => phase[c] = "closed" /\ entry[c] = Total(c)

\* The tunnels' part.
TunnelInv ==
    /\ \A s \in Streams : StreamOK(s)
    /\ \A c \in Dialling : EntryOK(c)

\* The chunks written so far, those that are settled, and those in a writer.
Accepted == {x \in Chunks : x[2] <= written[x[1]]}

Settled == counted \cup dropped

InWriter(s) == pending[s] \cup held[s]

\* A chunk is in one place at a time: in its own writer, before or in a flush,
WriterOK(s) ==
    /\ InWriter(s) \subseteq Accepted \ Settled
    /\ \A x \in InWriter(s) : x[1] = s
    /\ pending[s] \cap held[s] = {}
    /\ held[s] # {} <=> flusher[s] \in {"send", "last"}

\* or in one delta of the channel,
DeltaOK(i) ==
    /\ ch[i] # {} /\ ch[i] \subseteq Accepted \ Settled
    /\ \A s \in Streams : ch[i] \cap InWriter(s) = {}
    /\ \A j \in 1..Len(ch) : j # i => ch[i] \cap ch[j] = {}

\* or counted, or dropped.
SettledOK == Settled \subseteq Accepted /\ counted \cap dropped = {}

\* The traffic counter's part.
CounterInv ==
    /\ \A s \in Streams : WriterOK(s)
    /\ \A i \in 1..Len(ch) : DeltaOK(i)
    /\ SettledOK
    /\ IsFiniteSet(Accepted)

\* The inductive invariant.
IndInv == TypeOK /\ LookupInv /\ TunnelInv /\ CounterInv

-----------------------------------------------------------------------------
(* Looking names up.                                                       *)

\* A reply names its query and carries a list of addresses.
LEMMA ReplyShape ==
    \A r \in Replies : r.query \in Queries /\ r.addrs \in Seq({"real", "sink", "unspec"})
<1> SUFFICES ASSUME NEW q \in Queries, NEW r \in Results(q)
             PROVE  r.query = q /\ r.addrs \in Seq({"real", "sink", "unspec"})
  BY DEF Replies
<1> DEFINE K == {"real", "sink", "unspec"}
<1>1. ASSUME NEW a \in SeqOf(Kinds(q), 1)
      PROVE  a \in Seq(K)
  <2>1. PICK m \in 0..1 : a \in [1..m -> Kinds(q)]
    BY <1>1 DEF SeqOf
  <2>2. a \in [1..m -> K]
    BY <2>1 DEF Kinds
  <2>3. m \in Nat
    OBVIOUS
  <2> QED BY <2>2, <2>3
<1>2. <<>> \in Seq(K)
  BY EmptySeq
<1>3. CASE r \in [query : {q}, err : {FALSE}, addrs : SeqOf(Kinds(q), 1)]
  BY <1>3, <1>1
<1>4. CASE r \in [query : {q}, err : {TRUE}, addrs : {<<>>}]
  BY <1>4, <1>2
<1> QED BY <1>3, <1>4 DEF Results

\* No lookup can hold more replies than there are queries.
LEMMA TwoReplies ==
    ASSUME LookupInv, NEW c \in Conns, NEW r \in Replies,
           \A i \in 1..Len(replies[c]) : replies[c][i].query # r.query
    PROVE  Len(replies[c]) < 2
<1>1. replies[c] \in Seq(Replies) /\ Len(replies[c]) \in Nat
  BY LenProperties DEF Resolvers, LookupInv, LookupTypeOK
<1>2. SUFFICES ASSUME Len(replies[c]) >= 2 PROVE FALSE
  BY <1>1
<1>3. 1 \in 1..Len(replies[c]) /\ 2 \in 1..Len(replies[c])
  BY <1>1, <1>2
<1>4. replies[c][1] \in Replies /\ replies[c][2] \in Replies
  BY <1>1, <1>3, ElementOfSeq
<1>5. replies[c][1].query # replies[c][2].query
  BY <1>3 DEF LookupInv, RepliesOK
<1> QED BY <1>3, <1>4, <1>5, ReplyShape DEF Queries

\* Initially nobody has looked anything up.
LEMMA LookupInitInv == LookupInit => LookupInv
<1> SUFFICES ASSUME LookupInit PROVE LookupInv
  OBVIOUS
<1>1. <<>> \in Seq(Replies) /\ Len(<<>>) = 0
  BY EmptySeq
<1>2. LookupTypeOK
  BY <1>1 DEF LookupInit, LookupTypeOK, Phases
<1>3. ASSUME NEW c \in Conns PROVE ResolverOK(c) /\ RepliesOK(c)
  BY <1>1 DEF LookupInit, ResolverOK, RepliesOK
<1> QED BY <1>2, <1>3 DEF LookupInv

\* A connection that leaves its lookup.
LEMMA LeaveInv ==
    ASSUME LookupInv, NEW c \in Conns, UNCHANGED <<dns, cache>>,
           NEW p \in {"unresolved", "dns-block", "dial"}, Leave(c, p)
    PROVE  LookupInv'
<1>1. <<>> \in Seq(Replies) /\ Len(<<>>) = 0
  BY EmptySeq
<1>2. LookupTypeOK'
  BY <1>1 DEF Resolvers, LookupInv, LookupTypeOK, Leave, Phases
<1>3. ASSUME NEW d \in Conns PROVE ResolverOK(d)'
  BY DEF LookupInv, LookupTypeOK, ResolverOK, Leave
<1>4. ASSUME NEW d \in Conns PROVE RepliesOK(d)'
  BY <1>1 DEF LookupInv, LookupTypeOK, RepliesOK, Leave
<1> QED BY <1>2, <1>3, <1>4 DEF LookupInv

\* A verdict is one of three.
LEMMA VerdictTyped == \A a : Verdict(a) \in {"unresolved", "dns-block", "dial"}
BY DEF Verdict

\* Every step of a lookup keeps the invariant.
LEMMA LookupNextInv == LookupInv /\ LookupNext => LookupInv'
<1> SUFFICES ASSUME LookupInv, LookupNext PROVE LookupInv'
  OBVIOUS
<1> USE LookupAssumption
<1>1. ASSUME NEW u \in Users, NEW server \in Settings, UpdateDNS(u, server)
      PROVE  LookupInv'
  <2>1. LookupTypeOK'
    BY <1>1 DEF Resolvers, LookupInv, LookupTypeOK, UpdateDNS
  <2>2. ASSUME NEW d \in Conns PROVE (ResolverOK(d) /\ RepliesOK(d))'
    BY <1>1 DEF LookupInv, ResolverOK, RepliesOK, UpdateDNS
  <2> QED BY <2>1, <2>2 DEF LookupInv
<1>2. ASSUME NEW c \in Conns, ctxWithUserDNS(c)
      PROVE  LookupInv'
  <2> DEFINE server == dns[Owner[c]]
             r == IF server = None THEN [server |-> Default, made |-> Default]
                                   ELSE [server |-> server, made |-> cache[server]]
             p == IF server # None /\ cache[server] = None THEN "create" ELSE "query"
  <2>1. server \in Servers \cup {None} /\ (server # None => cache[server] \in Conns \cup {None})
    BY DEF LookupInv, LookupTypeOK
  <2>2. /\ resolver' = [resolver EXCEPT ![c] = r] /\ phase' = [phase EXCEPT ![c] = p]
        /\ UNCHANGED <<dns, cache, replies>> /\ phase[c] = "start"
    BY <1>2 DEF ctxWithUserDNS
  <2>3. /\ r \in Resolvers /\ r # None /\ p \in {"create", "query"}
        /\ p = "create" => r.server \in Servers
        /\ r.server = Default => r.made = Default
        /\ r.server \in Servers /\ r.made # None => cache[r.server] = r.made
    BY <2>1 DEF Resolvers
  <2> HIDE DEF r, p
  <2>4. LookupTypeOK'
    BY <2>2, <2>3 DEF LookupInv, LookupTypeOK, Phases
  <2>5. ASSUME NEW d \in Conns PROVE ResolverOK(d)'
    BY <2>2, <2>3 DEF LookupInv, LookupTypeOK, ResolverOK
  <2>6. ASSUME NEW d \in Conns PROVE RepliesOK(d)'
    BY <2>2 DEF LookupInv, LookupTypeOK, RepliesOK
  <2> QED BY <2>4, <2>5, <2>6 DEF LookupInv
<1>3. ASSUME NEW c \in Conns, GetOrCreate(c)
      PROVE  LookupInv'
  <2>1. resolver[c] # None /\ resolver[c].server \in Servers /\ phase[c] = "create"
    BY <1>3 DEF LookupInv, ResolverOK, GetOrCreate
  <2> DEFINE server == resolver[c].server
             made == IF cache[server] = None THEN c ELSE cache[server]
  <2>2. made \in Conns /\ made # None
    BY <2>1 DEF Resolvers, LookupInv, LookupTypeOK
  <2>3. resolver[c] \in Resolvers
    BY <2>1 DEF Resolvers, LookupInv, LookupTypeOK
  <2>4. resolver' = [resolver EXCEPT ![c].made = made] /\ cache' = [cache EXCEPT ![server] = made]
        /\ phase' = [phase EXCEPT ![c] = "query"] /\ UNCHANGED <<dns, replies>>
    BY <1>3 DEF GetOrCreate
  <2>5. resolver'[c].server = server /\ resolver'[c].made = made
        /\ resolver'[c] \in Resolvers
        /\ \A d \in Conns : d # c => resolver'[d] = resolver[d]
    BY <2>2, <2>3, <2>4 DEF Resolvers, LookupInv, LookupTypeOK
  <2> HIDE DEF made
  <2>6. LookupTypeOK'
    <3>1. resolver' \in [Conns -> Resolvers \cup {None}]
      BY <2>4, <2>5 DEF Resolvers, LookupInv, LookupTypeOK
    <3> QED BY <2>1, <2>2, <2>4, <3>1 DEF Resolvers, LookupInv, LookupTypeOK, Phases
  <2>7. ASSUME NEW d \in Conns PROVE ResolverOK(d)'
    <3>1. /\ cache'[server] = made
          /\ \A t \in Servers : t # server => cache'[t] = cache[t]
          /\ cache[server] # None => made = cache[server]
      BY <2>1, <2>4 DEF Resolvers, LookupInv, LookupTypeOK, made
    <3>2. resolver'[c] # None
      BY <2>5, <2>3, <2>1, <2>4, <1>3 DEF Resolvers, LookupInv, LookupTypeOK
    <3>3. CASE d = c
      BY <2>1, <2>4, <2>5, <3>1, <3>2, <3>3 DEF Resolvers, LookupInv, LookupTypeOK, ResolverOK
    <3>4. CASE d # c
      BY <2>1, <2>4, <2>5, <3>1, <3>4 DEF Resolvers, LookupInv, LookupTypeOK, ResolverOK
    <3> QED BY <3>3, <3>4
  <2>8. ASSUME NEW d \in Conns PROVE RepliesOK(d)'
    BY <2>1, <2>4, <2>5 DEF Resolvers, LookupInv, LookupTypeOK, RepliesOK
  <2> QED BY <2>6, <2>7, <2>8 DEF LookupInv
<1>4. ASSUME NEW c \in Conns, NEW r \in Replies, query(c, r)
      PROVE  LookupInv'
  <2>1. replies[c] \in Seq(Replies) /\ Len(replies[c]) \in Nat /\ Len(replies[c]) < 2
    BY <1>4, TwoReplies, LenProperties DEF Resolvers, LookupInv, LookupTypeOK, query
  <2> DEFINE new == Append(replies[c], r)
  <2>2. /\ new \in Seq(Replies) /\ Len(new) = Len(replies[c]) + 1
        /\ \A i \in 1..Len(replies[c]) : new[i] = replies[c][i]
        /\ new[Len(replies[c]) + 1] = r
    BY <2>1, AppendProperties
  <2>3. replies' = [replies EXCEPT ![c] = new] /\ UNCHANGED <<dns, cache, phase, resolver>>
    BY <1>4 DEF query
  <2> HIDE DEF new
  <2>4. LookupTypeOK'
    BY <2>1, <2>2, <2>3 DEF Resolvers, LookupInv, LookupTypeOK
  <2>5. ASSUME NEW d \in Conns PROVE ResolverOK(d)'
    BY <2>3 DEF LookupInv, ResolverOK
  <2>6. ASSUME NEW d \in Conns PROVE RepliesOK(d)'
    <3>1. CASE d = c
      <4>1. replies'[c] = new
        BY <2>3 DEF Resolvers, LookupInv, LookupTypeOK
      <4>2. \A i, j \in 1..Len(new) : i # j => new[i].query # new[j].query
        BY <1>4, <2>1, <2>2 DEF LookupInv, RepliesOK, query
      <4> QED BY <1>4, <2>3, <3>1, <4>1, <4>2 DEF RepliesOK, query
    <3>2. CASE d # c
      BY <2>3, <3>2 DEF Resolvers, LookupInv, LookupTypeOK, RepliesOK
    <3> QED BY <3>1, <3>2
  <2> QED BY <2>4, <2>5, <2>6 DEF LookupInv
<1>5. ASSUME NEW c \in Conns, lookupIPAddr(c)
      PROVE  LookupInv'
  BY <1>5, LeaveInv, VerdictTyped DEF lookupIPAddr
<1>6. ASSUME NEW c \in Conns, NEW addrs, StdLookup(c, addrs)
      PROVE  LookupInv'
  BY <1>6, LeaveInv, VerdictTyped DEF StdLookup
<1>7. ASSUME NEW c \in Conns, DialWithoutLookup(c)
      PROVE  LookupInv'
  BY <1>7, LeaveInv DEF DialWithoutLookup
<1> QED BY <1>1, <1>2, <1>3, <1>4, <1>5, <1>6, <1>7 DEF LookupNext, Lookup

\* A lookup neither opens nor closes a connection.
LEMMA LookupPhases ==
    ASSUME LookupInv, LookupNext
    PROVE  \A c \in Conns : phase[c] \in {"open", "closed"} \/ phase'[c] \in {"open", "closed"}
                            => phase'[c] = phase[c]
<1> USE VerdictTyped DEF LookupInv, LookupTypeOK
<1>1. ASSUME NEW u \in Users, NEW server \in Settings, UpdateDNS(u, server)
      PROVE  UNCHANGED phase
  BY <1>1 DEF UpdateDNS
<1>2. ASSUME NEW d \in Conns, ctxWithUserDNS(d) \/ GetOrCreate(d)
      PROVE  \E p \in {"create", "query"} :
                phase[d] \in {"start", "create"} /\ phase' = [phase EXCEPT ![d] = p]
  BY <1>2 DEF ctxWithUserDNS, GetOrCreate
<1>3. ASSUME NEW d \in Conns, NEW reply \in Replies, query(d, reply)
      PROVE  UNCHANGED phase
  BY <1>3 DEF query
<1>4. ASSUME NEW d \in Conns, NEW addrs,
             lookupIPAddr(d) \/ StdLookup(d, addrs) \/ DialWithoutLookup(d)
      PROVE  \E p \in {"unresolved", "dns-block", "dial"} :
                phase[d] = "query" /\ phase' = [phase EXCEPT ![d] = p]
  BY <1>4 DEF lookupIPAddr, StdLookup, DialWithoutLookup, Leave
<1> QED BY <1>1, <1>2, <1>3, <1>4 DEF LookupNext, Lookup

-----------------------------------------------------------------------------
(* Copying and closing.                                                    *)

\* Streams and chunks, taken apart.
LEMMA StreamShape ==
    /\ \A s \in Streams : s = <<s[1], s[2]>> /\ s[1] \in Dialling /\ s[1] \in Conns /\ Sends[s] \in Nat
    /\ \A c \in Dialling : <<c, "down">> \in Streams /\ <<c, "up">> \in Streams
BY TunnelAssumption DEF Streams, Dialling

\* The same for chunks.
LEMMA ChunkShape ==
    /\ \A x \in Chunks : x[1] \in Streams /\ x[2] \in 1..Sends[x[1]] /\ x = <<x[1], x[2]>>
    /\ \A s \in Streams : \A i \in 1..Sends[s] : <<s, i>> \in Chunks
BY DEF Chunks

\* Every step keeps the types.
LEMMA TypeStep == IndInv /\ LookupInv' /\ [Next]_vars => TypeOK'
<1> SUFFICES ASSUME IndInv, LookupInv', [Next]_vars PROVE TypeOK'
  OBVIOUS
<1> USE StreamShape DEF IndInv, TypeOK, tunnelVars, counterVars
<1>0. LookupTypeOK'
  BY DEF LookupInv
<1>1. CASE UNCHANGED <<tunnelVars, counterVars>>
  BY <1>0, <1>1
<1>2. ASSUME NEW c \in Dialling, Open(c) PROVE TypeOK'
  BY <1>0, <1>2 DEF Open
<1>3. ASSUME NEW c \in Dialling, Finish(c) PROVE TypeOK'
  <2>1. Total(c) \in Nat
    BY DEF Total
  <2> QED BY <1>0, <1>3, <2>1 DEF Finish, Forget
<1>4. ASSUME NEW s \in Streams, PeerEnds(s) \/ PeerBreaks(s) PROVE TypeOK'
  BY <1>0, <1>4 DEF PeerEnds, PeerBreaks, StreamsOf
<1>5. ASSUME NEW s \in Streams, Write(s) PROVE TypeOK'
  <2>0. written[s] + 1 \in 1..Sends[s]
    BY <1>5 DEF Write
  <2>1. <<s, written[s] + 1>> \in Chunks
    BY <2>0, ChunkShape
  <2>2. written' \in [Streams -> Nat] /\ \A t \in Streams : written'[t] <= Sends[t]
    BY <1>5 DEF Write
  <2>3. pending' \in [Streams -> SUBSET Chunks]
    BY <1>5, <2>1 DEF Write
  <2> QED BY <1>0, <1>5, <2>2, <2>3 DEF Write
<1>6. ASSUME NEW s \in Streams, Relay(s) PROVE TypeOK'
  BY <1>0, <1>6 DEF Relay, CopyEnds, CloseCounter, halfCloseWrite
<1>7. ASSUME NEW s \in Streams, FlushTick(s) \/ FlushLast(s) PROVE TypeOK'
  BY <1>0, <1>7 DEF FlushTick, FlushLast, Swap
<1>8. ASSUME NEW s \in Streams, FlushSend(s) PROVE TypeOK'
  <2> DEFINE new == Append(ch, held[s])
  <2>0. new \in Seq(SUBSET Chunks) /\ Len(new) = Len(ch) + 1 /\ Len(ch) \in Nat
    BY AppendProperties, LenProperties
  <2>1. ch' \in Seq(SUBSET Chunks) /\ Len(ch') <= liveChanSize
    <3>1. Len(ch) < liveChanSize => Len(new) <= liveChanSize
      BY <2>0, TunnelAssumption
    <3>2. (ch' = new /\ Len(ch) < liveChanSize) \/ ch' = ch
      BY <1>8 DEF FlushSend
    <3> HIDE DEF new
    <3> QED BY <2>0, <3>1, <3>2
  <2>2. dropped' \subseteq Chunks
    BY <1>8 DEF FlushSend
  <2> QED BY <1>0, <1>8, <2>1, <2>2 DEF FlushSend
<1>9. CASE DrainReceive
  <2>1. ch' \in Seq(SUBSET Chunks) /\ Len(ch') <= liveChanSize /\ counted' \subseteq Chunks
    BY <1>9, HeadTailProperties, TunnelAssumption DEF DrainReceive
  <2> QED BY <1>0, <1>9, <2>1 DEF DrainReceive
<1>10. CASE DrainStop \/ Stop
  BY <1>0, <1>10 DEF DrainStop, Stop
<1>11. ASSUME NEW c \in Dialling, DialFails(c) PROVE TypeOK'
  BY <1>1, <1>11 DEF DialFails
<1>12. CASE UNCHANGED vars
  BY <1>1, <1>12 DEF vars
<1> QED BY <1>1, <1>2, <1>3, <1>4, <1>5, <1>6, <1>7, <1>8, <1>9, <1>10, <1>11, <1>12 DEF Next, Flush

\* What opens or closes a connection leaves its lookup as it is.
LEMMA LookupStep == IndInv /\ [Next]_vars => LookupInv'
<1> SUFFICES ASSUME IndInv, [Next]_vars PROVE LookupInv'
  OBVIOUS
<1>1. CASE LookupNext
  BY <1>1, LookupNextInv DEF IndInv
<1>2. CASE UNCHANGED lookupVars
  BY <1>2 DEF IndInv, LookupInv, LookupTypeOK, ResolverOK, RepliesOK, lookupVars
<1>3. ASSUME NEW c \in Dialling, DialFails(c) \/ Open(c) \/ Finish(c) PROVE LookupInv'
  <2>1. /\ phase[c] \in {"dial", "open"} /\ UNCHANGED <<dns, cache, resolver, replies>>
        /\ \E p \in {"open", "closed"} : phase' = [phase EXCEPT ![c] = p]
    BY <1>3 DEF DialFails, Open, Finish
  <2>2. LookupTypeOK'
    BY <2>1 DEF IndInv, LookupInv, LookupTypeOK, Phases
  <2>3. ASSUME NEW d \in Conns PROVE ResolverOK(d)'
    BY <2>1 DEF IndInv, LookupInv, LookupTypeOK, ResolverOK
  <2>4. ASSUME NEW d \in Conns PROVE RepliesOK(d)'
    BY <2>1 DEF IndInv, LookupInv, LookupTypeOK, RepliesOK
  <2> QED BY <2>2, <2>3, <2>4 DEF LookupInv
<1>4. ASSUME NEW s \in Streams, PeerEnds(s) \/ PeerBreaks(s) \/ Write(s) \/ Relay(s) \/ Flush(s)
      PROVE  UNCHANGED lookupVars
  BY <1>4 DEF PeerEnds, PeerBreaks, Write, Relay, CopyEnds, CloseCounter, halfCloseWrite, Flush,
     FlushTick, FlushLast, FlushSend
<1>5. CASE DrainReceive \/ DrainStop \/ Stop
  BY <1>2, <1>5 DEF DrainReceive, DrainStop, Stop
<1>6. CASE UNCHANGED vars
  BY <1>2, <1>6 DEF vars
<1> QED BY <1>1, <1>2, <1>3, <1>4, <1>5, <1>6 DEF Next

\* The copying goroutines are done when the handler logs and closes.
LEMMA TunnelStep == IndInv /\ [Next]_vars => TunnelInv'
<1> SUFFICES ASSUME IndInv, [Next]_vars PROVE TunnelInv'
  OBVIOUS
<1> USE StreamShape DEF IndInv, TypeOK, TunnelInv, StreamOK, EntryOK, StreamsOf, Total
<1>1. CASE LookupNext /\ UNCHANGED <<tunnelVars, counterVars>>
  BY <1>1, LookupPhases DEF tunnelVars, counterVars, Dialling
<1>2. ASSUME NEW c \in Dialling, DialFails(c) PROVE TunnelInv'
  BY <1>2 DEF DialFails, tunnelVars, counterVars, LookupTypeOK
<1>3. ASSUME NEW c \in Dialling, Open(c) PROVE TunnelInv'
  BY <1>3 DEF Open, LookupTypeOK
<1>4. ASSUME NEW c \in Dialling, Finish(c) PROVE TunnelInv'
  <2>1. c \in Conns
    BY DEF Dialling
  <2>2. ASSUME NEW s \in Streams PROVE StreamOK(s)'
    BY <1>4, <2>1 DEF Finish, counterVars, LookupTypeOK
  <2>3. ASSUME NEW d \in Dialling PROVE EntryOK(d)'
    BY <1>4, <2>1 DEF Finish, LookupTypeOK, Dialling
  <2> QED BY <2>2, <2>3
<1>5. ASSUME NEW s \in Streams, PeerEnds(s) \/ PeerBreaks(s) PROVE TunnelInv'
  BY <1>5 DEF PeerEnds, PeerBreaks, lookupVars, counterVars
<1>6. ASSUME NEW s \in Streams, Write(s) PROVE TunnelInv'
  <2>1. ASSUME NEW t \in Streams PROVE StreamOK(t)'
    BY <1>6 DEF Write, lookupVars
  <2>2. ASSUME NEW d \in Dialling PROVE EntryOK(d)'
    <3>1. phase[s[1]] = "open" /\ UNCHANGED <<phase, entry>>
      BY <1>6 DEF Write, lookupVars
    <3>2. CASE d = s[1]
      BY <3>1, <3>2
    <3>3. CASE d # s[1]
      <4>1. <<d, "down">> # s /\ <<d, "up">> # s
        BY <3>3
      <4>2. written'[<<d, "down">>] = written[<<d, "down">>] /\ written'[<<d, "up">>] = written[<<d, "up">>]
        BY <1>6, <4>1 DEF Write
      <4> QED BY <3>1, <4>2
    <3> QED BY <3>2, <3>3
  <2> QED BY <2>1, <2>2
<1>7. ASSUME NEW s \in Streams, Relay(s) PROVE TunnelInv'
  BY <1>7 DEF Relay, CopyEnds, CloseCounter, halfCloseWrite, lookupVars, counterVars
<1>8. ASSUME NEW s \in Streams, Flush(s) PROVE TunnelInv'
  BY <1>8 DEF Flush, FlushTick, FlushLast, FlushSend, Swap, lookupVars, tunnelVars
<1>9. CASE DrainReceive \/ DrainStop \/ Stop
  BY <1>9 DEF DrainReceive, DrainStop, Stop, lookupVars, tunnelVars
<1>10. CASE UNCHANGED vars
  BY <1>10 DEF vars, lookupVars, tunnelVars, counterVars
<1> QED BY <1>1, <1>2, <1>3, <1>4, <1>5, <1>6, <1>7, <1>8, <1>9, <1>10 DEF Next

-----------------------------------------------------------------------------
(* The traffic counter.                                                    *)

\* Writing accepts exactly one new chunk.
LEMMA WriteAccepts ==
    ASSUME TypeOK, NEW s \in Streams, Write(s)
    PROVE  LET x == <<s, written[s] + 1>> IN
           x \in Chunks /\ x \notin Accepted /\ Accepted' = Accepted \cup {x}
<1> DEFINE n == written[s] + 1
           x == <<s, n>>
<1>1. written[s] \in Nat /\ n \in 1..Sends[s] /\ \A t \in Streams : written[t] \in Nat
  BY StreamShape DEF TypeOK, Write
<1>2. x \in Chunks
  BY <1>1, ChunkShape
<1>3. written'[s] = n /\ \A t \in Streams : t # s => written'[t] = written[t]
  BY DEF TypeOK, Write
<1>4. x \notin Accepted
  BY <1>1 DEF Accepted
<1>5. ASSUME NEW y \in Chunks PROVE y[2] <= written'[y[1]] <=> y[2] <= written[y[1]] \/ y = x
  <2>1. y[1] \in Streams /\ y[2] \in Nat /\ y = <<y[1], y[2]>>
    BY ChunkShape, StreamShape
  <2>2. CASE y[1] = s
    BY <1>1, <1>3, <2>1, <2>2
  <2>3. CASE y[1] # s
    BY <1>3, <2>1, <2>3
  <2> QED BY <2>2, <2>3
<1>6. Accepted' = Accepted \cup {x}
  BY <1>2, <1>5 DEF Accepted, Chunks
<1> QED BY <1>2, <1>4, <1>6

\* Every chunk stays in exactly one place.
LEMMA CounterStep == IndInv /\ [Next]_vars => CounterInv'
<1> SUFFICES ASSUME IndInv, [Next]_vars PROVE CounterInv'
  OBVIOUS
<1> USE DEF IndInv
<1>len. Len(ch) \in Nat
  BY LenProperties DEF TypeOK
<1>1. CASE UNCHANGED <<written, pending, held, flusher, ch, dropped, counted>>
  <2>1. Accepted' = Accepted /\ Settled' = Settled /\ \A s \in Streams : InWriter(s)' = InWriter(s)
    BY <1>1 DEF Accepted, Settled, InWriter, Chunks
  <2> QED BY <1>1, <2>1 DEF CounterInv, WriterOK, DeltaOK, SettledOK
<1>2. ASSUME NEW c \in Dialling, Open(c) PROVE CounterInv'
  <2>1. Accepted' = Accepted /\ Settled' = Settled /\ \A s \in Streams : InWriter(s)' = InWriter(s)
    BY <1>2 DEF Open, Accepted, Settled, InWriter, Chunks
  <2>2. ASSUME NEW s \in Streams PROVE WriterOK(s)'
    <3>1. s \in StreamsOf(c) => flusher[s] = "off" /\ flusher'[s] = "wait"
      BY <1>2 DEF Open, TunnelInv, StreamOK, StreamsOf
    <3>2. s \notin StreamsOf(c) => flusher'[s] = flusher[s]
      BY <1>2 DEF Open
    <3> QED BY <1>2, <2>1, <3>1, <3>2 DEF Open, CounterInv, WriterOK
  <2> QED BY <1>2, <2>1, <2>2 DEF Open, CounterInv, DeltaOK, SettledOK
<1>3. ASSUME NEW s \in Streams, Write(s) PROVE CounterInv'
  <2> DEFINE x == <<s, written[s] + 1>>
  <2>1. x[1] = s /\ x \notin Accepted /\ Accepted' = Accepted \cup {x}
    BY <1>3, WriteAccepts
  <2>2. /\ Settled' = Settled /\ InWriter(s)' = InWriter(s) \cup {x}
        /\ \A t \in Streams : t # s => InWriter(t)' = InWriter(t)
        /\ pending'[s] = pending[s] \cup {x} /\ \A t \in Streams : t # s => pending'[t] = pending[t]
        /\ UNCHANGED <<held, flusher, ch, counted, dropped>>
    BY <1>3 DEF Write, Settled, InWriter, TypeOK
  <2> HIDE DEF x
  <2>3. ASSUME NEW t \in Streams PROVE WriterOK(t)'
    <3>1. WriterOK(t) /\ x \notin Settled /\ x \notin InWriter(s)
      BY <2>1 DEF CounterInv, WriterOK, SettledOK
    <3>2. CASE t = s
      BY <2>1, <2>2, <3>1, <3>2 DEF WriterOK, InWriter
    <3>3. CASE t # s
      BY <2>1, <2>2, <3>1, <3>3 DEF WriterOK, InWriter
    <3> QED BY <3>2, <3>3
  <2>4. ASSUME NEW i \in 1..Len(ch) PROVE DeltaOK(i)'
    <3>1. DeltaOK(i) /\ x \notin ch[i]
      BY <2>1 DEF CounterInv, DeltaOK
    <3>2. ASSUME NEW t \in Streams PROVE ch[i] \cap InWriter(t)' = {}
      BY <2>2, <3>1 DEF DeltaOK
    <3> QED BY <2>1, <2>2, <3>1, <3>2 DEF DeltaOK
  <2>5. SettledOK' /\ IsFiniteSet(Accepted')
    BY <2>1, <2>2, FS_AddElement DEF CounterInv, SettledOK
  <2> QED BY <2>2, <2>3, <2>4, <2>5 DEF CounterInv
<1>4. ASSUME NEW s \in Streams, FlushTick(s) \/ FlushLast(s) PROVE CounterInv'
  <2>1. held[s] = {}
    BY <1>4 DEF FlushTick, FlushLast, CounterInv, WriterOK
  <2>2. /\ UNCHANGED <<written, ch, dropped, counted>>
        /\ held'[s] = pending[s] /\ pending'[s] = {}
        /\ flusher'[s] \in {"send", "last"} <=> pending[s] # {}
        /\ \A t \in Streams : t # s => held'[t] = held[t] /\ pending'[t] = pending[t]
                                       /\ flusher'[t] = flusher[t]
    BY <1>4 DEF FlushTick, FlushLast, Swap, TypeOK, tunnelVars
  <2>3. Accepted' = Accepted /\ Settled' = Settled /\ \A t \in Streams : InWriter(t)' = InWriter(t)
    BY <2>1, <2>2 DEF Accepted, Settled, InWriter, Chunks
  <2>4. ASSUME NEW t \in Streams PROVE WriterOK(t)'
    BY <2>1, <2>2, <2>3 DEF CounterInv, WriterOK
  <2> QED BY <2>2, <2>3, <2>4 DEF CounterInv, DeltaOK, SettledOK
<1>5. ASSUME NEW s \in Streams, FlushSend(s) PROVE CounterInv'
  <2>1. /\ UNCHANGED <<written, pending, counted>> /\ held'[s] = {}
        /\ flusher'[s] \in {"wait", "ended"}
        /\ \A t \in Streams : t # s => held'[t] = held[t] /\ flusher'[t] = flusher[t]
    BY <1>5 DEF FlushSend, TypeOK, tunnelVars
  <2>2. held[s] # {} /\ held[s] \subseteq Accepted \ Settled /\ WriterOK(s)
    BY <1>5 DEF FlushSend, CounterInv, WriterOK, InWriter
  <2>3. Accepted' = Accepted /\ InWriter(s)' = pending[s]
        /\ \A t \in Streams : InWriter(t)' \subseteq InWriter(t) /\ (t # s => InWriter(t)' = InWriter(t))
    BY <2>1 DEF Accepted, InWriter, Chunks
  <2>4. \A t \in Streams : InWriter(t)' \cap held[s] = {}
    <3>1. InWriter(s)' \cap held[s] = {}
      BY <2>2, <2>3 DEF WriterOK
    <3>2. ASSUME NEW t \in Streams, t # s PROVE InWriter(t) \cap held[s] = {}
      BY <2>2, <3>2 DEF CounterInv, WriterOK, InWriter
    <3> QED BY <2>3, <3>1, <3>2
  <2>5. \A i \in 1..Len(ch) : ch[i] \cap held[s] = {}
    BY DEF CounterInv, DeltaOK, InWriter
  <2>6. CASE Len(ch) < liveChanSize
    <3>1. ch' = Append(ch, held[s]) /\ Settled' = Settled /\ UNCHANGED dropped
      BY <1>5, <2>6 DEF FlushSend, Settled
    <3>2. /\ Len(ch') = Len(ch) + 1 /\ ch'[Len(ch) + 1] = held[s]
          /\ \A i \in 1..Len(ch) : ch'[i] = ch[i]
      BY <3>1, AppendProperties DEF TypeOK
    <3>3. ASSUME NEW t \in Streams PROVE WriterOK(t)'
      BY <2>1, <2>3, <3>1 DEF CounterInv, WriterOK
    <3>4. ASSUME NEW i \in 1..Len(ch') PROVE DeltaOK(i)'
      <4>1. CASE i = Len(ch) + 1
        <5>1. \A j \in 1..Len(ch') : j # i => j \in 1..Len(ch)
          BY <1>len, <3>2, <4>1
        <5> QED BY <2>2, <2>3, <2>4, <2>5, <3>1, <3>2, <4>1, <5>1 DEF DeltaOK
      <4>2. CASE i \in 1..Len(ch)
        <5>1. DeltaOK(i) /\ ch'[i] = ch[i]
          BY <3>2, <4>2 DEF CounterInv
        <5>2. ASSUME NEW j \in 1..Len(ch'), j # i PROVE ch'[i] \cap ch'[j] = {}
          BY <1>len, <2>5, <3>2, <4>2, <5>1, <5>2 DEF DeltaOK
        <5>3. ASSUME NEW t \in Streams PROVE ch[i] \cap InWriter(t)' = {}
          BY <2>3, <5>1 DEF DeltaOK
        <5> QED BY <2>3, <3>1, <5>1, <5>2, <5>3 DEF DeltaOK
      <4> QED BY <1>len, <3>2, <4>1, <4>2
    <3> QED BY <2>1, <2>3, <3>1, <3>3, <3>4 DEF CounterInv, SettledOK
  <2>7. CASE ~(Len(ch) < liveChanSize)
    <3>1. ch' = ch /\ dropped' = dropped \cup held[s] /\ Settled' = Settled \cup held[s]
      BY <1>5, <2>1, <2>7 DEF FlushSend, Settled
    <3>2. ASSUME NEW t \in Streams PROVE WriterOK(t)'
      BY <2>1, <2>3, <2>4, <3>1 DEF CounterInv, WriterOK
    <3>3. ASSUME NEW i \in 1..Len(ch) PROVE DeltaOK(i)'
      <4>1. DeltaOK(i)
        BY DEF CounterInv
      <4>2. ASSUME NEW t \in Streams PROVE ch[i] \cap InWriter(t)' = {}
        BY <2>3, <4>1 DEF DeltaOK
      <4> QED BY <2>3, <2>5, <3>1, <4>1, <4>2 DEF DeltaOK
    <3>4. SettledOK'
      BY <2>1, <2>2, <2>3, <3>1 DEF CounterInv, SettledOK, Settled
    <3> QED BY <2>3, <3>1, <3>2, <3>3, <3>4 DEF CounterInv
  <2> QED BY <2>6, <2>7
<1>6. CASE DrainReceive
  <2>1. /\ ch # <<>> /\ ch' = Tail(ch) /\ counted' = counted \cup Head(ch)
        /\ UNCHANGED <<written, pending, held, flusher, dropped>>
    BY <1>6 DEF DrainReceive, tunnelVars
  <2>2. /\ Head(ch) = ch[1] /\ Len(ch) >= 1 /\ Len(ch') = Len(ch) - 1
        /\ \A i \in 1..Len(ch') : ch'[i] = ch[i + 1]
    BY <2>1, HeadTailProperties, EmptySeq DEF TypeOK
  <2>3. Accepted' = Accepted /\ Settled' = Settled \cup ch[1]
        /\ \A t \in Streams : InWriter(t)' = InWriter(t)
    BY <2>1, <2>2 DEF Accepted, Settled, InWriter, Chunks
  <2>4. DeltaOK(1)
    BY <1>len, <2>2 DEF CounterInv
  <2>5. ASSUME NEW t \in Streams PROVE WriterOK(t)'
    BY <2>1, <2>3, <2>4 DEF CounterInv, WriterOK, DeltaOK
  <2>6. ASSUME NEW i \in 1..Len(ch') PROVE DeltaOK(i)'
    <3>1. i + 1 \in 1..Len(ch) /\ ch'[i] = ch[i + 1] /\ DeltaOK(i + 1) /\ i + 1 # 1
      BY <1>len, <2>2 DEF CounterInv
    <3>2. ch[i + 1] \cap ch[1] = {}
      BY <1>len, <2>2, <3>1 DEF DeltaOK
    <3>3. ASSUME NEW j \in 1..Len(ch'), j # i PROVE ch'[i] \cap ch'[j] = {}
      BY <1>len, <2>2, <3>1, <3>3 DEF DeltaOK
    <3> QED BY <2>3, <3>1, <3>2, <3>3 DEF DeltaOK
  <2>7. SettledOK'
    BY <2>1, <2>2, <2>3, <2>4 DEF CounterInv, SettledOK, DeltaOK, Settled
  <2> QED BY <2>3, <2>5, <2>6, <2>7 DEF CounterInv
<1>7. CASE LookupNext /\ UNCHANGED <<tunnelVars, counterVars>>
  BY <1>1, <1>7 DEF tunnelVars, counterVars
<1>8. ASSUME NEW c \in Dialling, DialFails(c) \/ Finish(c) PROVE CounterInv'
  BY <1>1, <1>8 DEF DialFails, Finish, tunnelVars, counterVars
<1>9. ASSUME NEW s \in Streams, PeerEnds(s) \/ PeerBreaks(s) \/ Relay(s) PROVE CounterInv'
  BY <1>1, <1>9 DEF PeerEnds, PeerBreaks, Relay, CopyEnds, CloseCounter, halfCloseWrite, counterVars
<1>10. CASE DrainStop \/ Stop \/ UNCHANGED vars
  BY <1>1, <1>10 DEF DrainStop, Stop, vars, tunnelVars, counterVars
<1> QED BY <1>2, <1>3, <1>4, <1>5, <1>6, <1>7, <1>8, <1>9, <1>10 DEF Next, Flush

\* Initially nothing was written.
LEMMA InitInv == Init => IndInv
<1> SUFFICES ASSUME Init PROVE IndInv
  OBVIOUS
<1>1. LookupInv
  BY LookupInitInv DEF Init
<1>2. <<>> \in Seq(SUBSET Chunks) /\ Len(<<>>) = 0
  BY EmptySeq
<1>3. TypeOK
  <2>1. ch \in Seq(SUBSET Chunks) /\ Len(ch) <= liveChanSize
    BY <1>2, TunnelAssumption DEF Init
  <2>2. written \in [Streams -> Nat] /\ \A s \in Streams : written[s] <= Sends[s]
    BY StreamShape DEF Init
  <2> QED BY <1>1, <2>1, <2>2 DEF Init, TypeOK, LookupInv
<1>4. TunnelInv
  BY DEF Init, TunnelInv, StreamOK, EntryOK
<1>5. Accepted = {}
  BY ChunkShape, StreamShape DEF Init, Accepted
<1>6. CounterInv
  BY <1>2, <1>5, FS_EmptySet DEF Init, CounterInv, WriterOK, InWriter, DeltaOK, SettledOK, Settled
<1> QED BY <1>1, <1>3, <1>4, <1>6 DEF IndInv

\* So the invariant holds in every reachable state.
LEMMA IndInvHolds == Spec => []IndInv
<1>1. IndInv /\ [Next]_vars => IndInv'
  <2>1. IndInv /\ [Next]_vars => LookupInv'
    BY LookupStep
  <2> QED BY <2>1, TypeStep, TunnelStep, CounterStep DEF IndInv
<1> QED BY InitInv, <1>1, PTL DEF Spec

-----------------------------------------------------------------------------

\* Whatever connections miss the cache at once and in whatever order they come
\* back to it, those that ask one server end up with one resolver (GetOrCreate's
\* second look under the write lock).
THEOREM ResolversShared == Spec => [](TypeOK /\ OneResolverPerServer)
<1>1. IndInv => OneResolverPerServer
  <2> SUFFICES ASSUME IndInv, NEW c \in Conns, NEW d \in Conns,
                      resolver[c] # None, resolver[d] # None,
                      resolver[c].server = resolver[d].server,
                      resolver[c].made # None, resolver[d].made # None
               PROVE  resolver[c].made = resolver[d].made
    BY DEF OneResolverPerServer
  <2>1. resolver[c].server \in Servers \cup {Default}
    BY DEF IndInv, LookupInv, LookupTypeOK, Resolvers
  <2> QED BY <2>1 DEF IndInv, LookupInv, ResolverOK
<1>2. IndInv => TypeOK
  BY DEF IndInv
<1> QED BY IndInvHolds, <1>1, <1>2, PTL

\* The entry that closes a connection reports all that was written in both
\* directions (connectTunnel waits for both before it logs).
THEOREM EntriesComplete == Spec => []EntryComplete
<1>1. IndInv => EntryComplete
  BY DEF IndInv, TunnelInv, EntryOK, EntryComplete
<1> QED BY IndInvHolds, <1>1, PTL

\* The addresses of a lookup with two replies.
LEMMA AddressList ==
    ASSUME LookupInv, NEW c \in Conns, Len(replies[c]) = 2
    PROVE  LET as == Addresses(replies[c]) IN
           /\ as = <<>> <=> ToSet(as) = {}
           /\ ToSet(as) = {"sink"} => as # <<>> /\ as[1] = "sink"
<1> DEFINE as == Addresses(replies[c])
           K == {"real", "sink", "unspec"}
<1>1. replies[c] \in Seq(Replies)
  BY DEF LookupInv, LookupTypeOK
<1>2. replies[c][1] \in Replies /\ replies[c][2] \in Replies
  BY <1>1, ElementOfSeq
<1>3. replies[c][1].addrs \in Seq(K) /\ replies[c][2].addrs \in Seq(K)
  BY <1>2, ReplyShape
<1>4. as \in Seq(K)
  BY <1>3, ConcatProperties DEF Addresses
<1>5. ToSet(as) = {as[i] : i \in DOMAIN as} /\ DOMAIN as = 1..Len(as) /\ Len(as) \in Nat
  BY <1>4, LenProperties DEF ToSet
<1>6. as # <<>> => 1 \in DOMAIN as
  BY <1>4, <1>5, EmptySeq
<1>7. DOMAIN <<>> = {}
  OBVIOUS
<1> HIDE DEF as
<1>8. as = <<>> <=> ToSet(as) = {}
  BY <1>5, <1>6, <1>7
<1>9. ToSet(as) = {"sink"} => as # <<>> /\ as[1] = "sink"
  BY <1>5, <1>6, <1>8
<1> QED BY <1>8, <1>9 DEF as

\* Whatever the two queries of a lookup found and in whichever order they came
\* back, the host is called unresolvable exactly if they found nothing, and
\* blocked if they found nothing but recognised sink addresses.
THEOREM VerdictsSound == Spec => VerdictSound
<1> DEFINE Sound(c) ==
        Len(replies[c]) = 2 /\ phase'[c] # phase[c] =>
          LET found == ToSet(Addresses(replies[c])) IN
          /\ phase'[c] = "unresolved" <=> found = {}
          /\ found = {"sink"} => phase'[c] = "dns-block"
<1>1. ASSUME IndInv, [Next]_vars PROVE [\A c \in Conns : Sound(c)]_lookupVars
  <2> SUFFICES ASSUME NEW c \in Conns, Len(replies[c]) = 2, phase'[c] # phase[c]
               PROVE  LET found == ToSet(Addresses(replies[c])) IN
                      /\ phase'[c] = "unresolved" <=> found = {}
                      /\ found = {"sink"} => phase'[c] = "dns-block"
    OBVIOUS
  <2>1. replies[c] # <<>> /\ phase[c] = "query" /\ resolver[c].server \in DoH
    BY <1>1, EmptySeq DEF IndInv, LookupInv, RepliesOK
  <2>2. lookupIPAddr(c)
    <3>1. ASSUME NEW d \in Dialling, DialFails(d) \/ Open(d) \/ Finish(d) PROVE FALSE
      BY <1>1, <2>1, <3>1 DEF DialFails, Open, Finish, IndInv, TypeOK, LookupTypeOK
    <3>2. ASSUME NEW s \in Streams, PeerEnds(s) \/ PeerBreaks(s) \/ Write(s) \/ Relay(s) \/ Flush(s)
          PROVE  FALSE
      BY <3>2 DEF PeerEnds, PeerBreaks, Write, Relay, CopyEnds, CloseCounter, halfCloseWrite, Flush,
         FlushTick, FlushLast, FlushSend, lookupVars
    <3>3. ~(DrainReceive \/ DrainStop \/ Stop \/ UNCHANGED vars)
      BY DEF DrainReceive, DrainStop, Stop, vars, lookupVars
    <3>4. LookupNext
      BY <1>1, <3>1, <3>2, <3>3 DEF Next
    <3>5. ASSUME NEW d \in Conns, d # c PROVE ~(Lookup(d) \/ DialWithoutLookup(d))
      BY <1>1, <3>5 DEF Lookup, ctxWithUserDNS, GetOrCreate, query, lookupIPAddr, StdLookup,
         DialWithoutLookup, Leave, IndInv, TypeOK, LookupTypeOK
    <3>6. ~\E u \in Users, server \in Settings : UpdateDNS(u, server)
      BY DEF UpdateDNS
    <3>7. Lookup(c) \/ DialWithoutLookup(c)
      BY <3>4, <3>5, <3>6 DEF LookupNext
    <3> QED BY <2>1, <3>7 DEF Lookup, ctxWithUserDNS, GetOrCreate, query, StdLookup, DialWithoutLookup
  <2>3. phase'[c] = Verdict(Addresses(replies[c]))
    BY <1>1, <2>2 DEF lookupIPAddr, Leave, LookupFails, Verdict, IndInv, TypeOK, LookupTypeOK
  <2> QED BY <1>1, <2>3, AddressList DEF Verdict, isDNSBlocked, IndInv
<1> QED BY IndInvHolds, <1>1, PTL DEF Spec, VerdictSound

-----------------------------------------------------------------------------
(* The traffic counter implements LossyQueue.                              *)

\* More deltas than the channel holds are more chunks than it holds.
LEMMA FullChannel ==
    ASSUME IndInv, NEW s \in Streams, held[s] # {}, ~(Len(ch) < liveChanSize), drain # "ended"
    PROVE  Cardinality(Queue!OnTheWay) > liveChanSize
<1> DEFINE W == Queue!OnTheWay
           n == Len(ch)
           f == [i \in 1..n + 1 |-> IF i = n + 1 THEN CHOOSE x : x \in held[s]
                                                 ELSE CHOOSE x : x \in ch[i]]
<1>1. n \in Nat /\ n = liveChanSize
  BY LenProperties, TunnelAssumption DEF IndInv, TypeOK
<1>2. W = Accepted \ Settled
  BY DEF Queue!OnTheWay, Stranded, Settled, Accepted
<1>3. IsFiniteSet(W)
  BY <1>2, FS_Subset DEF IndInv, CounterInv
<1>4. f[n + 1] \in held[s] /\ \A i \in 1..n : f[i] \in ch[i]
  BY <1>1 DEF IndInv, CounterInv, DeltaOK
<1> HIDE DEF f
<1>5. \A i \in 1..n : ch[i] \subseteq W /\ ch[i] \cap held[s] = {} /\ \A j \in 1..n : i # j => ch[i] \cap ch[j] = {}
  BY <1>2 DEF IndInv, CounterInv, DeltaOK, InWriter
<1>6. held[s] \subseteq W
  BY <1>2 DEF IndInv, CounterInv, WriterOK, InWriter
<1>7. f \in [1..n + 1 -> W]
  <2>1. ASSUME NEW i \in 1..n + 1 PROVE f[i] \in W
    BY <1>1, <1>4, <1>5, <1>6
  <2> QED BY <2>1 DEF f
<1>8. \A i, j \in 1..n + 1 : f[i] = f[j] => i = j
  BY <1>1, <1>4, <1>5
<1>9. f \in Injection(1..n + 1, W)
  BY <1>7, <1>8 DEF Injection, IsInjective
<1>10. Cardinality(1..n + 1) = n + 1
  BY <1>1, FS_Interval
<1>11. n + 1 <= Cardinality(W) /\ Cardinality(W) \in Nat
  BY <1>3, <1>9, <1>10, FS_Injection, FS_CardinalityType
<1> QED BY <1>1, <1>11

\* What is stranded once drain has ended: the deltas in the channel.
LEMMA StrandedIs ==
    ASSUME IndInv
    PROVE  Stranded = IF drain = "ended" THEN UNION {ch[i] : i \in 1..Len(ch)} ELSE {}
BY LenProperties DEF Stranded, ToSet, IndInv, TypeOK

\* The queue counts as this module does.
LEMMA SameCardinality == \A S : Queue!Cardinality(S) = Cardinality(S)
BY DEF Queue!Cardinality, Cardinality

\* Steps of the program that move no chunk between accepted, counted and given up.
LEMMA QueueStutters ==
    ASSUME IndInv, UNCHANGED <<written, ch, dropped, counted, drain>>
    PROVE  UNCHANGED Queue!vars
BY DEF Queue!vars, Stranded, Chunks

\* Every step of the program is a step of the queue or none.
LEMMA QueueStep == IndInv /\ IndInv' /\ [Next]_vars => [Queue!Next]_(Queue!vars)
<1> SUFFICES ASSUME IndInv, IndInv', [Next]_vars PROVE Queue!Next \/ UNCHANGED Queue!vars
  OBVIOUS
<1> DEFINE lost == dropped \cup Stranded
           W == Accepted \ (counted \cup lost)
<1>w. Queue!OnTheWay = W
  BY DEF Queue!OnTheWay, Accepted
<1>len. Len(ch) \in Nat /\ ch \in Seq(SUBSET Chunks)
  BY LenProperties DEF IndInv, TypeOK
<1>1. ASSUME NEW s \in Streams, Write(s) PROVE Queue!Next
  <2>0. PICK x : x = <<s, written[s] + 1>>
    OBVIOUS
  <2>1. x \in Chunks /\ x \notin Accepted /\ Accepted' = Accepted \cup {x}
    BY <1>1, <2>0, WriteAccepts DEF IndInv
  <2>2. UNCHANGED <<counted, dropped, Stranded, drain>>
    BY <1>1 DEF Write, Stranded
  <2>3. Queue!Accept(x)
    BY <2>1, <2>2 DEF Queue!Accept, Accepted
  <2> QED BY <2>1, <2>3 DEF Queue!Next
<1>2. ASSUME NEW s \in Streams, FlushSend(s) PROVE Queue!Next \/ UNCHANGED Queue!vars
  <2>1. UNCHANGED <<written, counted, drain>> /\ Accepted' = Accepted
    BY <1>2 DEF FlushSend, tunnelVars, Accepted, Chunks
  <2>2. /\ held[s] # {} /\ held[s] \subseteq Accepted \ Settled
        /\ \A i \in 1..Len(ch) : ch[i] \cap held[s] = {}
    BY <1>2 DEF FlushSend, IndInv, CounterInv, WriterOK, DeltaOK, InWriter
  <2>3. held[s] \subseteq W
    BY <2>2, StrandedIs DEF Settled
  <2>4. CASE drain # "ended" /\ Len(ch) < liveChanSize
    <3>1. UNCHANGED <<dropped, Stranded>>
      BY <1>2, <2>1, <2>4 DEF FlushSend, Stranded
    <3> QED BY <2>1, <3>1 DEF Queue!vars, Accepted
  <2>5. CASE drain = "ended" \/ ~(Len(ch) < liveChanSize)
    <3>1. lost' = lost \cup held[s]
      <4>1. CASE Len(ch) < liveChanSize
        <5>1. ch' = Append(ch, held[s]) /\ drain = "ended" /\ UNCHANGED dropped
          BY <1>2, <2>5, <4>1 DEF FlushSend
        <5>2. /\ Len(ch') = Len(ch) + 1 /\ ch'[Len(ch) + 1] = held[s]
              /\ \A i \in 1..Len(ch) : ch'[i] = ch[i]
          BY <1>len, <5>1, AppendProperties DEF IndInv, TypeOK
        <5>3. Stranded' = UNION {ch'[i] : i \in 1..Len(ch')}
          BY <2>1, <5>1, StrandedIs, LenProperties DEF Stranded, ToSet, IndInv, TypeOK
        <5>4. Stranded = UNION {ch[i] : i \in 1..Len(ch)}
          BY <5>1, StrandedIs
        <5>5. 1..Len(ch') = 1..Len(ch) \cup {Len(ch) + 1}
          BY <1>len, <5>2
        <5>6. Stranded' = Stranded \cup held[s]
          BY <5>2, <5>3, <5>4, <5>5
        <5> QED BY <5>1, <5>6
      <4>2. CASE ~(Len(ch) < liveChanSize)
        BY <1>2, <2>1, <4>2 DEF FlushSend, Stranded
      <4> QED BY <4>1, <4>2
    <3>2. drain = "ended" \/ Cardinality(Queue!OnTheWay) > liveChanSize
      BY <2>2, <2>5, FullChannel
    <3>3. Queue!Lose(held[s])
      <4>1. held[s] \subseteq Queue!OnTheWay /\ held[s] # {}
        BY <1>w, <2>2, <2>3
      <4>2. {x \in Chunks : x[2] <= written[x[1]]}' = {x \in Chunks : x[2] <= written[x[1]]}
            /\ counted' = counted /\ (drain = "ended")' = (drain = "ended")
        BY <2>1 DEF Accepted
      <4> QED BY <3>1, <3>2, <4>1, <4>2, SameCardinality DEF Queue!Lose
    <3>4. PICK x : x \in held[s]
      BY <2>2
    <3>5. x \in Chunks
      BY <2>2, <3>4 DEF Accepted
    <3>6. Queue!Settle(x)
      BY <1>w, <2>3, <3>3, <3>4 DEF Queue!Settle
    <3> QED BY <3>5, <3>6 DEF Queue!Next
  <2> QED BY <2>4, <2>5
<1>3. CASE DrainReceive
  <2>1. /\ ch # <<>> /\ ch' = Tail(ch) /\ counted' = counted \cup Head(ch) /\ drain # "ended"
        /\ UNCHANGED <<written, dropped, drain>>
    BY <1>3 DEF DrainReceive, tunnelVars
  <2>2. Accepted' = Accepted /\ Stranded = {} /\ Stranded' = {}
    BY <2>1 DEF Accepted, Chunks, Stranded
  <2>3. Head(ch) = ch[1] /\ 1 \in 1..Len(ch)
    BY <1>len, <2>1, HeadTailProperties, EmptySeq
  <2>4. ch[1] # {} /\ ch[1] \subseteq W
    BY <2>2, <2>3 DEF IndInv, CounterInv, DeltaOK, Settled
  <2>5. Queue!Deliver(ch[1])
    BY <1>w, <2>1, <2>2, <2>3, <2>4 DEF Queue!Deliver, Accepted
  <2>6. PICK x : x \in ch[1]
    BY <2>4
  <2>7. x \in Chunks
    BY <2>4, <2>6 DEF Accepted
  <2>8. Queue!Settle(x)
    BY <1>w, <2>4, <2>5, <2>6 DEF Queue!Settle
  <2> QED BY <2>7, <2>8 DEF Queue!Next
<1>4. CASE DrainStop
  <2>1. UNCHANGED <<written, ch, dropped, counted>> /\ Accepted' = Accepted
    BY <1>4 DEF DrainStop, tunnelVars, Accepted, Chunks
  <2>2. CASE drain = "run" /\ drain' = "sweep"
    <3>1. UNCHANGED <<dropped, Stranded>>
      BY <2>1, <2>2 DEF Stranded
    <3> QED BY <2>1, <2>2, <3>1 DEF Queue!vars, Accepted
  <2>3. CASE drain = "sweep" /\ ch = <<>> /\ drain' = "ended"
    <3>1. Stranded = {} /\ Stranded' = {}
      BY <2>1, <2>3 DEF Stranded, ToSet
    <3>2. Queue!GoDown({})
      BY <2>1, <2>3, <3>1 DEF Queue!GoDown, Accepted
    <3> QED BY <3>2 DEF Queue!Next
  <2> QED BY <1>4, <2>2, <2>3 DEF DrainStop
<1>5. CASE LookupNext /\ UNCHANGED <<tunnelVars, counterVars>>
  BY <1>5, QueueStutters DEF tunnelVars, counterVars
<1>6. ASSUME NEW c \in Dialling, DialFails(c) \/ Open(c) \/ Finish(c) PROVE UNCHANGED Queue!vars
  BY <1>6, QueueStutters DEF DialFails, Open, Finish, tunnelVars, counterVars
<1>7. ASSUME NEW s \in Streams, PeerEnds(s) \/ PeerBreaks(s) \/ Relay(s) \/ FlushTick(s) \/ FlushLast(s)
      PROVE  UNCHANGED Queue!vars
  BY <1>7, QueueStutters DEF PeerEnds, PeerBreaks, Relay, CopyEnds, CloseCounter, halfCloseWrite,
     FlushTick, FlushLast, tunnelVars, counterVars
<1>8. CASE Stop \/ UNCHANGED vars
  BY <1>8, QueueStutters DEF Stop, vars, tunnelVars, counterVars
<1> QED BY <1>1, <1>2, <1>3, <1>4, <1>5, <1>6, <1>7, <1>8 DEF Next, Flush

\* The traffic counter keeps what LossyQueue says of what it may do: a chunk is
\* counted at most once, and given up only while more chunks are on their way
\* than the channel holds, or once drain has ended.
THEOREM CounterIsLossyQueue == Spec => Queue!Safety
<1>1. Init => Queue!Init
  <2> SUFFICES ASSUME Init PROVE Queue!Init
    OBVIOUS
  <2>1. {x \in Chunks : x[2] <= written[x[1]]} = {}
    BY ChunkShape, StreamShape DEF Init
  <2>2. Stranded = {}
    BY DEF Init, Stranded
  <2> QED BY <2>1, <2>2 DEF Init, Queue!Init
<1> QED BY <1>1, IndInvHolds, QueueStep, PTL DEF Spec, Queue!Safety
=============================================================================
