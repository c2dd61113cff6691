-------------------------------- MODULE Tunnel --------------------------------
(***************************************************************************)
(* What happens to an admitted connection: its name is looked up           *)
(* (NameLookup), the target is dialled, the two directions of a CONNECT    *)
(* tunnel, or the response of a plain request, are copied, and every chunk *)
(* written is counted on its way to the statistics (pkg/stats/counter.go). *)
(*                                                                         *)
(* A stream is a connection and a direction, "up" to the target or "down"  *)
(* to the client; a chunk is a stream and a number.                        *)
(***************************************************************************)
EXTENDS NameLookup, FiniteSets

CONSTANTS
    Sends,        \* how many chunks each stream's source sends at most
    liveChanSize

Dialling == Conns \ Failing
Streams == Dialling \X {"up", "down"}

ASSUME TunnelAssumption ==
    /\ Sends \in [Streams -> Nat]
    /\ liveChanSize \in Nat \ {0}

VARIABLES
    plain,     \* connections that are plain requests: only the response is copied
    copy,      \* per stream: the copying goroutine's program counter
    written,   \* per stream: the chunks written to the destination
    fin,       \* open streams whose source has ended or broken
    broken,    \* copied streams whose destination no longer takes data
    told,      \* open streams whose destination has been sent a FIN
    entry,     \* per connection: the total its last log entry reports, or None
    pending, held,  \* per stream: chunks counted and not flushed; being flushed
    flusher, stopping, \* per stream: the flusher's program counter; Close was called
    ch,        \* the traffic channel: sets of chunks
    dropped, counted,  \* chunks given up by flush; handed to the observers
    stopped, drain     \* TrafficCounter.Stop was called; the drain goroutine's state

tunnelVars == <<plain, copy, written, fin, broken, told, entry>>
counterVars == <<pending, held, flusher, stopping, ch, dropped, counted, stopped, drain>>
vars == <<lookupVars, tunnelVars, counterVars>>

StreamsOf(c) == {s \in Streams : s[1] = c /\ (c \in plain => s[2] = "down")}

Chunks == UNION {{<<s, i>> : i \in 1..Sends[s]} : s \in Streams}

TypeOK ==
    /\ LookupTypeOK
    /\ plain \subseteq Dialling
    /\ copy \in [Streams -> {"idle", "copy", "counter", "half", "done"}]
    /\ written \in [Streams -> Nat] /\ \A s \in Streams : written[s] <= Sends[s]
    /\ fin \subseteq Streams /\ broken \subseteq Streams /\ told \subseteq Streams
    /\ entry \in [Dialling -> Nat \cup {None}]
    /\ pending \in [Streams -> SUBSET Chunks] /\ held \in [Streams -> SUBSET Chunks]
    /\ flusher \in [Streams -> {"off", "wait", "send", "last", "ended"}]
    /\ stopping \subseteq Streams
    /\ ch \in Seq(SUBSET Chunks) /\ Len(ch) <= liveChanSize
    /\ dropped \subseteq Chunks /\ counted \subseteq Chunks
    /\ stopped \in BOOLEAN /\ drain \in {"run", "sweep", "ended"}

Init ==
    /\ LookupInit
    /\ plain \in SUBSET Dialling
    /\ copy = [s \in Streams |-> "idle"]
    /\ written = [s \in Streams |-> 0]
    /\ fin = {} /\ broken = {} /\ told = {}
    /\ entry = [c \in Dialling |-> None]
    /\ pending = [s \in Streams |-> {}] /\ held = [s \in Streams |-> {}]
    /\ flusher = [s \in Streams |-> "off"] /\ stopping = {}
    /\ ch = <<>> /\ dropped = {} /\ counted = {}
    /\ stopped = FALSE /\ drain = "run"

-----------------------------------------------------------------------------
(* The tunnel.                                                             *)

\* The dial fails, and the client is answered 502 or 504.
DialFails(c) ==
    /\ phase[c] = "dial"
    /\ phase' = [phase EXCEPT ![c] = "closed"]
    /\ UNCHANGED <<dns, cache, resolver, replies, tunnelVars, counterVars>>

\* connectTunnel's 200, or the header of a plain response; NewWriter starts a
\* flusher for each stream.
Open(c) ==
    /\ phase[c] = "dial"
    /\ phase' = [phase EXCEPT ![c] = "open"]
    /\ copy' = [s \in Streams |-> IF s \in StreamsOf(c) THEN "copy" ELSE copy[s]]
    /\ flusher' = [s \in Streams |-> IF s \in StreamsOf(c) THEN "wait" ELSE flusher[s]]
    /\ UNCHANGED <<dns, cache, resolver, replies, plain, written, fin, broken, told, entry>>
    /\ UNCHANGED <<pending, held, stopping, ch, dropped, counted, stopped, drain>>

\* The source of a stream ends it.
PeerEnds(s) ==
    /\ copy[s] = "copy" /\ s \notin fin
    /\ fin' = fin \cup {s}
    /\ UNCHANGED <<lookupVars, plain, copy, written, broken, told, entry, counterVars>>

\* The destination of a stream is reset, and so ends what it was sending.
PeerBreaks(s) ==
    /\ copy[s] = "copy" /\ s \notin broken
    /\ broken' = broken \cup {s}
    /\ fin' = fin \cup (StreamsOf(s[1]) \ {s})
    /\ UNCHANGED <<lookupVars, plain, copy, written, told, entry, counterVars>>

\* One round of io.Copy through CountingWriter.Write.
Write(s) ==
    /\ copy[s] = "copy" /\ s \notin broken /\ written[s] < Sends[s]
    /\ written' = [written EXCEPT ![s] = @ + 1]
    /\ pending' = [pending EXCEPT ![s] = @ \cup {<<s, written[s] + 1>>}]
    /\ UNCHANGED <<lookupVars, plain, copy, fin, broken, told, entry>>
    /\ UNCHANGED <<held, flusher, stopping, ch, dropped, counted, stopped, drain>>

\* io.Copy returns: at the end of the source, or when a write fails.
CopyEnds(s) ==
    /\ copy[s] = "copy"
    /\ s \in fin \/ (s \in broken /\ written[s] < Sends[s])
    /\ copy' = [copy EXCEPT ![s] = "counter"]
    /\ broken' = broken \ {s}
    /\ UNCHANGED <<lookupVars, plain, written, fin, told, entry, counterVars>>

\* CountingWriter.Close.
CloseCounter(s) ==
    /\ copy[s] = "counter"
    /\ copy' = [copy EXCEPT ![s] = IF s[1] \in plain THEN "done" ELSE "half"]
    /\ stopping' = stopping \cup {s}
    /\ UNCHANGED <<lookupVars, plain, written, fin, broken, told, entry>>
    /\ UNCHANGED <<pending, held, flusher, ch, dropped, counted, stopped, drain>>

\* Fault: the goroutine ends without it.
NoHalfClose(s) ==
    /\ copy[s] = "half"
    /\ copy' = [copy EXCEPT ![s] = "done"]
    /\ UNCHANGED <<lookupVars, plain, written, fin, broken, told, entry, counterVars>>

halfCloseWrite(s) ==
    /\ copy[s] = "half"
    /\ copy' = [copy EXCEPT ![s] = "done"]
    /\ told' = told \cup {s}
    /\ UNCHANGED <<lookupVars, plain, written, fin, broken, entry, counterVars>>

\* What the log entry of a finished connection reports.
Total(c) == written[<<c, "down">>] + written[<<c, "up">>]

\* Both connections are closed.
Forget(c) ==
    /\ fin' = fin \ StreamsOf(c) /\ told' = told \ StreamsOf(c)
    /\ broken' = broken \ StreamsOf(c)

\* Fault: the handler waits for the first direction only.
FinishEarly(c) ==
    /\ phase[c] = "open" /\ \E s \in StreamsOf(c) : copy[s] = "done"
    /\ phase' = [phase EXCEPT ![c] = "closed"]
    /\ entry' = [entry EXCEPT ![c] = Total(c)]
    /\ Forget(c)
    /\ UNCHANGED <<dns, cache, resolver, replies, plain, copy, written, counterVars>>

\* wg.Wait returns; the entry is logged and both connections are closed.
Finish(c) ==
    /\ phase[c] = "open" /\ \A s \in StreamsOf(c) : copy[s] = "done"
    /\ phase' = [phase EXCEPT ![c] = "closed"]
    /\ entry' = [entry EXCEPT ![c] = Total(c)]
    /\ Forget(c)
    /\ UNCHANGED <<dns, cache, resolver, replies, plain, copy, written, counterVars>>

-----------------------------------------------------------------------------
(* The traffic counter.                                                    *)

\* The first half of flush: pending is swapped with nothing.
Swap(s, l) ==
    /\ held' = [held EXCEPT ![s] = pending[s]]
    /\ pending' = [pending EXCEPT ![s] = {}]
    /\ flusher' = [flusher EXCEPT ![s] = l]

FlushTick(s) ==
    /\ flusher[s] = "wait" /\ pending[s] # {}
    /\ Swap(s, "send")
    /\ UNCHANGED <<lookupVars, tunnelVars, stopping, ch, dropped, counted, stopped, drain>>

\* Fault: the flusher just ends.
EndWithoutFlush(s) ==
    /\ flusher[s] = "wait" /\ s \in stopping
    /\ flusher' = [flusher EXCEPT ![s] = "ended"]
    /\ UNCHANGED <<lookupVars, tunnelVars, pending, held, stopping, ch, dropped, counted, stopped, drain>>

\* stopCh is closed: one more flush, then the flusher ends.
FlushLast(s) ==
    /\ flusher[s] = "wait" /\ s \in stopping
    /\ Swap(s, IF pending[s] = {} THEN "ended" ELSE "last")
    /\ UNCHANGED <<lookupVars, tunnelVars, stopping, ch, dropped, counted, stopped, drain>>

\* The second half of flush: the delta is sent if the channel has room.
FlushSend(s) ==
    /\ flusher[s] \in {"send", "last"}
    /\ IF Len(ch) < liveChanSize
         THEN ch' = Append(ch, held[s]) /\ UNCHANGED dropped
         ELSE dropped' = dropped \cup held[s] /\ UNCHANGED ch
    /\ held' = [held EXCEPT ![s] = {}]
    /\ flusher' = [flusher EXCEPT ![s] = IF @ = "send" THEN "wait" ELSE "ended"]
    /\ UNCHANGED <<lookupVars, tunnelVars, pending, stopping, counted, stopped, drain>>

\* drain hands a delta to the collector and the metrics, while running and
\* while sweeping up after Stop.
DrainReceive ==
    /\ drain # "ended" /\ ch # <<>>
    /\ counted' = counted \cup Head(ch)
    /\ ch' = Tail(ch)
    /\ UNCHANGED <<lookupVars, tunnelVars, pending, held, flusher, stopping, dropped, stopped, drain>>

\* drain sees stopCh; its sweep ends when the channel is empty.
DrainStop ==
    /\ \/ stopped /\ drain = "run" /\ drain' = "sweep"
       \/ drain = "sweep" /\ ch = <<>> /\ drain' = "ended"
    /\ UNCHANGED <<lookupVars, tunnelVars, pending, held, flusher, stopping, ch, dropped, counted, stopped>>

\* TrafficCounter.Stop, at shutdown; hijacked tunnels are still running then.
Stop ==
    /\ ~stopped /\ stopped' = TRUE
    /\ UNCHANGED <<lookupVars, tunnelVars, pending, held, flusher, stopping, ch, dropped, counted, drain>>

-----------------------------------------------------------------------------

\* What a stream's copying goroutine and a connection's handler do by themselves.
Relay(s) == CopyEnds(s) \/ CloseCounter(s) \/ halfCloseWrite(s)

Flush(s) == FlushTick(s) \/ FlushLast(s) \/ FlushSend(s)

Next ==
    \/ LookupNext /\ UNCHANGED <<tunnelVars, counterVars>>
    \/ \E c \in Dialling : DialFails(c) \/ Open(c) \/ Finish(c)
    \/ \E s \in Streams : PeerEnds(s) \/ PeerBreaks(s) \/ Write(s) \/ Relay(s) \/ Flush(s)
    \/ DrainReceive \/ DrainStop \/ Stop

Spec ==
    /\ Init /\ [][Next]_vars
    /\ \A s \in Streams : WF_vars(Relay(s)) /\ WF_vars(Flush(s))
    /\ \A c \in Dialling : WF_vars(Finish(c))
    /\ WF_vars(DrainReceive)

-----------------------------------------------------------------------------
(* Properties.                                                             *)

\* When one end has finished sending, or broke, the other end is told so, also
\* while the other direction stays open for ever: the comment in connectTunnel
\* on why each direction half-closes its peer.
FinPropagates == \A s \in Streams : s \in fin ~> s \in told \/ phase[s[1]] = "closed"

\* The entry that closes a connection reports every chunk written, in both
\* directions: nothing is written once it is logged.
EntryComplete == \A c \in Dialling : entry[c] # None => entry[c] = Total(c)

\* Chunks that reached the channel when nobody receives any more.
Stranded == IF drain = "ended" THEN UNION ToSet(ch) ELSE {}

\* Every chunk written is counted at most once, is given up only while the
\* channel is full or after the counter stopped, and does not stay behind in a
\* writer that was closed.
Queue == INSTANCE LossyQueue WITH
    Items <- Chunks,
    Capacity <- liveChanSize,
    accepted <- {x \in Chunks : x[2] <= written[x[1]]},
    delivered <- counted,
    lost <- dropped \cup Stranded,
    down <- (drain = "ended")
ChunksAccountedFor == Queue!Spec
=============================================================================
