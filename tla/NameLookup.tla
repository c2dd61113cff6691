----------------------------- MODULE NameLookup -----------------------------
(***************************************************************************)
(* How a connection finds the address it dials (pkg/dns and                *)
(* dialWithBlockCheck of pkg/proxy/handler.go): the user's DNS setting, the *)
(* process-wide cache of resolvers, the two parallel queries of a          *)
(* DNS-over-HTTPS lookup, and the verdict on what they answer.             *)
(*                                                                         *)
(* A resolver is named by the connection that made it.  Of an address only *)
(* the kind matters: "real"; "sink", an address isDNSBlocked recognises;   *)
(* "unspec", the IPv6 null address, which it does not.                     *)
(***************************************************************************)
EXTENDS Integers, Sequences, SequencesExt

CONSTANTS
    Conns, Users,
    Owner,        \* the user a connection belongs to
    Servers,      \* the cache's keys, "protocol:server"
    DoH,          \* the servers, Default perhaps among them, asked over HTTPS
    Default,      \* the server of the process's configuration
    Settings,     \* what the admin sets a user's server to; None clears it
    Failing,      \* connections whose lookups get nothing but errors
    None

\* A resolver in use: the server it asks, and who made it.
Resolvers == [server : Servers \cup {Default}, made : Conns \cup {Default, None}]

ASSUME LookupAssumption ==
    /\ Owner \in [Conns -> Users] /\ Failing \subseteq Conns
    /\ DoH \subseteq Servers \cup {Default} /\ Settings \subseteq Servers \cup {None}
    /\ None \notin Servers \cup {Default} \cup Conns \cup Resolvers /\ Default \notin Servers \cup Conns

VARIABLES
    dns,       \* dnsCache: each user's server, or None
    cache,     \* the resolver kept for each server, or None
    phase,     \* per connection: where it is
    resolver,  \* per connection: the server and the resolver it asks, or None
    replies    \* per connection: the replies of its queries, as they arrived

lookupVars == <<dns, cache, phase, resolver, replies>>

Phases == {"start", "create", "query", "dial", "open", "unresolved", "dns-block", "closed"}

Queries == {"A", "AAAA"}

\* What a query may come back with; an error covers the client's timeout.
Kinds(q) == {"real", "sink"} \cup (IF q = "AAAA" THEN {"unspec"} ELSE {})
Results(q) == [query : {q}, err : {FALSE}, addrs : SeqOf(Kinds(q), 1)]
              \cup [query : {q}, err : {TRUE}, addrs : {<<>>}]
Replies == UNION {Results(q) : q \in Queries}

LookupTypeOK ==
    /\ dns \in [Users -> Servers \cup {None}]
    /\ cache \in [Servers -> Conns \cup {None}]
    /\ phase \in [Conns -> Phases]
    /\ resolver \in [Conns -> Resolvers \cup {None}]
    /\ replies \in [Conns -> Seq(Replies)] /\ \A c \in Conns : Len(replies[c]) <= 2

LookupInit ==
    /\ dns = [u \in Users |-> None]
    /\ cache = [s \in Servers |-> None]
    /\ phase = [c \in Conns |-> "start"]
    /\ resolver = [c \in Conns |-> None]
    /\ replies = [c \in Conns |-> <<>>]

\* The lookup is over; what it left behind is dropped.
Leave(c, p) ==
    /\ phase' = [phase EXCEPT ![c] = p]
    /\ resolver' = [resolver EXCEPT ![c] = None]
    /\ replies' = [replies EXCEPT ![c] = <<>>]

\* The admin gives a user a server, or takes it away; it matters to connections
\* still to come.
UpdateDNS(u, server) ==
    /\ dns[u] # server /\ \E c \in Conns : Owner[c] = u /\ phase[c] = "start"
    /\ dns' = [dns EXCEPT ![u] = server]
    /\ UNCHANGED <<cache, phase, resolver, replies>>

\* The user's server is read, and the cache under its read lock.
ctxWithUserDNS(c) ==
    LET server == dns[Owner[c]] IN
    /\ phase[c] = "start"
    /\ IF server = None
         THEN /\ resolver' = [resolver EXCEPT ![c] = [server |-> Default, made |-> Default]]
              /\ phase' = [phase EXCEPT ![c] = "query"]
         ELSE /\ resolver' = [resolver EXCEPT ![c] = [server |-> server, made |-> cache[server]]]
              /\ phase' = [phase EXCEPT ![c] = IF cache[server] = None THEN "create" ELSE "query"]
    /\ UNCHANGED <<dns, cache, replies>>

\* Fault: the writer does not look again.
CreateAlways(c) ==
    /\ phase[c] = "create"
    /\ cache' = [cache EXCEPT ![resolver[c].server] = c]
    /\ resolver' = [resolver EXCEPT ![c].made = c]
    /\ phase' = [phase EXCEPT ![c] = "query"]
    /\ UNCHANGED <<dns, replies>>

\* The cache is looked at again under the write lock.
GetOrCreate(c) ==
    LET server == resolver[c].server
        made == IF cache[server] = None THEN c ELSE cache[server] IN
    /\ phase[c] = "create"
    /\ cache' = [cache EXCEPT ![server] = made]
    /\ resolver' = [resolver EXCEPT ![c].made = made]
    /\ phase' = [phase EXCEPT ![c] = "query"]
    /\ UNCHANGED <<dns, replies>>

\* One of the two queries of a DNS-over-HTTPS lookup sends its result.
query(c, reply) ==
    /\ phase[c] = "query" /\ resolver[c].server \in DoH
    /\ c \in Failing => reply.err
    /\ \A i \in 1..Len(replies[c]) : replies[c][i].query # reply.query
    /\ replies' = [replies EXCEPT ![c] = Append(@, reply)]
    /\ UNCHANGED <<dns, cache, phase, resolver>>

\* All addresses, in the order the two replies arrived.
Addresses(rs) == rs[1].addrs \o rs[2].addrs

\* Fault: one failed query fails the lookup.
AnyErrorFails(rs) == \E i \in 1..Len(rs) : rs[i].err

\* firstErr is returned only when there is no address; no address without an
\* error is dialWithBlockCheck's own failure.
LookupFails(rs) == Addresses(rs) = <<>>

isDNSBlocked(addr) == addr = "sink"

\* Where dialWithBlockCheck sends a connection whose lookup gave addrs.
Verdict(addrs) ==
    IF addrs = <<>> THEN "unresolved" ELSE IF isDNSBlocked(addrs[1]) THEN "dns-block" ELSE "dial"

lookupIPAddr(c) ==
    /\ phase[c] = "query" /\ resolver[c].server \in DoH /\ Len(replies[c]) = 2
    /\ Leave(c, IF LookupFails(replies[c]) THEN "unresolved" ELSE Verdict(Addresses(replies[c])))
    /\ UNCHANGED <<dns, cache>>

\* net.Resolver (external): an error, or a list of addresses in its own order.
StdLookup(c, addrs) ==
    /\ phase[c] = "query" /\ resolver[c].server \notin DoH
    /\ c \in Failing => addrs = <<>>
    /\ Leave(c, Verdict(addrs))
    /\ UNCHANGED <<dns, cache>>

\* A host given by its address needs no lookup; nor does a plain request for which
\* http.Transport (external) has an idle connection, whoever had it opened.
DialWithoutLookup(c) ==
    /\ phase[c] = "query" /\ replies[c] = <<>> /\ c \notin Failing
    /\ Leave(c, "dial")
    /\ UNCHANGED <<dns, cache>>

Lookup(c) ==
    \/ ctxWithUserDNS(c) \/ GetOrCreate(c)
    \/ \E reply \in Replies : query(c, reply)
    \/ lookupIPAddr(c) \/ \E addrs \in SeqOf(Kinds("AAAA"), 1) : StdLookup(c, addrs)

LookupNext ==
    \/ \E u \in Users, server \in Settings : UpdateDNS(u, server)
    \/ \E c \in Conns : Lookup(c) \/ DialWithoutLookup(c)

-----------------------------------------------------------------------------
(* Properties.                                                             *)

\* Connections that ask the same server share one resolver, and with it one HTTP
\* client, even when they all missed the cache at once.
OneResolverPerServer ==
    \A c, d \in Conns :
        /\ resolver[c] # None /\ resolver[d] # None
        /\ resolver[c].server = resolver[d].server
        /\ resolver[c].made # None /\ resolver[d].made # None
        => resolver[c].made = resolver[d].made

\* A host is reported unresolvable only if neither query found an address, and a
\* host for which the queries found only recognised sink addresses is reported
\* blocked, whichever query came first and even if the other failed.
VerdictSound ==
    [][\A c \in Conns : Len(replies[c]) = 2 /\ phase'[c] # phase[c] =>
          LET found == ToSet(Addresses(replies[c])) IN
          /\ phase'[c] = "unresolved" <=> found = {}
          /\ found = {"sink"} => phase'[c] = "dns-block"]_lookupVars
=============================================================================
