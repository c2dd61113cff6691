------------------------------- MODULE MitmCA --------------------------------
(***************************************************************************)
(* pkg/mitm's certificate authority: minting leaves per host, the LRU      *)
(* cache of leaves, and rotation of the CA while handshakes run.           *)
(*                                                                         *)
(* A leaf is the generation that signed it and the ticks until it counts   *)
(* as stale (NotAfter less leafRenewBefore).  Host names are opaque.       *)
(***************************************************************************)
EXTENDS Integers, Sequences, FiniteSets, SequencesExt

CONSTANTS Hosts, Workers,
          NoSNI,        \* noSNIHost
          CacheSize,    \* Options.CacheSize, at least 1 (newCertCache)
          LeafTTL,      \* Options.LeafTTL, in ticks
          MaxRotations, \* bound on rotations
          None

ASSUME CAAssumption ==
    /\ CacheSize \in Nat \ {0} /\ LeafTTL \in Nat \ {0} /\ MaxRotations \in Nat
    /\ NoSNI \notin Hosts /\ None \notin Hosts \cup {NoSNI}

VARIABLES
    gen,       \* CA.gen, and with it cert and key
    rotating,  \* Rotate has swapped and not yet purged
    order,     \* certCache.order, most recently used first
    index,     \* the keys of certCache.index
    wpc, wname, wleaf, \* per handshake: program counter, name, leaf it minted
    served,    \* the leaf each goroutine's last handshake got
    late       \* history: names for which, as Rotate purged, a handshake had a retired
               \* leaf compared and not yet stored

vars == <<gen, rotating, order, index, wpc, wname, wleaf, served, late>>

Names == Hosts \cup {NoSNI}

Leaf == [gen : 0..MaxRotations, left : 0..LeafTTL]

Entry == [key : Names, leaf : Leaf]

TypeOK ==
    /\ gen \in 0..MaxRotations /\ rotating \in BOOLEAN /\ late \subseteq Names
    /\ order \in Seq(Entry) /\ index \subseteq Names
    /\ wpc \in [Workers -> {"idle", "mint", "compare", "put"}]
    /\ wname \in [Workers -> Names \cup {None}]
    /\ wleaf \in [Workers -> Leaf \cup {None}]
    /\ served \in [Workers -> Leaf \cup {None}]

Init ==
    /\ gen = 0 /\ rotating = FALSE /\ late = {}
    /\ order = <<>> /\ index = {}
    /\ wpc = [w \in Workers |-> "idle"]
    /\ wname = [w \in Workers |-> None] /\ wleaf = wname /\ served = wname

-----------------------------------------------------------------------------
(* The LRU cache.                                                          *)

\* The list element the index holds for a key.
At(k) == CHOOSE i \in DOMAIN order : order[i].key = k

EntryOf(k) == order[At(k)]

Without(k) == RemoveAt(order, At(k))

\* MoveToFront on a hit.
get(k) == order' = IF k \in index THEN <<EntryOf(k)>> \o Without(k) ELSE order

\* Fault: put forgets that another handshake may have stored the key.
PutPushes(k, cert) ==
    LET all == <<[key |-> k, leaf |-> cert]>> \o order
        kept == SubSeq(all, 1, IF Len(all) < CacheSize THEN Len(all) ELSE CacheSize)
        gone == SubSeq(all, Len(kept) + 1, Len(all)) IN
    /\ order' = kept
    /\ index' = (index \cup {k}) \ {e.key : e \in ToSet(gone)}

\* A known key gets the new leaf and moves to the front; a new one is pushed
\* and the oldest entries make room.
put(k, cert) ==
    LET all == <<[key |-> k, leaf |-> cert]>> \o (IF k \in index THEN Without(k) ELSE order)
        kept == SubSeq(all, 1, IF Len(all) < CacheSize THEN Len(all) ELSE CacheSize)
        gone == SubSeq(all, Len(kept) + 1, Len(all)) IN
    /\ order' = kept
    /\ index' = (index \cup {k}) \ {e.key : e \in ToSet(gone)}

purge == order' = <<>> /\ index' = {}

-----------------------------------------------------------------------------
(* certFor.                                                                *)

\* The SNI, else the CONNECT target, else a name that fails validation.
leafIdentity(sni, target) ==
    IF sni # None THEN sni ELSE IF target # None THEN target ELSE NoSNI

\* Fault: a cached leaf is served whatever its age.
AlwaysFresh(cert) == cert.left >= 0

leafFresh(cert) == cert.left > 0

Serve(w, cert) ==
    /\ served' = [served EXCEPT ![w] = cert]
    /\ wpc' = [wpc EXCEPT ![w] = "idle"]
    /\ wname' = [wname EXCEPT ![w] = None]
    /\ wleaf' = [wleaf EXCEPT ![w] = None]

certFor(w, sni, target) ==
    LET name == leafIdentity(sni, target)
        hit == name \in index /\ leafFresh(EntryOf(name).leaf) IN
    /\ wpc[w] = "idle"
    /\ get(name)
    /\ IF hit THEN Serve(w, EntryOf(name).leaf)
       ELSE /\ wpc' = [wpc EXCEPT ![w] = "mint"]
            /\ wname' = [wname EXCEPT ![w] = name]
            /\ served' = [served EXCEPT ![w] = None]
            /\ UNCHANGED wleaf
    /\ UNCHANGED <<gen, rotating, index, late>>

\* The CA is read under RLock; drawing a serial or signing may fail, which
\* fails the handshake.
mint(w) ==
    /\ wpc[w] = "mint"
    /\ \/ /\ wleaf' = [wleaf EXCEPT ![w] = [gen |-> gen, left |-> LeafTTL]]
          /\ wpc' = [wpc EXCEPT ![w] = "compare"]
          /\ UNCHANGED <<wname, served>>
       \/ Serve(w, None)
    /\ UNCHANGED <<gen, rotating, order, index, late>>

\* Fault: a leaf is cached whichever CA signed it.
CompareNothing(w) ==
    /\ wpc[w] = "compare"
    /\ wpc' = [wpc EXCEPT ![w] = "put"]
    /\ UNCHANGED <<gen, rotating, order, index, wname, wleaf, served, late>>

\* The generation is read under a second RLock; a leaf of a retired CA is
\* served and not cached.
CompareGen(w) ==
    /\ wpc[w] = "compare"
    /\ IF wleaf[w].gen = gen
         THEN wpc' = [wpc EXCEPT ![w] = "put"] /\ UNCHANGED <<wname, wleaf, served>>
         ELSE Serve(w, wleaf[w])
    /\ UNCHANGED <<gen, rotating, order, index, late>>

CacheLeaf(w) ==
    /\ wpc[w] = "put"
    /\ put(wname[w], wleaf[w])
    /\ Serve(w, wleaf[w])
    /\ UNCHANGED <<gen, rotating, late>>

-----------------------------------------------------------------------------

\* Rotate with good material; with bad material it changes nothing.
Rotate ==
    /\ ~rotating /\ gen < MaxRotations
    /\ gen' = gen + 1 /\ rotating' = TRUE
    /\ UNCHANGED <<order, index, wpc, wname, wleaf, served, late>>

RotatePurge ==
    /\ rotating /\ rotating' = FALSE
    /\ purge
    /\ late' = {wname[w] : w \in {v \in Workers : wpc[v] = "put" /\ wleaf[v].gen # gen}}
    /\ UNCHANGED <<gen, wpc, wname, wleaf, served>>

Aged(cert) == IF cert = None \/ cert.left = 0 THEN cert ELSE [cert EXCEPT !.left = @ - 1]

Tick ==
    /\ order' = [i \in DOMAIN order |-> [order[i] EXCEPT !.leaf = Aged(@)]]
    /\ wleaf' = [w \in Workers |-> Aged(wleaf[w])]
    /\ UNCHANGED <<gen, rotating, index, wpc, wname, served, late>>

Handshake(w) == mint(w) \/ CompareGen(w) \/ CacheLeaf(w)

Next ==
    \/ \E w \in Workers, sni, target \in Hosts \cup {None} : certFor(w, sni, target)
    \/ \E w \in Workers : Handshake(w)
    \/ Rotate \/ RotatePurge \/ Tick

\* Handshakes and rotations under way proceed, and the clock ticks.
Spec ==
    /\ Init /\ [][Next]_vars
    /\ WF_vars(Tick) /\ WF_vars(RotatePurge) /\ \A w \in Workers : WF_vars(Handshake(w))

-----------------------------------------------------------------------------
(* Properties.                                                             *)

\* List and map name the same keys, each once, and no more than fit, although
\* handshakes for one host may mint and store side by side.
OrderMatchesIndex ==
    /\ index = {e.key : e \in ToSet(order)}
    /\ Len(order) = Cardinality(index) /\ Len(order) <= CacheSize

\* After the last rotation, leaves of retired CAs stop being served: one that
\* slipped into the cache behind the purge is not served once it is stale.
RetiredLeafDies ==
    \A g \in 0..MaxRotations :
        <>[](gen = g) =>
            <>[][\A w \in Workers : served'[w] # served[w] =>
                    served'[w] = None \/ served'[w].gen = g]_vars

\* ca.go says of the generation that "a leaf minted against the retired CA cannot land
\* in the cache after the purge".  A rotation that fits between certFor's comparison
\* and its put makes the code break this.
RetiredNeverCached == rotating \/ \A e \in ToSet(order) : e.leaf.gen = gen

\* How much of it the code keeps: the comparison bars every leaf that was still being
\* signed, or not yet compared, as the CA was swapped.  When Rotate returns and ever
\* after, a retired leaf is cached only under a name for which a handshake had
\* compared the generations before the swap and stored its leaf behind the purge.
RotationTakesEffect ==
    rotating \/ \A e \in ToSet(order) : e.leaf.gen = gen \/ e.key \in late

\* No leaf is served from the cache at or past its renewal time, however long
\* ago it was minted ("a hot entry would otherwise be served past its own
\* NotAfter").
CachedServedFresh ==
    [][\A w \in Workers : wpc[w] = "idle" /\ served'[w] \notin {None, served[w]}
          => served'[w].left > 0]_vars
=============================================================================
