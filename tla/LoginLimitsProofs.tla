-------------------------- MODULE LoginLimitsProofs --------------------------
(* For any number of addresses, requests and ticks, the limiters count     *)
(* exactly the failures inside their windows, and requests in flight       *)
(* exceed a limit by less than their number.                               *)
EXTENDS LoginLimits, SequenceTheorems, FiniteSetTheorems, TLAPS

\* The operators on slices keep their type.
LEMMA SliceTypes ==
    ASSUME NEW c \in [Ages -> Nat]
    PROVE  /\ Prune(c) \in [Ages -> Nat] /\ AddFailure(c) \in [Ages -> Nat]
           /\ Older(c) \in [Ages -> Nat] /\ Forget(c) \in [Ages -> Nat]
BY LimitsAssumption DEF Ages, Prune, AddFailure, Older, Forget

\* Two slices that agree inside the window still do after a prune of either,
\* after a failure recorded in both, and after a tick.
LEMMA SliceAgree ==
    ASSUME NEW c \in [Ages -> Nat], NEW d \in [Ages -> Nat], InWindow(c) = InWindow(d)
    PROVE  /\ InWindow(Prune(c)) = InWindow(d)
           /\ InWindow(AddFailure(c)) = InWindow(AddFailure(d))
           /\ InWindow(Older(c)) = InWindow(Forget(Older(d)))
<1>1. \A a \in 0..(Window - 1) : c[a] = d[a]
  BY LimitsAssumption DEF InWindow
<1>2. \A a \in 0..(Window - 1) : a \in Ages /\ a < Window
  BY LimitsAssumption DEF Ages
<1>3. InWindow(Prune(c)) = InWindow(d)
  BY <1>1, <1>2 DEF InWindow, Prune
<1>4. InWindow(AddFailure(c)) = InWindow(AddFailure(d))
  BY <1>1, <1>2 DEF InWindow, AddFailure
<1>5. \A a \in 0..(Window - 1) : Older(c)[a] = Forget(Older(d))[a]
  <2> TAKE a \in 0..(Window - 1)
  <2>1. Forget(Older(d))[a] = Older(d)[a]
    BY <1>2, LimitsAssumption DEF Forget, Older, Ages
  <2>2. Older(c)[a] = Older(d)[a]
    BY <1>1, <1>2, LimitsAssumption DEF Older, Ages
  <2> QED BY <2>1, <2>2
<1> QED BY <1>3, <1>4, <1>5 DEF InWindow

\* clientIP finds the client behind any header and any route of trusted proxies.
LEMMA ClientFound ==
    ASSUME NEW client \in IPs, NEW header \in Headers, NEW route \in Routes
    PROVE  LET r == Received(client, header, route) IN clientIP(r.peer, r.xff) = client
<1> USE HeadersAssumption
<1>1. CASE route = <<>>
  BY <1>1 DEF Received, clientIP
<1>2. CASE route # <<>>
  <2> DEFINE Known == IPs \cup Trusted \cup {Junk}
             n == Len(header)
             k == Len(route)
             tail == SubSeq(route, 1, k - 1)
             sent == header \o <<client>>
             xff == sent \o tail
  <2>1. route \in Seq(Trusted) /\ header \in Seq(Known) /\ <<client>> \in Seq(Known)
    OBVIOUS
  <2>2. k \in Nat \ {0} /\ n \in Nat
    BY <1>2, <2>1
  <2>3. tail \in Seq(Trusted) /\ Len(tail) = k - 1
    <3>1. \A i \in 1..(k - 1) : route[i] \in Trusted
      BY <2>1, <2>2
    <3>2. /\ tail \in Seq(Trusted)
          /\ Len(tail) = IF 1 <= k - 1 THEN (k - 1) - 1 + 1 ELSE 0
      BY <2>2, <3>1, SubSeqProperties
    <3> HIDE DEF tail, k
    <3> QED BY <2>2, <3>2
  <2>4. sent \in Seq(Known) /\ Len(sent) = n + 1 /\ sent[n + 1] = client
    BY <2>1, <2>2
  <2>5. tail \in Seq(Known)
    BY <2>3
  <2> HIDE DEF sent, tail, k, n
  <2>6. /\ xff \in Seq(Known) /\ Len(xff) = Len(sent) + Len(tail)
        /\ \A i \in 1..(Len(sent) + Len(tail)) :
             xff[i] = IF i <= Len(sent) THEN sent[i] ELSE tail[i - Len(sent)]
    BY <2>4, <2>5, ConcatProperties
  <2> HIDE DEF xff, Known
  <2>7. DOMAIN xff = 1..(n + k)
    <3>1. DOMAIN xff = 1..Len(xff)
      BY <2>6
    <3> QED BY <3>1, <2>2, <2>3, <2>4, <2>6
  <2>8. xff[n + 1] = client
    BY <2>2, <2>3, <2>4, <2>6
  <2>9. ASSUME NEW i \in (n + 2)..(n + k)
        PROVE  xff[i] \in Trusted
    <3>1. xff[i] = tail[i - (n + 1)]
      BY <2>2, <2>3, <2>4, <2>6
    <3>2. i - (n + 1) \in 1..Len(tail)
      BY <2>2, <2>3
    <3> QED BY <3>1, <3>2, <2>3, ElementOfSeq
  <2>10. route[k] \in Trusted
    BY <2>1, <2>2 DEF k
  <2>11. n + 1 \in Foreign(xff) /\ \A j \in Foreign(xff) : j \in Int /\ j <= n + 1
    BY <2>2, <2>7, <2>8, <2>9 DEF Foreign
  <2>12. (CHOOSE i \in Foreign(xff) : \A j \in Foreign(xff) : j <= i) = n + 1
    BY <2>2, <2>11
  <2>13. clientIP(route[k], xff) = client
    BY <2>8, <2>10, <2>11, <2>12 DEF clientIP
  <2> QED BY <1>2, <2>13 DEF Received, xff, sent, tail, k
<1> QED BY <1>1, <1>2

\* The inductive invariant behind WindowExact and ClientKeyed.
IndInv == TypeOK /\ WindowExact /\ ClientKeyed

\* Initially nothing has failed.
LEMMA LimitsInit == Init => IndInv
<1>1. NoFailures \in [Ages -> Nat]
  BY DEF NoFailures, Ages
<1> QED BY <1>1, LimitsAssumption DEF Init, IndInv, TypeOK, WindowExact, ClientKeyed

\* Limiter and history prune, grow and age together, step by step.
LEMMA LimitsNext == IndInv /\ [Next]_vars => IndInv'
<1> USE LimitsAssumption
<1> SUFFICES ASSUME IndInv, [Next]_vars PROVE IndInv'
  OBVIOUS
<1> USE DEF IndInv
<1>1. ASSUME NEW w \in Workers, NEW ip \in IPs, Allow(w, ip, ip)
      PROVE  IndInv'
  <2>1. TypeOK'
    BY <1>1, SliceTypes DEF Allow, Goto, TypeOK
  <2>2. \A i \in IPs : InWindow(counts'[i]) = InWindow(counts[i])
    BY <1>1, SliceAgree DEF Allow, TypeOK
  <2>3. ClientKeyed'
    BY <1>1 DEF Allow, ClientKeyed
  <2> QED BY <1>1, <2>1, <2>2, <2>3 DEF Allow, WindowExact
<1>2. ASSUME NEW w \in Workers, allow(w)
      PROVE  IndInv'
  <2>1. TypeOK'
    BY <1>2, SliceTypes DEF allow, Goto, TypeOK
  <2>2. InWindow(times') = InWindow(times)
    BY <1>2, SliceAgree DEF allow, TypeOK
  <2> QED BY <1>2, <2>1, <2>2 DEF allow, WindowExact, ClientKeyed
<1>3. ASSUME NEW w \in Workers, Check(w)
      PROVE  IndInv'
  BY <1>3 DEF Check, Goto, TypeOK, WindowExact, ClientKeyed
<1>4. ASSUME NEW w \in Workers, RecordFailure(w)
      PROVE  IndInv'
  <2>1. TypeOK'
    BY <1>4, SliceTypes DEF RecordFailure, Goto, TypeOK
  <2>2. \A i \in IPs : InWindow(counts'[i]) = InWindow(failed'[i])
    BY <1>4, SliceAgree DEF RecordFailure, TypeOK, WindowExact, ClientKeyed
  <2> QED BY <1>4, <2>1, <2>2 DEF RecordFailure, WindowExact, ClientKeyed
<1>5. ASSUME NEW w \in Workers, record(w)
      PROVE  IndInv'
  <2>1. TypeOK'
    BY <1>5, SliceTypes DEF record, Goto, TypeOK
  <2>2. GlobalMax > 0 => InWindow(times') = InWindow(failedAll')
    BY <1>5, SliceAgree DEF record, TypeOK, WindowExact
  <2> QED BY <1>5, <2>1, <2>2 DEF record, WindowExact, ClientKeyed
<1>6. CASE cleanup
  <2>1. TypeOK'
    BY <1>6, SliceTypes DEF cleanup, TypeOK
  <2>2. \A i \in IPs : InWindow(counts'[i]) = InWindow(counts[i])
    BY <1>6, SliceAgree DEF cleanup, TypeOK
  <2> QED BY <1>6, <2>1, <2>2 DEF cleanup, WindowExact, ClientKeyed
<1>7. CASE Tick
  <2>1. TypeOK'
    BY <1>7, SliceTypes DEF Tick, TypeOK
  <2>2. \A i \in IPs : InWindow(counts'[i]) = InWindow(failed'[i])
    BY <1>7, SliceAgree DEF Tick, TypeOK, WindowExact
  <2>3. GlobalMax > 0 => InWindow(times') = InWindow(failedAll')
    BY <1>7, SliceAgree DEF Tick, TypeOK, WindowExact
  <2>4. ClientKeyed'
    BY <1>7 DEF Tick, ClientKeyed
  <2> QED BY <2>1, <2>2, <2>3, <2>4 DEF WindowExact
<1>8. CASE UNCHANGED vars
  BY <1>8 DEF vars, TypeOK, WindowExact, ClientKeyed
<1>9. ASSUME NEW w \in Workers, handleLogin(w)
      PROVE  IndInv'
  <2> SUFFICES ASSUME NEW client \in IPs, NEW header \in Headers, NEW route \in Routes,
                      LET r == Received(client, header, route)
                      IN  Allow(w, client, clientIP(r.peer, r.xff))
               PROVE  IndInv'
    BY <1>2, <1>3, <1>4, <1>5, <1>9 DEF handleLogin
  <2>1. Allow(w, client, client)
    BY ClientFound
  <2> QED BY <1>1, <2>1
<1> QED
  BY <1>6, <1>7, <1>8, <1>9 DEF Next

\* Logins are limited by the client's own address, and what Allow and
\* globalFails.allow count is what really failed in the window.
LEMMA LimitsInvariant == Spec => []IndInv
BY LimitsInit, LimitsNext, PTL DEF Spec

\* Type correctness and exactness of the window hold in every reachable state.
THEOREM WindowAlwaysExact == Spec => [](TypeOK /\ WindowExact)
BY LimitsInvariant, PTL DEF IndInv

\* Every login is limited by the address of the client it came from.
THEOREM ClientAlwaysKeyed == Spec => []ClientKeyed
BY LimitsInvariant, PTL DEF IndInv

-----------------------------------------------------------------------------
(* The overshoot.                                                          *)

\* A pair is a failure of a slice if its number is within the count of its age.
LEMMA FailureOf ==
    ASSUME NEW D, NEW c \in [D -> Nat], NEW x
    PROVE  x \in Failures(c) <=> \E a \in D, i \in Nat \ {0} : x = <<a, i>> /\ i <= c[a]
<1>1. DOMAIN c = D
  OBVIOUS
<1>2. \A a \in D : c[a] \in Nat
  OBVIOUS
<1>3. \A a \in D : x \in {a} \X (1..c[a]) <=> \E i \in Nat \ {0} : x = <<a, i>> /\ i <= c[a]
  BY <1>2
<1> QED BY <1>1, <1>3 DEF Failures

\* A slice over finitely many ages has finitely many failures.
LEMMA FailuresFinite ==
    ASSUME NEW D, IsFiniteSet(D), NEW c \in [D -> Nat]
    PROVE  IsFiniteSet(Failures(c)) /\ Total(c) \in Nat
<1> DEFINE T == {{a} \X (1..c[a]) : a \in D}
           g == [a \in D |-> {a} \X (1..c[a])]
<1>1. g \in Surjection(D, T)
  BY DEF Surjection
<1>2. IsFiniteSet(T)
  BY <1>1, FS_Surjection
<1>3. ASSUME NEW a \in D PROVE IsFiniteSet({a} \X (1..c[a]))
  <2>1. IsFiniteSet({a})
    BY FS_Singleton
  <2>2. IsFiniteSet(1..c[a])
    BY FS_Interval
  <2> QED BY <2>1, <2>2, FS_Product
<1>4. \A x \in T : IsFiniteSet(x)
  BY <1>3
<1>5. IsFiniteSet(UNION T)
  BY <1>2, <1>4, FS_UNION
<1>6. Failures(c) = UNION T
  BY DEF Failures
<1> QED BY <1>5, <1>6, FS_CardinalityType DEF Total

\* The ages inside the window, and what InWindow keeps.
LEMMA WindowSlice ==
    ASSUME NEW c \in [Ages -> Nat]
    PROVE  /\ InWindow(c) \in [0..(Window - 1) -> Nat]
           /\ IsFiniteSet(0..(Window - 1)) /\ 0 \in 0..(Window - 1)
           /\ \A a \in 0..(Window - 1) : InWindow(c)[a] = c[a]
<1>1. 0..(Window - 1) \subseteq Ages
  BY LimitsAssumption DEF Ages
<1>2. IsFiniteSet(0..(Window - 1))
  BY LimitsAssumption, FS_Interval
<1> QED BY <1>1, <1>2, LimitsAssumption DEF InWindow

\* What Allow counts after its prune is the failures inside the window.
LEMMA PruneTotal ==
    ASSUME NEW c \in [Ages -> Nat]
    PROVE  Total(Prune(c)) = Total(InWindow(c))
<1>1. Prune(c) \in [Ages -> Nat] /\ InWindow(c) \in [0..(Window - 1) -> Nat]
  BY SliceTypes, WindowSlice
<1>2. \A a \in Ages : Prune(c)[a] = IF a < Window THEN c[a] ELSE 0
  BY DEF Prune
<1>3. \A a \in Ages : a < Window <=> a \in 0..(Window - 1)
  BY LimitsAssumption DEF Ages
<1>4. \A a \in 0..(Window - 1) : a \in Ages /\ InWindow(c)[a] = c[a]
  BY WindowSlice, LimitsAssumption DEF Ages
<1>5. ASSUME NEW x PROVE x \in Failures(Prune(c)) <=> x \in Failures(InWindow(c))
  <2>1. x \in Failures(Prune(c)) <=>
          \E a \in Ages, i \in Nat \ {0} : x = <<a, i>> /\ i <= Prune(c)[a]
    BY <1>1, FailureOf
  <2>2. x \in Failures(InWindow(c)) <=>
          \E a \in 0..(Window - 1), i \in Nat \ {0} : x = <<a, i>> /\ i <= InWindow(c)[a]
    BY <1>1, FailureOf
  <2> QED BY <2>1, <2>2, <1>2, <1>3, <1>4
<1>6. Failures(Prune(c)) = Failures(InWindow(c))
  BY <1>5
<1> QED BY <1>6 DEF Total

\* RecordFailure adds one failure to the window.
LEMMA AddTotal ==
    ASSUME NEW c \in [Ages -> Nat]
    PROVE  Total(InWindow(AddFailure(c))) = Total(InWindow(c)) + 1
<1> DEFINE v == InWindow(c)
           w == InWindow(AddFailure(c))
           W == 0..(Window - 1)
           new == <<0, c[0] + 1>>
<1>1. /\ v \in [W -> Nat] /\ w \in [W -> Nat] /\ IsFiniteSet(W) /\ 0 \in W
      /\ \A a \in W : v[a] = c[a] /\ w[a] = AddFailure(c)[a]
  BY SliceTypes, WindowSlice
<1>2. 0 \in Ages /\ \A a \in W : a \in Ages
  BY LimitsAssumption DEF Ages
<1>3. \A a \in W : w[a] = IF a = 0 THEN v[a] + 1 ELSE v[a]
  BY <1>1, <1>2 DEF AddFailure
<1>4. v[0] = c[0] /\ v[0] \in Nat
  BY <1>1
<1> HIDE DEF v, w, W
<1>5. new \notin Failures(v)
  <2> SUFFICES ASSUME new \in Failures(v) PROVE FALSE
    OBVIOUS
  <2>1. PICK a \in W, i \in Nat \ {0} : new = <<a, i>> /\ i <= v[a]
    BY <1>1, FailureOf
  <2> QED BY <2>1, <1>4
<1>6. ASSUME NEW x PROVE x \in Failures(w) <=> x \in Failures(v) \cup {new}
  <2>1. x \in Failures(w) <=> \E a \in W, i \in Nat \ {0} : x = <<a, i>> /\ i <= w[a]
    BY <1>1, FailureOf
  <2>2. x \in Failures(v) <=> \E a \in W, i \in Nat \ {0} : x = <<a, i>> /\ i <= v[a]
    BY <1>1, FailureOf
  <2>3. ASSUME x \in Failures(w) PROVE x \in Failures(v) \cup {new}
    <3>1. PICK a \in W, i \in Nat \ {0} : x = <<a, i>> /\ i <= w[a]
      BY <2>1, <2>3
    <3>2. CASE i <= v[a]
      BY <2>2, <3>1, <3>2
    <3>3. CASE ~(i <= v[a])
      <4>1. a = 0 /\ i = v[0] + 1
        BY <1>1, <1>3, <3>1, <3>3
      <4> QED BY <3>1, <4>1, <1>4
    <3> QED BY <3>2, <3>3
  <2>4. ASSUME x \in Failures(v) PROVE x \in Failures(w)
    <3>1. PICK a \in W, i \in Nat \ {0} : x = <<a, i>> /\ i <= v[a]
      BY <2>2, <2>4
    <3>2. v[a] \in Nat /\ i <= w[a]
      BY <1>1, <1>3, <3>1
    <3> QED BY <2>1, <3>1, <3>2
  <2>5. new \in Failures(w)
    <3>1. w[0] = c[0] + 1 /\ c[0] + 1 \in Nat \ {0}
      BY <1>1, <1>3, <1>4
    <3>2. new \in Failures(w) <=> \E a \in W, i \in Nat \ {0} : new = <<a, i>> /\ i <= w[a]
      BY <1>1, FailureOf
    <3> QED BY <1>1, <3>1, <3>2
  <2> QED BY <2>3, <2>4, <2>5
<1>7. Failures(w) = Failures(v) \cup {new}
  BY <1>6
<1>8. IsFiniteSet(Failures(v))
  BY <1>1, FailuresFinite
<1> HIDE DEF new
<1>9. Total(w) = Total(v) + 1
  BY <1>5, <1>7, <1>8, FS_AddElement DEF Total
<1> QED BY <1>9 DEF v, w

\* A tick adds nothing to the window: what it holds was there one tick younger.
LEMMA TickTotal ==
    ASSUME NEW c \in [Ages -> Nat]
    PROVE  Total(InWindow(Forget(Older(c)))) <= Total(InWindow(c))
<1> DEFINE v == InWindow(c)
           w == InWindow(Forget(Older(c)))
           W == 0..(Window - 1)
           younger == [x \in Failures(w) |-> <<x[1] - 1, x[2]>>]
<1>1. /\ v \in [W -> Nat] /\ w \in [W -> Nat] /\ IsFiniteSet(W)
      /\ \A a \in W : v[a] = c[a] /\ w[a] = Forget(Older(c))[a]
  BY SliceTypes, WindowSlice
<1>2. \A a \in W : a \in Ages /\ a # Window /\ a \in Nat
  BY LimitsAssumption DEF Ages
<1>3. \A a \in W : w[a] = Older(c)[a]
  BY <1>1, <1>2, SliceTypes DEF Forget
<1>4. \A a \in W : Older(c)[a] = IF a = 0 THEN 0 ELSE c[a - 1]
  BY <1>2 DEF Older
<1>5. \A a \in W : a # 0 => a - 1 \in W
  BY LimitsAssumption
<1>6. \A a \in W : w[a] = IF a = 0 THEN 0 ELSE v[a - 1]
  BY <1>1, <1>3, <1>4, <1>5
<1>nat. \A a \in W : a \in Nat
  BY <1>2
<1> HIDE DEF v, w, W
<1>7. ASSUME NEW x \in Failures(w)
      PROVE  \E a \in W, i \in Nat \ {0} : x = <<a, i>> /\ i <= w[a]
  BY <1>1, FailureOf
<1>8. ASSUME NEW x \in Failures(w) PROVE younger[x] \in Failures(v)
  <2>1. PICK a \in W, i \in Nat \ {0} : x = <<a, i>> /\ i <= w[a]
    BY <1>7
  <2>2. a # 0
    BY <2>1, <1>6
  <2>3. a - 1 \in W /\ i <= v[a - 1]
    BY <2>1, <2>2, <1>5, <1>6
  <2>4. younger[x] = <<a - 1, i>>
    BY <2>1
  <2>5. <<a - 1, i>> \in Failures(v)
    BY <2>3, <1>1, FailureOf
  <2> QED BY <2>4, <2>5
<1>9. ASSUME NEW x \in Failures(w), NEW y \in Failures(w), younger[x] = younger[y]
      PROVE  x = y
  <2>1. PICK a \in W, i \in Nat \ {0} : x = <<a, i>>
    BY <1>7
  <2>2. PICK b \in W, j \in Nat \ {0} : y = <<b, j>>
    BY <1>7
  <2>3. younger[x] = <<a - 1, i>> /\ younger[y] = <<b - 1, j>>
    BY <2>1, <2>2
  <2>4. a - 1 = b - 1 /\ i = j
    BY <1>9, <2>3
  <2> QED BY <2>1, <2>2, <2>4, <1>nat
<1>10. younger \in Injection(Failures(w), Failures(v))
  <2>1. younger \in [Failures(w) -> Failures(v)]
    BY <1>8
  <2> HIDE DEF younger
  <2> QED BY <2>1, <1>9 DEF Injection, IsInjective
<1>11. IsFiniteSet(Failures(v))
  BY <1>1, FailuresFinite
<1>12. Total(w) <= Total(v)
  BY <1>10, <1>11, FS_Injection DEF Total
<1> QED BY <1>12 DEF v, w

\* Handlers that Allow has let in and that may still record a failure of ip, and
\* those that globalFails.allow has let in and that may still record one.
InFlight(ip) == {w \in Workers : wclient[w] = ip /\ wpc[w] \in {"global", "auth", "recordIP"}}
InFlightAll == {w \in Workers : wpc[w] \in {"auth", "recordIP", "recordGlobal"}}

\* Failures in the window and failures still to come stay below the bound.
Overshoot ==
    /\ \A ip \in IPs :
         Total(InWindow(failed[ip])) + Cardinality(InFlight(ip)) < Limit + Cardinality(Workers)
    /\ GlobalMax > 0 =>
         Total(InWindow(failedAll)) + Cardinality(InFlightAll) < GlobalMax + Cardinality(Workers)

\* Sets of handlers are finite, and a part of one is no larger.
LEMMA HandlersCounted ==
    ASSUME NEW S \in SUBSET Workers
    PROVE  /\ IsFiniteSet(S) /\ Cardinality(S) \in Nat /\ Cardinality(Workers) \in Nat
           /\ Cardinality(S) <= Cardinality(Workers)
           /\ \A T \in SUBSET S : Cardinality(T) \in Nat /\ Cardinality(T) <= Cardinality(S)
           /\ \A w \in S : Cardinality(S \ {w}) = Cardinality(S) - 1
<1>1. IsFiniteSet(Workers)
  BY LimitsAssumption
<1>2. IsFiniteSet(S) /\ Cardinality(S) <= Cardinality(Workers)
  BY <1>1, FS_Subset
<1>3. Cardinality(S) \in Nat /\ Cardinality(Workers) \in Nat
  BY <1>1, <1>2, FS_CardinalityType
<1>4. ASSUME NEW T \in SUBSET S PROVE Cardinality(T) \in Nat /\ Cardinality(T) <= Cardinality(S)
  BY <1>2, FS_Subset, FS_CardinalityType
<1>5. ASSUME NEW w \in S PROVE Cardinality(S \ {w}) = Cardinality(S) - 1
  BY <1>2, FS_RemoveElement
<1> QED BY <1>2, <1>3, <1>4, <1>5

\* The total inside a window is a number.
LEMMA WindowTotal ==
    ASSUME NEW c \in [Ages -> Nat] PROVE Total(InWindow(c)) \in Nat
BY WindowSlice, FailuresFinite

\* Initially nothing has failed and nothing is in flight.
LEMMA OvershootInit == Init => Overshoot
<1> SUFFICES ASSUME Init PROVE Overshoot
  OBVIOUS
<1> DEFINE W == 0..(Window - 1)
<1>1. NoFailures \in [Ages -> Nat] /\ \A a \in Ages : NoFailures[a] = 0
  BY DEF NoFailures
<1>2. InWindow(NoFailures) \in [W -> Nat] /\ \A a \in W : InWindow(NoFailures)[a] = 0
  BY <1>1, WindowSlice, LimitsAssumption DEF Ages
<1>3. ASSUME NEW x PROVE x \notin Failures(InWindow(NoFailures))
  <2> HIDE DEF W
  <2>1. x \in Failures(InWindow(NoFailures)) <=>
          \E a \in W, i \in Nat \ {0} : x = <<a, i>> /\ i <= InWindow(NoFailures)[a]
    BY <1>2, FailureOf
  <2> QED BY <2>1, <1>2
<1>4. Total(InWindow(NoFailures)) = 0
  BY <1>3, FS_EmptySet DEF Total
<1>5. \A ip \in IPs : InFlight(ip) = {}
  BY DEF Init, InFlight
<1>6. InFlightAll = {}
  BY DEF Init, InFlightAll
<1>7. Cardinality(Workers) \in Nat
  BY HandlersCounted
<1>8. (\A ip \in IPs : failed[ip] = NoFailures) /\ failedAll = NoFailures
  BY DEF Init
<1> QED BY <1>4, <1>5, <1>6, <1>7, <1>8, FS_EmptySet, LimitsAssumption DEF Overshoot

\* A handler is let in only while the window has room; what it records was counted
\* as in flight before, so the sum never grows otherwise.
LEMMA OvershootNext == IndInv /\ Overshoot /\ [Next]_vars => Overshoot'
<1> SUFFICES ASSUME IndInv, Overshoot, [Next]_vars PROVE Overshoot'
  OBVIOUS
<1> USE LimitsAssumption DEF IndInv
<1>nat. /\ \A ip \in IPs : Total(InWindow(failed[ip])) \in Nat
        /\ Total(InWindow(failedAll)) \in Nat
        /\ Cardinality(Workers) \in Nat
  BY WindowTotal, HandlersCounted DEF TypeOK
<1>sub. /\ InFlightAll \in SUBSET Workers /\ InFlightAll' \in SUBSET Workers
        /\ \A ip \in IPs : InFlight(ip) \in SUBSET Workers /\ InFlight(ip)' \in SUBSET Workers
  BY DEF InFlight, InFlightAll
\* What a step that lets nobody in and records nothing keeps, for one address and for all.
<1>ip. ASSUME NEW ip \in IPs, failed'[ip] = failed[ip], InFlight(ip)' \subseteq InFlight(ip)
       PROVE  Total(InWindow(failed'[ip])) + Cardinality(InFlight(ip)')
                < Limit + Cardinality(Workers)
  <2>1. /\ Cardinality(InFlight(ip)') \in Nat /\ Cardinality(InFlight(ip)) \in Nat
        /\ Cardinality(InFlight(ip)') <= Cardinality(InFlight(ip))
    BY <1>ip, <1>sub, HandlersCounted
  <2> QED BY <1>ip, <1>nat, <2>1 DEF Overshoot
<1>all. ASSUME GlobalMax > 0, failedAll' = failedAll, InFlightAll' \subseteq InFlightAll
        PROVE  Total(InWindow(failedAll')) + Cardinality(InFlightAll')
                 < GlobalMax + Cardinality(Workers)
  <2>1. /\ Cardinality(InFlightAll') \in Nat /\ Cardinality(InFlightAll) \in Nat
        /\ Cardinality(InFlightAll') <= Cardinality(InFlightAll)
    BY <1>all, <1>sub, HandlersCounted
  <2> QED BY <1>all, <1>nat, <2>1 DEF Overshoot
<1>1. ASSUME NEW w \in Workers, NEW client \in IPs, Allow(w, client, client)
      PROVE  Overshoot'
  <2>1. InFlightAll' \subseteq InFlightAll
    BY <1>1 DEF Allow, Goto, InFlightAll, TypeOK
  <2>2. ASSUME NEW ip \in IPs
        PROVE  Total(InWindow(failed'[ip])) + Cardinality(InFlight(ip)')
                 < Limit + Cardinality(Workers)
    <3>1. CASE ip # client \/ ~(Total(Prune(counts[client])) < Limit)
      <4>1. InFlight(ip)' \subseteq InFlight(ip)
        BY <1>1, <3>1 DEF Allow, Goto, InFlight, TypeOK
      <4> QED BY <1>1, <4>1, <1>ip DEF Allow
    <3>2. CASE ip = client /\ Total(Prune(counts[client])) < Limit
      <4>1. Total(Prune(counts[client])) = Total(InWindow(failed[client]))
        BY PruneTotal DEF TypeOK, WindowExact
      <4>2. /\ Cardinality(InFlight(ip)') \in Nat
            /\ Cardinality(InFlight(ip)') <= Cardinality(Workers)
        BY <1>sub, HandlersCounted
      <4>3. failed' = failed
        BY <1>1 DEF Allow
      <4> QED BY <3>2, <4>1, <4>2, <4>3, <1>nat
    <3> QED BY <3>1, <3>2
  <2> QED BY <1>1, <1>all, <2>1, <2>2 DEF Allow, Overshoot
<1>2. ASSUME NEW w \in Workers, allow(w)
      PROVE  Overshoot'
  <2>1. \A ip \in IPs : InFlight(ip)' \subseteq InFlight(ip)
    BY <1>2 DEF allow, Goto, InFlight, TypeOK
  <2>2. ASSUME GlobalMax > 0
        PROVE  Total(InWindow(failedAll')) + Cardinality(InFlightAll')
                 < GlobalMax + Cardinality(Workers)
    <3>1. CASE ~(Total(Prune(times)) < GlobalMax)
      <4>1. InFlightAll' \subseteq InFlightAll
        BY <1>2, <2>2, <3>1 DEF allow, Goto, InFlightAll, TypeOK
      <4> QED BY <1>2, <2>2, <4>1, <1>all DEF allow
    <3>2. CASE Total(Prune(times)) < GlobalMax
      <4>1. Total(Prune(times)) = Total(InWindow(failedAll))
        BY <2>2, PruneTotal DEF TypeOK, WindowExact
      <4>2. /\ Cardinality(InFlightAll') \in Nat
            /\ Cardinality(InFlightAll') <= Cardinality(Workers)
        BY <1>sub, HandlersCounted
      <4>3. failedAll' = failedAll
        BY <1>2 DEF allow
      <4> QED BY <3>2, <4>1, <4>2, <4>3, <1>nat
    <3> QED BY <3>1, <3>2
  <2>3. failed' = failed
    BY <1>2 DEF allow
  <2> QED BY <1>ip, <2>1, <2>2, <2>3 DEF Overshoot
<1>3. ASSUME NEW w \in Workers, Check(w)
      PROVE  Overshoot'
  <2>1. \A ip \in IPs : InFlight(ip)' \subseteq InFlight(ip)
    BY <1>3 DEF Check, Goto, InFlight, TypeOK
  <2>2. InFlightAll' \subseteq InFlightAll
    BY <1>3 DEF Check, Goto, InFlightAll, TypeOK
  <2>3. failed' = failed /\ failedAll' = failedAll
    BY <1>3 DEF Check
  <2> QED BY <1>ip, <1>all, <2>1, <2>2, <2>3 DEF Overshoot
<1>4. ASSUME NEW w \in Workers, RecordFailure(w)
      PROVE  Overshoot'
  <2>1. InFlightAll' \subseteq InFlightAll /\ failedAll' = failedAll
    BY <1>4 DEF RecordFailure, Goto, InFlightAll, TypeOK
  <2>2. ASSUME NEW ip \in IPs
        PROVE  Total(InWindow(failed'[ip])) + Cardinality(InFlight(ip)')
                 < Limit + Cardinality(Workers)
    <3>1. CASE ip # wclient[w]
      <4>1. InFlight(ip)' \subseteq InFlight(ip) /\ failed'[ip] = failed[ip]
        BY <1>4, <3>1 DEF RecordFailure, Goto, InFlight, TypeOK
      <4> QED BY <4>1, <1>ip
    <3>2. CASE ip = wclient[w]
      <4>1. failed[ip] \in [Ages -> Nat] /\ failed'[ip] = AddFailure(failed[ip])
        BY <1>4, <3>2 DEF RecordFailure, TypeOK
      <4>2. w \in InFlight(ip) /\ InFlight(ip)' = InFlight(ip) \ {w}
        BY <1>4, <3>2 DEF RecordFailure, Goto, InFlight, TypeOK
      <4>3. /\ Cardinality(InFlight(ip)') = Cardinality(InFlight(ip)) - 1
            /\ Cardinality(InFlight(ip)) \in Nat
        BY <4>2, <1>sub, HandlersCounted
      <4>4. Total(InWindow(failed'[ip])) = Total(InWindow(failed[ip])) + 1
        BY <4>1, AddTotal
      <4> QED BY <4>3, <4>4, <1>nat DEF Overshoot
    <3> QED BY <3>1, <3>2
  <2> QED BY <1>all, <2>1, <2>2 DEF Overshoot
<1>5. ASSUME NEW w \in Workers, record(w)
      PROVE  Overshoot'
  <2>1. /\ \A ip \in IPs : InFlight(ip)' \subseteq InFlight(ip)
        /\ failed' = failed
    BY <1>5 DEF record, Goto, InFlight, TypeOK
  <2>2. ASSUME GlobalMax > 0
        PROVE  Total(InWindow(failedAll')) + Cardinality(InFlightAll')
                 < GlobalMax + Cardinality(Workers)
    <3>1. w \in InFlightAll /\ InFlightAll' = InFlightAll \ {w}
      BY <1>5 DEF record, Goto, InFlightAll, TypeOK
    <3>2. /\ Cardinality(InFlightAll') = Cardinality(InFlightAll) - 1
          /\ Cardinality(InFlightAll) \in Nat
      BY <3>1, <1>sub, HandlersCounted
    <3>3. Total(InWindow(failedAll')) = Total(InWindow(failedAll)) + 1
      BY <1>5, AddTotal DEF record, TypeOK
    <3> QED BY <2>2, <3>2, <3>3, <1>nat DEF Overshoot
  <2> QED BY <1>ip, <2>1, <2>2 DEF Overshoot
<1>6. CASE Tick
  <2>1. InFlightAll' = InFlightAll /\ \A ip \in IPs : InFlight(ip)' = InFlight(ip)
    BY <1>6 DEF Tick, InFlight, InFlightAll
  <2>2. \A ip \in IPs : /\ Total(InWindow(failed'[ip])) <= Total(InWindow(failed[ip]))
                        /\ Total(InWindow(failed'[ip])) \in Nat
                        /\ Cardinality(InFlight(ip)) \in Nat
    BY <1>6, <1>sub, TickTotal, WindowTotal, SliceTypes, HandlersCounted DEF Tick, TypeOK
  <2>3. /\ Total(InWindow(failedAll')) <= Total(InWindow(failedAll))
        /\ Total(InWindow(failedAll')) \in Nat
        /\ Cardinality(InFlightAll) \in Nat
    BY <1>6, <1>sub, TickTotal, WindowTotal, SliceTypes, HandlersCounted DEF Tick, TypeOK
  <2> QED BY <2>1, <2>2, <2>3, <1>nat DEF Overshoot
<1>7. CASE cleanup \/ UNCHANGED vars
  <2>1. UNCHANGED <<wpc, wclient, failed, failedAll>>
    BY <1>7 DEF cleanup, vars
  <2> QED BY <2>1 DEF Overshoot, InFlight, InFlightAll
<1>8. ASSUME NEW w \in Workers, handleLogin(w)
      PROVE  Overshoot'
  <2> SUFFICES ASSUME NEW client \in IPs, NEW header \in Headers, NEW route \in Routes,
                      LET r == Received(client, header, route)
                      IN  Allow(w, client, clientIP(r.peer, r.xff))
               PROVE  Overshoot'
    BY <1>2, <1>3, <1>4, <1>5, <1>8 DEF handleLogin
  <2>1. Allow(w, client, client)
    BY ClientFound
  <2> QED BY <1>1, <2>1
<1> QED BY <1>6, <1>7, <1>8 DEF Next

\* For any limits, window and number of concurrent requests, the failures of an
\* address in the window, and those of all addresses, exceed the limit by less
\* than the number of requests in flight (handleLogin checks, then records).
THEOREM OvershootAlwaysBounded == Spec => []OvershootBounded
<1>1. IndInv /\ Overshoot => OvershootBounded
  <2> SUFFICES ASSUME IndInv, Overshoot PROVE OvershootBounded
    OBVIOUS
  <2>1. /\ \A ip \in IPs : Total(InWindow(failed[ip])) \in Nat
        /\ Total(InWindow(failedAll)) \in Nat
    BY WindowTotal DEF IndInv, TypeOK
  <2>2. /\ Cardinality(InFlightAll) \in Nat /\ Cardinality(Workers) \in Nat
        /\ \A ip \in IPs : Cardinality(InFlight(ip)) \in Nat
    BY HandlersCounted DEF InFlight, InFlightAll
  <2> QED BY <2>1, <2>2, LimitsAssumption DEF Overshoot, OvershootBounded
<1> QED
  BY <1>1, LimitsInit, LimitsNext, OvershootInit, OvershootNext, PTL DEF Spec
=============================================================================
