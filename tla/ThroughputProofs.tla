-------------------------- MODULE ThroughputProofs --------------------------
(***************************************************************************)
(* Proofs about the `throughput' command, for every duration, rate, window *)
(* and batch size: its types, that the server counts what arrives before   *)
(* it is cancelled, that the peak it prints is the best window's, and that *)
(* the sender keeps to its rate.                                           *)
(*                                                                         *)
(* The inductive invariant relates the server's list and its socket to the *)
(* history of arrivals, and the sliding window to the part of that history *)
(* it stands for: the packets of the last `Window' before the one that was *)
(* looked at last, with their bytes as counted.                            *)
(***************************************************************************)
EXTENDS Throughput, FiniteSetTheorems, FunctionTheorems, SequenceTheorems, WellFoundedInduction, TLAPS

LEMMA ConstantTypes ==
  /\ Duration \in Nat /\ SendBps \in Nat
  /\ Second \in Nat \ {0} /\ SendInterval \in Nat \ {0} /\ Window \in Nat \ {0}
  /\ MaxTransmit \in Nat \ {0} /\ BatchSize \in Nat \ {0}
  BY ThroughputAssumption

\* A set of numbers has a least one, and a greatest one if it is bounded.
LEMMA LeastNat ==
  ASSUME NEW T, T \subseteq Nat, T # {}
  PROVE  \E x \in T : \A y \in T : x <= y
<1>1. PICK x \in T : \A y \in T : ~(<<y, x>> \in OpToRel(<, Nat))
  BY NatLessThanWellFounded, WFMin
<1>2. \A y \in T : ~(y < x)
  BY <1>1 DEF OpToRel
<1> QED
  BY <1>2

LEMMA GreatestNat ==
  ASSUME NEW n \in Nat, NEW T, T \subseteq 0..n, T # {}
  PROVE  \E x \in T : \A y \in T : y <= x
<1>1. PICK U : U = {u \in Nat : \E y \in T : u = n - y}
  OBVIOUS
<1>2. U \subseteq Nat /\ U # {}
  <2>1. PICK y \in T : TRUE
    OBVIOUS
  <2>2. y \in 0..n
    OBVIOUS
  <2>3. n - y \in Nat
    BY <2>2
  <2> QED
    BY <1>1, <2>3
<1>3. PICK u \in U : \A v \in U : u <= v
  BY <1>2, LeastNat
<1>4. PICK x \in T : u = n - x
  BY <1>1
<1>5. ASSUME NEW y \in T PROVE y <= x
  <2>1. x \in 0..n /\ y \in 0..n
    BY <1>5
  <2>2. n - y \in U
    BY <1>1, <2>1
  <2>3. n - x <= n - y
    BY <1>3, <1>4, <2>2
  <2> QED
    BY <2>1, <2>3
<1> QED
  BY <1>5

\* A set of positions that holds every position below one of its own is a prefix.
LEMMA PrefixSet ==
  ASSUME NEW n \in Nat, NEW T, T \subseteq 1..n,
         \A i \in T : \A j \in 1..i : j \in T
  PROVE  \E k \in 0..n : T = 1..k /\ Cardinality(T) = k
<1>1. PICK U : U = (1..(n + 1)) \ T
  OBVIOUS
<1>2. U \subseteq Nat /\ n + 1 \in U
  BY <1>1
<1>3. PICK u \in U : \A v \in U : u <= v
  BY <1>2, LeastNat
<1>4. u \in 1..(n + 1) /\ u \notin T
  BY <1>1
<1>5. \A i \in 1..(u - 1) : i \in T
  BY <1>1, <1>3, <1>4
<1>6. \A i \in T : i < u
  BY <1>4
<1>7. PICK k \in 0..n : k = u - 1
  BY <1>4
<1>8. T = 1..k
  <2>1. \A i \in T : i \in 1..k
    BY <1>4, <1>6, <1>7
  <2>2. \A i \in 1..k : i \in T
    BY <1>5, <1>7
  <2> QED
    BY <2>1, <2>2
<1>9. Cardinality(1..k) = IF 1 > k THEN 0 ELSE k - 1 + 1
  BY FS_Interval
<1> QED
  BY <1>8, <1>9

-----------------------------------------------------------------------------
(* Sums of bytes.                                                           *)

Cells(S, f) == UNION {{i} \X (1..f[i].bytes) : i \in S}

LEMMA CellsDef ==
  ASSUME NEW S, NEW f
  PROVE  /\ SumBytes(S, f) = Cardinality(Cells(S, f))
         /\ \A x : x \in Cells(S, f) <=> \E i \in S : \E b \in 1..f[i].bytes : x = <<i, b>>
  BY DEF SumBytes, Cells

LEMMA CellOf ==
  ASSUME NEW S, NEW f, NEW x \in Cells(S, f)
  PROVE  \E i \in S : \E b \in 1..f[i].bytes : x = <<i, b>>
  BY CellsDef

\* Positions whose entries have at most MaxTransmit bytes.
Sized(S, f) == IsFiniteSet(S) /\ \A i \in S : f[i].bytes \in 1..MaxTransmit

LEMMA SumType ==
  ASSUME NEW S, NEW f, Sized(S, f)
  PROVE  IsFiniteSet(Cells(S, f)) /\ SumBytes(S, f) \in Nat
<1>1. IsFiniteSet(1..MaxTransmit)
  BY ConstantTypes, FS_Interval
<1>2. IsFiniteSet(S \X (1..MaxTransmit))
  BY <1>1, FS_Product DEF Sized
<1>3. Cells(S, f) \subseteq S \X (1..MaxTransmit)
  BY ConstantTypes DEF Cells, Sized
<1>4. IsFiniteSet(Cells(S, f))
  BY <1>2, <1>3, FS_Subset
<1> QED
  BY <1>4, FS_CardinalityType, CellsDef

LEMMA SumEmpty ==
  ASSUME NEW f
  PROVE  SumBytes({}, f) = 0
<1>1. Cells({}, f) = {}
  BY DEF Cells
<1> QED
  BY <1>1, FS_EmptySet, CellsDef

LEMMA SumSingle ==
  ASSUME NEW i, NEW f, f[i].bytes \in Nat
  PROVE  SumBytes({i}, f) = f[i].bytes
<1>1. PICK n \in Nat : n = f[i].bytes
  OBVIOUS
<1>2. Cells({i}, f) = {i} \X (1..n)
  BY <1>1 DEF Cells
<1>3. IsFiniteSet({i}) /\ Cardinality({i}) = 1
  BY FS_Singleton
<1>4. IsFiniteSet(1..n) /\ Cardinality(1..n) = n
  BY FS_Interval
<1>5. Cardinality({i} \X (1..n)) = 1 * n
  <2>1. Cardinality({i} \X (1..n)) = Cardinality({i}) * Cardinality(1..n)
    BY <1>3, <1>4, FS_Product
  <2> QED
    BY <1>3, <1>4, <2>1
<1>6. SumBytes({i}, f) = Cardinality({i} \X (1..n))
  BY <1>2, CellsDef
<1> QED
  BY <1>1, <1>5, <1>6

LEMMA SumMonotone ==
  ASSUME NEW S, NEW T, NEW f, Sized(T, f), S \subseteq T
  PROVE  SumBytes(S, f) <= SumBytes(T, f)
<1>1. IsFiniteSet(Cells(T, f))
  BY SumType
<1>2. Cells(S, f) \subseteq Cells(T, f)
  BY DEF Cells
<1> QED
  BY <1>1, <1>2, FS_Subset, CellsDef

LEMMA SumDisjoint ==
  ASSUME NEW S, NEW T, NEW f, Sized(S, f), Sized(T, f), S \cap T = {}
  PROVE  SumBytes(S \cup T, f) = SumBytes(S, f) + SumBytes(T, f)
<1>1. IsFiniteSet(Cells(S, f)) /\ IsFiniteSet(Cells(T, f))
  BY SumType
<1>2. Cells(S \cup T, f) = Cells(S, f) \cup Cells(T, f)
  BY DEF Cells
<1>3. Cells(S, f) \cap Cells(T, f) = {}
  <2>1. ASSUME NEW x, x \in Cells(S, f), x \in Cells(T, f) PROVE FALSE
    <3>1. PICK i \in S : \E b \in 1..f[i].bytes : x = <<i, b>>
      BY <2>1, CellsDef
    <3>2. PICK j \in T : \E b \in 1..f[j].bytes : x = <<j, b>>
      BY <2>1, CellsDef
    <3>3. i = j
      BY <3>1, <3>2
    <3> QED
      BY <3>3
  <2> QED
    BY <2>1
<1>4. Cardinality(Cells(S, f) \cup Cells(T, f))
        = Cardinality(Cells(S, f)) + Cardinality(Cells(T, f)) - Cardinality({})
  BY <1>1, <1>3, FS_Union
<1>5. Cardinality({}) = 0
  BY FS_EmptySet
<1>6. Cardinality(Cells(S, f)) \in Nat /\ Cardinality(Cells(T, f)) \in Nat
  BY <1>1, FS_CardinalityType
<1>7. /\ SumBytes(S \cup T, f) = Cardinality(Cells(S, f) \cup Cells(T, f))
      /\ SumBytes(S, f) = Cardinality(Cells(S, f)) /\ SumBytes(T, f) = Cardinality(Cells(T, f))
  BY <1>2, CellsDef
<1> QED
  BY <1>4, <1>5, <1>6, <1>7

\* The first entries of a sequence that continues another one at position a.
LEMMA SumShift ==
  ASSUME NEW a \in Nat, NEW n \in Nat, NEW f, NEW g,
         \A i \in 1..n : g[i] = f[a + i], Sized(1..n, g)
  PROVE  SumBytes(1..n, g) = SumBytes((a + 1)..(a + n), f)
<1>1. IsFiniteSet(Cells(1..n, g))
  BY SumType
<1>2. PICK h : h = [x \in Cells(1..n, g) |-> <<a + x[1], x[2]>>]
  OBVIOUS
<1>3. h \in [Cells(1..n, g) -> Cells((a + 1)..(a + n), f)]
  <2>1. ASSUME NEW x \in Cells(1..n, g)
        PROVE  <<a + x[1], x[2]>> \in Cells((a + 1)..(a + n), f)
    <3>1. PICK i \in 1..n : \E b \in 1..g[i].bytes : x = <<i, b>>
      BY CellOf
    <3>2. PICK b \in 1..g[i].bytes : x = <<i, b>>
      BY <3>1
    <3>3. a + i \in (a + 1)..(a + n) /\ b \in 1..f[a + i].bytes
      BY <3>1, <3>2
    <3>4. <<a + x[1], x[2]>> = <<a + i, b>>
      BY <3>2
    <3> QED
      BY <3>3, <3>4, CellsDef
  <2> QED
    BY <1>2, <2>1
<1>4. \A x, y \in Cells(1..n, g) : h[x] = h[y] => x = y
  <2>1. \A x \in Cells(1..n, g) : \E i \in 1..n : \E b \in 1..g[i].bytes : x = <<i, b>>
    BY CellOf
  <2>2. ASSUME NEW x \in Cells(1..n, g), NEW y \in Cells(1..n, g), h[x] = h[y]
        PROVE  x = y
    <3>1. PICK i \in 1..n : \E b \in 1..g[i].bytes : x = <<i, b>>
      BY <2>1
    <3>2. PICK b \in 1..g[i].bytes : x = <<i, b>>
      BY <3>1
    <3>3. PICK j \in 1..n : \E c \in 1..g[j].bytes : y = <<j, c>>
      BY <2>1
    <3>4. PICK c \in 1..g[j].bytes : y = <<j, c>>
      BY <3>3
    <3>5. h[x] = <<a + i, b>> /\ h[y] = <<a + j, c>>
      BY <1>2, <3>2, <3>4
    <3>6. a + i = a + j /\ b = c
      <4>1. <<a + i, b>> = <<a + j, c>>
        BY <2>2, <3>5
      <4> QED
        BY <4>1
    <3>7. i = j
      BY <3>6
    <3> QED
      BY <3>2, <3>4, <3>6, <3>7
  <2> QED
    BY <2>2
<1>5. \A z \in Cells((a + 1)..(a + n), f) : \E x \in Cells(1..n, g) : h[x] = z
  <2>1. ASSUME NEW z \in Cells((a + 1)..(a + n), f)
        PROVE  \E x \in Cells(1..n, g) : h[x] = z
    <3>1. PICK k \in (a + 1)..(a + n) : \E b \in 1..f[k].bytes : z = <<k, b>>
      BY CellOf
    <3>2. PICK b \in 1..f[k].bytes : z = <<k, b>>
      BY <3>1
    <3>3. PICK i \in 1..n : k = a + i
      <4>1. k - a \in 1..n /\ k = a + (k - a)
        OBVIOUS
      <4> QED
        BY <4>1
    <3>4. b \in 1..g[i].bytes
      BY <3>2, <3>3
    <3>5. <<i, b>> \in Cells(1..n, g)
      BY <3>4, CellsDef
    <3>6. h[<<i, b>>] = z
      BY <1>2, <3>2, <3>3, <3>5
    <3> QED
      BY <3>5, <3>6
  <2> QED
    BY <2>1
<1>6. h \in Bijection(Cells(1..n, g), Cells((a + 1)..(a + n), f))
  BY <1>3, <1>4, <1>5, Fun_IsBij
<1>7. ExistsBijection(Cells(1..n, g), Cells((a + 1)..(a + n), f))
  BY <1>6 DEF ExistsBijection
<1>8. Cardinality(Cells((a + 1)..(a + n), f)) = Cardinality(Cells(1..n, g))
  BY <1>1, <1>7, FS_Bijection
<1> QED
  BY <1>8, CellsDef

-----------------------------------------------------------------------------
(* The inductive invariant.                                                 *)

\* The sender wakes up at the multiples of its interval.
Sends ==
  /\ nextSend = Len(sent) * SendInterval
  /\ \A i \in DOMAIN sent : /\ sent[i].at = (i - 1) * SendInterval
                            /\ sent[i].bytes = BytesPerInterval

\* How far the driver and the server are of each other.
Stages ==
  /\ cancelled <=> driver # "sleeping"
  /\ cancelled => now = Duration
  /\ server = "ended" => cancelled
  /\ driver \in {"smoothing", "returned"} => server = "ended"
  /\ driver = "returned" => arrived = <<>>

Order ==
  /\ \A i \in DOMAIN arrivals : arrivals[i].at <= now
  /\ \A i, j \in DOMAIN arrivals : i <= j => arrivals[i].at <= arrivals[j].at

\* While the server runs: what has arrived is counted or still in the socket, and
\* what is in the socket came at this instant.
Counted ==
  Running =>
    /\ Len(arrived) + Len(inbound) = Len(arrivals)
    /\ \A i \in DOMAIN arrived : arrived[i] = arrivals[i]
    /\ \A i \in DOMAIN inbound : arrivals[Len(arrived) + i] = [at |-> now, bytes |-> inbound[i]]
    /\ server = "waiting" => inbound = <<>>
    /\ window = <<>> /\ windowBytes = 0 /\ peak = 0

\* Throughput of a window with b bytes, and the bytes of the window that ends
\* with the k-th packet.
Rate(b)   == 8 * (Second \div Window) * b
Recent(k) == SumBytes({i \in 1..k : arrivals[i].at + Window >= arrivals[k].at}, arrivals)

\* Of the n packets that the server counted m are looked at, and the first a of
\* these have left the window.
Smoothed(n, m, a) ==
  /\ a <= m /\ n = m + Len(arrived) /\ m = a + Len(window)
  /\ \A i \in (n + 1)..Len(arrivals) : arrivals[i].at = Duration
  /\ \A i \in DOMAIN arrived : arrived[i] = arrivals[m + i]
  /\ \A i \in DOMAIN window : window[i] = arrivals[a + i]
  /\ windowBytes = SumBytes((a + 1)..m, arrivals)
  /\ \A i \in 1..a : arrivals[i].at + Window < arrivals[m].at
  /\ \A i \in (a + 1)..m : arrivals[i].at + Window >= arrivals[m].at
  /\ \A k \in 1..m : Rate(Recent(k)) <= peak
  /\ peak = 0 \/ \E k \in 1..m : peak = Rate(Recent(k))

Smoothing ==
  driver \in {"smoothing", "returned"} =>
    \E n, m, a \in 0..Len(arrivals) : Smoothed(n, m, a)

ThroughputInv == TypeOK /\ Sends /\ Stages /\ Order /\ Counted /\ Smoothing

-----------------------------------------------------------------------------
(* The sender's numbers.                                                    *)

LEMMA RateTypes ==
  /\ BytesPerInterval \in Nat /\ Second \div SendInterval \in Nat
  /\ Second = (Second \div SendInterval) * SendInterval
  /\ 8 * (BytesPerInterval * (Second \div SendInterval)) <= SendBps
<1>1. PICK q \in Nat : q = Second \div SendInterval /\ Second = q * SendInterval /\ q > 0
  BY ThroughputAssumption
<1>2. PICK e \in Nat : e = SendBps \div 8 /\ 8 * e <= SendBps
  BY ConstantTypes
<1>3. PICK b \in Nat : b = e \div q /\ b * q <= e
  BY <1>1
<1>4. b = BytesPerInterval
  BY <1>1, <1>2, <1>3 DEF BytesPerInterval
<1>5. 8 * (b * q) <= SendBps
  <2>1. PICK p \in Nat : p = b * q
    OBVIOUS
  <2> QED
    BY <1>2, <1>3, <2>1, ConstantTypes
<1> QED
  BY <1>1, <1>4, <1>5

LEMMA BurstType == Burst \in Seq(1..MaxTransmit)
<1>1. PICK full \in Nat : full = BytesPerInterval \div MaxTransmit
  BY RateTypes, ConstantTypes
<1>2. PICK rest \in Nat : rest = BytesPerInterval % MaxTransmit /\ rest < MaxTransmit
  BY RateTypes, ConstantTypes
<1>3. [i \in 1..full |-> MaxTransmit] \in [1..full -> 1..MaxTransmit]
  BY ConstantTypes
<1>4. [i \in 1..full |-> MaxTransmit] \in Seq(1..MaxTransmit)
  BY <1>3, SeqDef
<1>5. (IF rest = 0 THEN <<>> ELSE <<rest>>) \in Seq(1..MaxTransmit)
  <2>1. rest # 0 => rest \in 1..MaxTransmit
    BY <1>2, ConstantTypes
  <2>2. \A r \in 1..MaxTransmit : <<r>> \in Seq(1..MaxTransmit)
    OBVIOUS
  <2>3. <<>> \in Seq(1..MaxTransmit)
    BY EmptySeq
  <2> QED
    BY <2>1, <2>2, <2>3
<1>6. Burst = [i \in 1..full |-> MaxTransmit] \o (IF rest = 0 THEN <<>> ELSE <<rest>>)
  BY <1>1, <1>2 DEF Burst
<1> QED
  BY <1>4, <1>5, <1>6, ConcatProperties

-----------------------------------------------------------------------------
(* The actions.                                                             *)

LEMMA Appended ==
  ASSUME NEW S, NEW s \in Seq(S), NEW e \in S
  PROVE  /\ Append(s, e) \in Seq(S) /\ Len(Append(s, e)) = Len(s) + 1
         /\ DOMAIN Append(s, e) = 1..(Len(s) + 1)
         /\ \A i \in 1..Len(s) : Append(s, e)[i] = s[i]
         /\ Append(s, e)[Len(s) + 1] = e
  BY AppendProperties, LenProperties

LEMMA ThroughputFacts ==
  ASSUME ThroughputInv
  PROVE  /\ TypeOK /\ Sends /\ Stages /\ Order /\ Counted /\ Smoothing
         /\ now \in Nat /\ now <= Duration /\ Duration \in Nat
         /\ Len(sent) \in Nat /\ DOMAIN sent = 1..Len(sent)
         /\ Len(inbound) \in Nat /\ DOMAIN inbound = 1..Len(inbound)
         /\ Len(wire) \in Nat /\ DOMAIN wire = 1..Len(wire)
         /\ Len(arrived) \in Nat /\ DOMAIN arrived = 1..Len(arrived)
         /\ Len(arrivals) \in Nat /\ DOMAIN arrivals = 1..Len(arrivals)
         /\ Len(window) \in Nat /\ DOMAIN window = 1..Len(window)
         /\ \A i \in 1..Len(arrivals) : arrivals[i] \in Arrival /\ arrivals[i].at \in Nat
<1>1. TypeOK /\ Sends /\ Stages /\ Order /\ Counted /\ Smoothing
  BY DEF ThroughputInv
<1>2. now \in Nat /\ now <= Duration /\ Duration \in Nat
  BY <1>1, ConstantTypes DEF TypeOK
<1>3. Len(sent) \in Nat /\ DOMAIN sent = 1..Len(sent)
  BY <1>1, LenProperties DEF TypeOK
<1>4. /\ Len(inbound) \in Nat /\ DOMAIN inbound = 1..Len(inbound)
      /\ Len(wire) \in Nat /\ DOMAIN wire = 1..Len(wire)
  BY <1>1, LenProperties DEF TypeOK
<1>5. /\ Len(arrived) \in Nat /\ DOMAIN arrived = 1..Len(arrived)
      /\ Len(window) \in Nat /\ DOMAIN window = 1..Len(window)
  BY <1>1, LenProperties DEF TypeOK
<1>6. /\ Len(arrivals) \in Nat /\ DOMAIN arrivals = 1..Len(arrivals)
      /\ \A i \in 1..Len(arrivals) : arrivals[i] \in Arrival
  BY <1>1, LenProperties, ElementOfSeq DEF TypeOK
<1>7. \A i \in 1..Len(arrivals) : arrivals[i].at \in Nat
  BY <1>6 DEF Arrival
<1> QED
  BY <1>1, <1>2, <1>3, <1>4, <1>5, <1>6, <1>7

\* Nothing that the driver's loop looks at changes.
LEMMA SmoothingFrame ==
  ASSUME Smoothing, UNCHANGED <<arrived, arrivals, window, windowBytes, peak>>,
         driver' \in {"smoothing", "returned"} => driver \in {"smoothing", "returned"}
  PROVE  Smoothing'
<1>1. \A k : Recent(k)' = Recent(k)
  BY DEF Recent
<1>2. \A n, m, a : Smoothed(n, m, a)' = Smoothed(n, m, a)
  BY <1>1 DEF Smoothed
<1> QED
  BY <1>2 DEF Smoothing

LEMMA InitThroughput == Init => ThroughputInv
<1> SUFFICES ASSUME Init PROVE ThroughputInv
  OBVIOUS
<1>1. \A S : <<>> \in Seq(S)
  BY EmptySeq
<1>2. TypeOK
  <2>1. wire \in Seq(1..MaxTransmit) /\ inbound \in Seq(1..MaxTransmit)
    BY <1>1 DEF Init
  <2>2. arrived \in Seq(Arrival) /\ arrivals \in Seq(Arrival) /\ window \in Seq(Arrival)
    BY <1>1 DEF Init
  <2>3. sent \in Seq([at: 0..Duration, bytes: Nat])
    BY <1>1 DEF Init
  <2>4. now \in 0..Duration /\ nextSend \in 0..(Duration + SendInterval)
    BY ConstantTypes DEF Init
  <2> QED
    BY <2>1, <2>2, <2>3, <2>4 DEF Init, TypeOK
<1>3. Sends
  BY ConstantTypes DEF Init, Sends
<1>4. Stages /\ Order /\ Counted /\ Smoothing
  BY DEF Init, Stages, Order, Counted, Smoothing, Running
<1> QED
  BY <1>2, <1>3, <1>4 DEF ThroughputInv

LEMMA SendBurstInv ==
  ASSUME ThroughputInv, SendBurst
  PROVE  ThroughputInv'
<1>1. /\ TypeOK /\ Sends /\ Stages /\ Order /\ Counted /\ Smoothing
      /\ now \in Nat /\ now <= Duration /\ Duration \in Nat
      /\ Len(sent) \in Nat /\ DOMAIN sent = 1..Len(sent)
  BY ThroughputFacts
<1>2. /\ now = nextSend /\ nextSend' = now + SendInterval
      /\ wire' = IF routed THEN wire \o Burst ELSE wire
      /\ UNCHANGED <<now, sender, server, driver, cancelled, inbound, arrivals, arrived, window,
                     windowBytes, peak, routed>>
  BY DEF SendBurst, peakVars
<1>3. PICK s \in [at: 0..Duration, bytes: Nat] :
        s.at = now /\ s.bytes = BytesPerInterval /\ sent' = Append(sent, s)
  <2>1. PICK s : s = [at |-> now, bytes |-> BytesPerInterval]
    OBVIOUS
  <2>2. s \in [at: 0..Duration, bytes: Nat] /\ s.at = now /\ s.bytes = BytesPerInterval
    BY <1>1, <2>1, RateTypes
  <2>3. sent' = Append(sent, s)
    BY <2>1 DEF SendBurst
  <2> QED
    BY <2>2, <2>3
<1>4. /\ sent' \in Seq([at: 0..Duration, bytes: Nat]) /\ Len(sent') = Len(sent) + 1
      /\ DOMAIN sent' = 1..(Len(sent) + 1)
      /\ \A i \in 1..Len(sent) : sent'[i] = sent[i]
      /\ sent'[Len(sent) + 1] = s
  <2>1. PICK S : S = [at: 0..Duration, bytes: Nat]
    OBVIOUS
  <2>2. sent \in Seq(S) /\ s \in S
    BY <1>1, <2>1 DEF TypeOK
  <2> QED
    BY <1>3, <2>1, <2>2, Appended
<1>5. wire' \in Seq(1..MaxTransmit)
  BY <1>1, <1>2, BurstType, ConcatProperties DEF TypeOK
<1>6. nextSend' \in 0..(Duration + SendInterval)
  BY <1>1, <1>2, ConstantTypes
<1>7. TypeOK'
  BY <1>1, <1>2, <1>4, <1>5, <1>6 DEF TypeOK
<1>8. Sends'
  <2>1. nextSend = Len(sent) * SendInterval
    BY <1>1 DEF Sends
  <2>2. nextSend' = (Len(sent) + 1) * SendInterval
    BY <1>1, <1>2, <2>1, ConstantTypes
  <2>3. s.at = ((Len(sent) + 1) - 1) * SendInterval
    BY <1>1, <1>2, <1>3, <2>1
  <2>4. \A i \in 1..Len(sent) : /\ sent'[i].at = (i - 1) * SendInterval
                                /\ sent'[i].bytes = BytesPerInterval
    BY <1>1, <1>4 DEF Sends
  <2>5. \A i \in 1..(Len(sent) + 1) : i \in 1..Len(sent) \/ i = Len(sent) + 1
    BY <1>1
  <2>6. \A i \in 1..(Len(sent) + 1) : /\ sent'[i].at = (i - 1) * SendInterval
                                      /\ sent'[i].bytes = BytesPerInterval
    BY <1>3, <1>4, <2>3, <2>4, <2>5
  <2>7. nextSend' = Len(sent') * SendInterval /\ DOMAIN sent' = 1..(Len(sent) + 1)
    BY <1>4, <2>2
  <2> QED
    BY <2>6, <2>7 DEF Sends, BytesPerInterval
<1>9. Stages' /\ Order' /\ Counted'
  BY <1>1, <1>2 DEF Stages, Order, Counted, Running
<1>10. Smoothing'
  BY <1>1, <1>2, SmoothingFrame
<1> QED
  BY <1>7, <1>8, <1>9, <1>10 DEF ThroughputInv

LEMMA SenderStopsInv ==
  ASSUME ThroughputInv, SenderEnds \/ SenderPanics
  PROVE  ThroughputInv'
<1>1. TypeOK /\ Sends /\ Stages /\ Order /\ Counted /\ Smoothing
  BY ThroughputFacts
<1>2. /\ sender' \in {"ended", "panicked"}
      /\ UNCHANGED <<now, nextSend, sent, server, driver, cancelled, wire, inbound, arrivals,
                     arrived, window, windowBytes, peak, routed>>
  BY DEF SenderEnds, SenderPanics, packetVars, peakVars
<1>3. TypeOK' /\ Sends' /\ Stages' /\ Order' /\ Counted'
  BY <1>1, <1>2 DEF TypeOK, Sends, Stages, Order, Counted, Running
<1>4. Smoothing'
  BY <1>1, <1>2, SmoothingFrame
<1> QED
  BY <1>3, <1>4 DEF ThroughputInv

LEMMA ServerTurnsInv ==
  ASSUME ThroughputInv, ServerEnds \/ ServerWaits
  PROVE  ThroughputInv'
<1>1. TypeOK /\ Sends /\ Stages /\ Order /\ Counted /\ Smoothing
  BY ThroughputFacts
<1>2. /\ server = "ready"
      /\ \/ server' = "ended" /\ cancelled
         \/ server' = "waiting" /\ inbound = <<>> /\ ~cancelled
      /\ UNCHANGED <<now, sender, nextSend, sent, driver, cancelled, wire, inbound, arrivals,
                     arrived, window, windowBytes, peak, routed>>
  BY DEF ServerEnds, ServerWaits, clientVars, packetVars, peakVars
<1>3. TypeOK' /\ Sends' /\ Stages' /\ Order' /\ Counted'
  BY <1>1, <1>2 DEF TypeOK, Sends, Stages, Order, Counted, Running
<1>4. Smoothing'
  BY <1>1, <1>2, SmoothingFrame
<1> QED
  BY <1>3, <1>4 DEF ThroughputInv

\* The clock moves only when the server waits, and then its socket is empty.
LEMMA TickInv ==
  ASSUME ThroughputInv, Tick
  PROVE  ThroughputInv'
<1>1. /\ TypeOK /\ Sends /\ Stages /\ Order /\ Counted /\ Smoothing
      /\ now \in Nat /\ Duration \in Nat /\ DOMAIN arrivals = 1..Len(arrivals)
      /\ \A i \in 1..Len(arrivals) : arrivals[i].at \in Nat
  BY ThroughputFacts
<1>2. /\ server # "ready" /\ now < Duration /\ now' = now + 1
      /\ UNCHANGED <<sender, nextSend, sent, server, driver, cancelled, wire, inbound, arrivals,
                     arrived, window, windowBytes, peak, routed>>
  BY DEF Tick, Idle, clientVars, packetVars, peakVars
<1>3. ~cancelled /\ server = "waiting"
  BY <1>1, <1>2 DEF Stages, TypeOK
<1>4. TypeOK' /\ Sends' /\ Stages'
  BY <1>1, <1>2, <1>3 DEF TypeOK, Sends, Stages
<1>5. Order'
  BY <1>1, <1>2 DEF Order
<1>6. Counted'
  <2>1. driver = "sleeping" /\ Running
    BY <1>1, <1>3 DEF Stages, Running
  <2>2. inbound = <<>>
    BY <1>1, <1>3, <2>1 DEF Counted
  <2> QED
    BY <1>1, <1>2, <2>1, <2>2 DEF Counted, Running
<1>7. Smoothing'
  BY <1>1, <1>2, SmoothingFrame
<1> QED
  BY <1>4, <1>5, <1>6, <1>7 DEF ThroughputInv

LEMMA ArriveInv ==
  ASSUME ThroughputInv, NEW i \in DOMAIN wire, Arrive(i)
  PROVE  ThroughputInv'
<1>1. /\ TypeOK /\ Sends /\ Stages /\ Order /\ Counted /\ Smoothing
      /\ now \in Nat /\ now \in 0..Duration /\ Duration \in Nat
      /\ Len(wire) \in Nat /\ DOMAIN wire = 1..Len(wire)
      /\ Len(inbound) \in Nat /\ DOMAIN inbound = 1..Len(inbound)
      /\ Len(arrived) \in Nat /\ DOMAIN arrived = 1..Len(arrived)
      /\ Len(arrivals) \in Nat /\ DOMAIN arrivals = 1..Len(arrivals)
      /\ \A j \in 1..Len(arrivals) : arrivals[j].at \in Nat
      /\ wire \in Seq(1..MaxTransmit) /\ inbound \in Seq(1..MaxTransmit) /\ arrivals \in Seq(Arrival)
  BY ThroughputFacts DEF TypeOK
<1>2. /\ Running /\ inbound' = Append(inbound, wire[i]) /\ wire' = RemoveAt(wire, i)
      /\ server' = IF server = "waiting" THEN "ready" ELSE server
      /\ UNCHANGED <<now, sender, nextSend, sent, driver, cancelled, arrived, window, windowBytes,
                     peak, routed>>
  BY DEF Arrive, Wake, clientVars, peakVars
<1>3. wire[i] \in 1..MaxTransmit /\ \A j \in 1..Len(wire) : wire[j] \in 1..MaxTransmit
  BY <1>1, ElementOfSeq
<1>4. PICK r \in Arrival : r = [at |-> now, bytes |-> wire[i]]
  BY <1>1, <1>3 DEF Arrival
<1>5. /\ arrivals' \in Seq(Arrival) /\ Len(arrivals') = Len(arrivals) + 1
      /\ DOMAIN arrivals' = 1..(Len(arrivals) + 1)
      /\ \A j \in 1..Len(arrivals) : arrivals'[j] = arrivals[j]
      /\ arrivals'[Len(arrivals) + 1] = r
  <2>1. arrivals' = Append(arrivals, r)
    BY <1>4 DEF Arrive
  <2> QED
    BY <1>1, <2>1, Appended
<1>6. /\ inbound' \in Seq(1..MaxTransmit) /\ Len(inbound') = Len(inbound) + 1
      /\ DOMAIN inbound' = 1..(Len(inbound) + 1)
      /\ \A j \in 1..Len(inbound) : inbound'[j] = inbound[j]
      /\ inbound'[Len(inbound) + 1] = wire[i]
  BY <1>1, <1>2, <1>3, Appended
<1>7. wire' \in Seq(1..MaxTransmit)
  <2>1. /\ i - 1 \in Int /\ i + 1 \in Int
        /\ \A j \in 1..(i - 1) : j \in 1..Len(wire)
        /\ \A j \in (i + 1)..Len(wire) : j \in 1..Len(wire)
    BY <1>1
  <2>2. \A j \in 1..(i - 1) : wire[j] \in 1..MaxTransmit
    BY <1>3, <2>1
  <2>3. \A j \in (i + 1)..Len(wire) : wire[j] \in 1..MaxTransmit
    BY <1>3, <2>1
  <2>4. SubSeq(wire, 1, i - 1) \in Seq(1..MaxTransmit)
    BY <2>1, <2>2, SubSeqProperties
  <2>5. SubSeq(wire, i + 1, Len(wire)) \in Seq(1..MaxTransmit)
    BY <1>1, <2>1, <2>3, SubSeqProperties
  <2> QED
    BY <1>2, <2>4, <2>5, ConcatProperties DEF RemoveAt
<1>8. TypeOK'
  BY <1>1, <1>2, <1>5, <1>6, <1>7 DEF TypeOK
<1>9. Sends' /\ Stages'
  BY <1>1, <1>2 DEF Sends, Stages, BytesPerInterval
<1>10. \A j \in 1..(Len(arrivals) + 1) : j \in 1..Len(arrivals) \/ j = Len(arrivals) + 1
  BY <1>1
<1>11. Order'
  <2>1. r.at = now
    BY <1>4
  <2>2. \A j \in 1..(Len(arrivals) + 1) : arrivals'[j].at <= now
    <3>1. \A j \in 1..Len(arrivals) : arrivals'[j].at <= now
      BY <1>1, <1>5 DEF Order
    <3> QED
      BY <1>1, <1>5, <1>10, <2>1, <3>1
  <2>3. \A j, k \in 1..(Len(arrivals) + 1) : j <= k => arrivals'[j].at <= arrivals'[k].at
    <3>1. \A j, k \in 1..Len(arrivals) : j <= k => arrivals'[j].at <= arrivals'[k].at
      BY <1>1, <1>5 DEF Order
    <3>2. \A j \in 1..(Len(arrivals) + 1) : arrivals'[j].at <= arrivals'[Len(arrivals) + 1].at
      BY <1>5, <2>1, <2>2
    <3>3. \A k \in 1..Len(arrivals) : ~(Len(arrivals) + 1 <= k)
      BY <1>1
    <3> QED
      BY <1>10, <3>1, <3>2, <3>3
  <2> QED
    BY <1>2, <1>5, <2>2, <2>3 DEF Order
<1>12. Counted'
  <2>1. /\ Len(arrived) + Len(inbound) = Len(arrivals)
        /\ \A j \in 1..Len(arrived) : arrived[j] = arrivals[j]
        /\ \A j \in 1..Len(inbound) : arrivals[Len(arrived) + j] = [at |-> now, bytes |-> inbound[j]]
        /\ window = <<>> /\ windowBytes = 0 /\ peak = 0
    BY <1>1, <1>2 DEF Counted
  <2>0. /\ Len(arrived) \in Nat /\ Len(inbound) \in Nat /\ Len(arrivals) \in Nat
        /\ Len(arrived) + Len(inbound) = Len(arrivals)
    BY <1>1, <2>1
  <2>2. \A j \in 1..Len(arrived) : arrived[j] = arrivals'[j]
    <3>1. \A j \in 1..Len(arrived) : j \in 1..Len(arrivals)
      BY <1>1, <2>1
    <3> QED
      BY <1>5, <2>1, <3>1
  <2>3. \A j \in 1..(Len(inbound) + 1) :
          arrivals'[Len(arrived) + j] = [at |-> now, bytes |-> inbound'[j]]
    <3>1. ASSUME NEW j \in 1..Len(inbound)
          PROVE  arrivals'[Len(arrived) + j] = [at |-> now, bytes |-> inbound'[j]]
      <4>1. Len(arrived) + j \in 1..Len(arrivals)
        BY <1>1, <2>1
      <4> QED
        BY <1>5, <1>6, <2>1, <4>1
    <3>2. arrivals'[Len(arrived) + (Len(inbound) + 1)] = [at |-> now, bytes |-> inbound'[Len(inbound) + 1]]
      <4>1. Len(arrived) + (Len(inbound) + 1) = Len(arrivals) + 1
        BY <2>0
      <4> QED
        BY <1>4, <1>5, <1>6, <4>1
    <3>3. \A j \in 1..(Len(inbound) + 1) : j \in 1..Len(inbound) \/ j = Len(inbound) + 1
      BY <1>1
    <3> QED
      BY <3>1, <3>2, <3>3
  <2>4. Len(arrived') + Len(inbound') = Len(arrivals')
    <3>1. /\ Len(arrived') = Len(arrived) /\ Len(inbound') = Len(inbound) + 1
          /\ Len(arrivals') = Len(arrivals) + 1
      BY <1>2, <1>5, <1>6
    <3> QED
      BY <2>0, <3>1
  <2>5. server' # "waiting"
    BY <1>2
  <2>6. DOMAIN arrived' = 1..Len(arrived) /\ DOMAIN inbound' = 1..(Len(inbound) + 1)
    BY <1>1, <1>2, <1>6
  <2>7. arrived' = arrived /\ now' = now /\ window' = <<>> /\ windowBytes' = 0 /\ peak' = 0
    BY <1>2, <2>1
  <2> QED
    BY <2>2, <2>3, <2>4, <2>5, <2>6, <2>7 DEF Counted
<1>13. Smoothing'
  BY <1>2 DEF Smoothing, Running
<1> QED
  BY <1>8, <1>9, <1>11, <1>12, <1>13 DEF ThroughputInv

LEMMA ServerReceivesInv ==
  ASSUME ThroughputInv, ServerReceives
  PROVE  ThroughputInv'
<1>1. /\ TypeOK /\ Sends /\ Stages /\ Order /\ Counted /\ Smoothing
      /\ now \in Nat /\ now \in 0..Duration
      /\ Len(inbound) \in Nat /\ DOMAIN inbound = 1..Len(inbound)
      /\ Len(arrived) \in Nat /\ DOMAIN arrived = 1..Len(arrived)
      /\ Len(arrivals) \in Nat
      /\ inbound \in Seq(1..MaxTransmit) /\ arrived \in Seq(Arrival)
  BY ThroughputFacts DEF TypeOK
<1>2. /\ server = "ready" /\ ~cancelled /\ inbound # <<>>
      /\ UNCHANGED <<now, sender, nextSend, sent, server, driver, cancelled, wire, arrivals, window,
                     windowBytes, peak, routed>>
  BY DEF ServerReceives, clientVars, peakVars
<1>3. Len(inbound) > 0
  BY <1>1, <1>2, EmptySeq
<1>4. PICK n \in 1..Len(inbound) : n = Min({BatchSize, Len(inbound)})
  <2>1. \E x \in {BatchSize, Len(inbound)} : \A y \in {BatchSize, Len(inbound)} : x =< y
    BY <1>1, ConstantTypes
  <2>2. /\ Min({BatchSize, Len(inbound)}) \in {BatchSize, Len(inbound)}
        /\ \A y \in {BatchSize, Len(inbound)} : Min({BatchSize, Len(inbound)}) =< y
    BY <2>1 DEF Min
  <2>3. Min({BatchSize, Len(inbound)}) \in 1..Len(inbound)
    BY <1>1, <1>3, <2>2, ConstantTypes
  <2> QED
    BY <2>3
<1>5. PICK batch : batch = [i \in 1..n |-> [at |-> now, bytes |-> inbound[i]]]
  OBVIOUS
<1>6. arrived' = arrived \o batch /\ inbound' = SubSeq(inbound, n + 1, Len(inbound))
  BY <1>4, <1>5 DEF ServerReceives
<1>7. \A i \in 1..Len(inbound) : inbound[i] \in 1..MaxTransmit
  BY <1>1, ElementOfSeq
<1>8. batch \in Seq(Arrival) /\ Len(batch) = n /\ \A i \in 1..n : batch[i] = [at |-> now, bytes |-> inbound[i]]
  <2>1. \A i \in 1..n : i \in 1..Len(inbound)
    BY <1>1
  <2>2. \A i \in 1..n : [at |-> now, bytes |-> inbound[i]] \in Arrival
    BY <1>1, <1>7, <2>1 DEF Arrival
  <2>3. batch \in [1..n -> Arrival]
    BY <1>5, <2>2
  <2>4. n \in Nat
    BY <1>1
  <2> QED
    BY <1>5, <2>3, <2>4, SeqDef, LenProperties
<1>9. /\ arrived' \in Seq(Arrival) /\ Len(arrived') = Len(arrived) + n
      /\ DOMAIN arrived' = 1..(Len(arrived) + n)
      /\ \A i \in 1..Len(arrived) : arrived'[i] = arrived[i]
      /\ \A i \in 1..n : arrived'[Len(arrived) + i] = [at |-> now, bytes |-> inbound[i]]
  <2>1. /\ arrived' \in Seq(Arrival) /\ Len(arrived') = Len(arrived) + n
        /\ \A i \in 1..(Len(arrived) + n) :
             arrived'[i] = IF i <= Len(arrived) THEN arrived[i] ELSE batch[i - Len(arrived)]
    BY <1>1, <1>6, <1>8, ConcatProperties
  <2>2. DOMAIN arrived' = 1..(Len(arrived) + n)
    BY <2>1, LenProperties
  <2>3. ASSUME NEW i \in 1..Len(arrived) PROVE arrived'[i] = arrived[i]
    <3>1. i \in 1..(Len(arrived) + n) /\ i <= Len(arrived)
      BY <1>1
    <3> QED
      BY <2>1, <3>1
  <2>4. ASSUME NEW i \in 1..n PROVE arrived'[Len(arrived) + i] = [at |-> now, bytes |-> inbound[i]]
    <3>1. PICK j \in 1..(Len(arrived) + n) : j = Len(arrived) + i
      BY <1>1
    <3>2. ~(j <= Len(arrived)) /\ j - Len(arrived) = i
      BY <1>1, <3>1
    <3>3. arrived'[j] = batch[i]
      BY <2>1, <3>1, <3>2
    <3> QED
      BY <1>8, <3>1, <3>3
  <2> QED
    BY <2>1, <2>2, <2>3, <2>4
<1>10. /\ inbound' \in Seq(1..MaxTransmit) /\ Len(inbound') = Len(inbound) - n
       /\ DOMAIN inbound' = 1..(Len(inbound) - n)
       /\ \A i \in 1..(Len(inbound) - n) : inbound'[i] = inbound[n + i]
  <2>1. PICK k \in Int : k = n + 1
    BY <1>1
  <2>2. \A i \in k..Len(inbound) : inbound[i] \in 1..MaxTransmit
    <3>1. \A i \in k..Len(inbound) : i \in 1..Len(inbound)
      BY <1>1, <2>1
    <3> QED
      BY <1>7, <3>1
  <2>3. Len(inbound) \in Int
    BY <1>1
  <2>4. /\ inbound' \in Seq(1..MaxTransmit)
        /\ Len(inbound') = IF k <= Len(inbound) THEN Len(inbound) - k + 1 ELSE 0
        /\ \A i \in 1..(Len(inbound) - k + 1) : inbound'[i] = inbound[k + i - 1]
    BY <1>6, <2>1, <2>2, <2>3, SubSeqProperties
  <2>5. Len(inbound') = Len(inbound) - n
    <3>1. k <= Len(inbound) => Len(inbound') = Len(inbound) - k + 1
      BY <2>4
    <3>2. ~(k <= Len(inbound)) => Len(inbound') = 0
      BY <2>4
    <3>3. Len(inbound) \in Nat /\ n \in 1..Len(inbound)
      BY <1>1
    <3> QED
      BY <2>1, <3>1, <3>2, <3>3
  <2>6. DOMAIN inbound' = 1..(Len(inbound) - n)
    BY <2>4, <2>5, LenProperties
  <2>7. Len(inbound) - k + 1 = Len(inbound) - n /\ \A i \in 1..(Len(inbound) - n) : k + i - 1 = n + i
    BY <1>1, <2>1
  <2> QED
    BY <2>4, <2>5, <2>6, <2>7
<1>11. TypeOK'
  BY <1>1, <1>2, <1>9, <1>10 DEF TypeOK
<1>12. Sends' /\ Stages' /\ Order'
  BY <1>1, <1>2 DEF Sends, Stages, Order, BytesPerInterval
<1>13. driver = "sleeping" /\ Running
  BY <1>1, <1>2 DEF Stages, Running
<1>14. Counted'
  <2>1. /\ Len(arrived) + Len(inbound) = Len(arrivals)
        /\ \A j \in 1..Len(arrived) : arrived[j] = arrivals[j]
        /\ \A j \in 1..Len(inbound) : arrivals[Len(arrived) + j] = [at |-> now, bytes |-> inbound[j]]
        /\ window = <<>> /\ windowBytes = 0 /\ peak = 0
    BY <1>1, <1>13 DEF Counted
  <2>2. Len(arrived') + Len(inbound') = Len(arrivals')
    <3>1. Len(arrivals') = Len(arrivals)
      BY <1>2
    <3> QED
      BY <1>1, <1>9, <1>10, <2>1, <3>1
  <2>3. ASSUME NEW j \in 1..(Len(arrived) + n) PROVE arrived'[j] = arrivals[j]
    <3>1. CASE j \in 1..Len(arrived)
      BY <1>9, <2>1, <3>1
    <3>2. CASE j \notin 1..Len(arrived)
      <4>1. PICK i \in 1..n : j = Len(arrived) + i
        <5>1. j - Len(arrived) \in 1..n /\ j = Len(arrived) + (j - Len(arrived))
          BY <1>1, <3>2
        <5> QED
          BY <5>1
      <4>2. i \in 1..Len(inbound)
        BY <1>1
      <4> QED
        BY <1>9, <2>1, <4>1, <4>2
    <3> QED
      BY <3>1, <3>2
  <2>4. ASSUME NEW j \in 1..(Len(inbound) - n)
        PROVE  arrivals[Len(arrived') + j] = [at |-> now, bytes |-> inbound'[j]]
    <3>1. PICK i \in 1..Len(inbound) : i = n + j
      BY <1>1
    <3>2. Len(arrived') + j = Len(arrived) + i
      BY <1>1, <1>9, <3>1
    <3> QED
      BY <1>10, <2>1, <3>1, <3>2
  <2>5. server' # "waiting" /\ arrivals' = arrivals /\ now' = now /\ window' = <<>>
        /\ windowBytes' = 0 /\ peak' = 0
    BY <1>2, <2>1
  <2> QED
    BY <1>9, <1>10, <2>2, <2>3, <2>4, <2>5 DEF Counted
<1>15. Smoothing'
  BY <1>2, <1>13 DEF Smoothing, Running
<1> QED
  BY <1>11, <1>12, <1>14, <1>15 DEF ThroughputInv

LEMMA CancelInv ==
  ASSUME ThroughputInv, Cancel
  PROVE  ThroughputInv'
<1>1. TypeOK /\ Sends /\ Stages /\ Order /\ Counted /\ Smoothing
  BY ThroughputFacts
<1>2. /\ driver = "sleeping" /\ now = Duration /\ cancelled' = TRUE /\ driver' = "joining"
      /\ server' = IF server = "waiting" THEN "ready" ELSE server
      /\ UNCHANGED <<now, sender, nextSend, sent, wire, inbound, arrivals, arrived, window,
                     windowBytes, peak, routed>>
  BY DEF Cancel, Wake, clientVars, packetVars, peakVars
<1>3. TypeOK' /\ Sends' /\ Stages' /\ Order'
  BY <1>1, <1>2 DEF TypeOK, Sends, Stages, Order
<1>4. Counted' /\ Smoothing'
  BY <1>1, <1>2 DEF Counted, Smoothing, Running
<1> QED
  BY <1>3, <1>4 DEF ThroughputInv

\* The server's list is complete but for packets of the last instant.
LEMMA JoinInv ==
  ASSUME ThroughputInv, Join
  PROVE  ThroughputInv'
<1>1. /\ TypeOK /\ Sends /\ Stages /\ Order /\ Counted
      /\ Len(arrived) \in Nat /\ Len(arrivals) \in Nat /\ Len(inbound) \in Nat
      /\ DOMAIN arrived = 1..Len(arrived) /\ DOMAIN inbound = 1..Len(inbound)
  BY ThroughputFacts
<1>2. /\ driver = "joining" /\ driver' = "smoothing" /\ server = "ended"
      /\ UNCHANGED <<now, sender, nextSend, sent, server, cancelled, wire, inbound, arrivals,
                     arrived, window, windowBytes, peak, routed>>
  BY DEF Join, clientVars, packetVars, peakVars
<1>3. TypeOK' /\ Sends' /\ Stages' /\ Order'
  BY <1>1, <1>2 DEF TypeOK, Sends, Stages, Order
<1>4. Counted'
  BY <1>2 DEF Counted, Running
<1>5. /\ Len(arrived) + Len(inbound) = Len(arrivals)
      /\ \A i \in 1..Len(arrived) : arrived[i] = arrivals[i]
      /\ \A i \in 1..Len(inbound) : arrivals[Len(arrived) + i] = [at |-> now, bytes |-> inbound[i]]
      /\ window = <<>> /\ windowBytes = 0 /\ peak = 0 /\ now = Duration
  BY <1>1, <1>2 DEF Counted, Running, Stages
<1>6. \A i \in (Len(arrived) + 1)..Len(arrivals) : arrivals[i].at = Duration
  <2>1. ASSUME NEW i \in (Len(arrived) + 1)..Len(arrivals) PROVE arrivals[i].at = Duration
    <3>1. PICK j \in 1..Len(inbound) : i = Len(arrived) + j
      <4>1. i - Len(arrived) \in 1..Len(inbound) /\ i = Len(arrived) + (i - Len(arrived))
        BY <1>1, <1>5
      <4> QED
        BY <4>1
    <3>2. arrivals[i] = [at |-> now, bytes |-> inbound[j]]
      BY <1>5, <3>1
    <3>3. arrivals[i].at = now
      BY <3>2
    <3> QED
      BY <1>5, <3>3
  <2> QED
    BY <2>1
<1>7. Smoothed(Len(arrived), 0, 0)'
  <2>1. (0 + 1)..0 = {} /\ 1..0 = {}
    OBVIOUS
  <2>2. SumBytes((0 + 1)..0, arrivals) = 0
    BY <2>1, SumEmpty
  <2>3. Len(window) = 0 /\ DOMAIN window = {}
    BY <1>5
  <2>4. \A i \in 1..Len(arrived) : arrived[i] = arrivals[0 + i]
    BY <1>1, <1>5
  <2>5. 0 <= 0 /\ Len(arrived) = 0 + Len(arrived) /\ 0 = 0 + Len(window)
    BY <1>1, <2>3
  <2>6. Smoothed(Len(arrived), 0, 0)
    BY <1>1, <1>5, <1>6, <2>1, <2>2, <2>3, <2>4, <2>5 DEF Smoothed
  <2>7. \A k : Recent(k)' = Recent(k)
    BY <1>2 DEF Recent
  <2> QED
    BY <1>2, <2>6, <2>7 DEF Smoothed
<1>8. Smoothing'
  <2>1. Len(arrived') \in 0..Len(arrivals') /\ 0 \in 0..Len(arrivals')
    BY <1>1, <1>2, <1>5
  <2> QED
    BY <1>7, <2>1 DEF Smoothing
<1> QED
  BY <1>3, <1>4, <1>8 DEF ThroughputInv

LEMMA ReturnInv ==
  ASSUME ThroughputInv, Return
  PROVE  ThroughputInv'
<1>1. TypeOK /\ Sends /\ Stages /\ Order /\ Counted /\ Smoothing
  BY ThroughputFacts
<1>2. /\ driver = "smoothing" /\ driver' = "returned" /\ arrived = <<>>
      /\ UNCHANGED <<now, sender, nextSend, sent, server, cancelled, wire, inbound, arrivals,
                     arrived, window, windowBytes, peak, routed>>
  BY DEF Return, clientVars, packetVars, peakVars
<1>3. TypeOK' /\ Sends' /\ Stages' /\ Order'
  BY <1>1, <1>2 DEF TypeOK, Sends, Stages, Order
<1>4. Counted'
  BY <1>2 DEF Counted, Running
<1>5. Smoothing'
  BY <1>1, <1>2, SmoothingFrame
<1> QED
  BY <1>3, <1>4, <1>5 DEF ThroughputInv

-----------------------------------------------------------------------------
(* The sliding window.                                                      *)

LEMMA ArrivalsSized ==
  ASSUME ThroughputInv, NEW S, S \subseteq 1..Len(arrivals)
  PROVE  Sized(S, arrivals) /\ SumBytes(S, arrivals) \in Nat
<1>1. Len(arrivals) \in Nat /\ \A i \in 1..Len(arrivals) : arrivals[i] \in Arrival
  BY ThroughputFacts
<1>2. IsFiniteSet(1..Len(arrivals))
  BY <1>1, FS_Interval
<1>3. IsFiniteSet(S)
  BY <1>2, FS_Subset
<1>4. \A i \in S : arrivals[i].bytes \in 1..MaxTransmit
  BY <1>1 DEF Arrival
<1>5. Sized(S, arrivals)
  BY <1>3, <1>4 DEF Sized
<1> QED
  BY <1>5, SumType

LEMMA RateFacts ==
  /\ \A b \in Nat : Rate(b) \in Nat /\ b * 8 * (Second \div Window) = Rate(b)
  /\ \A b, c \in Nat : b <= c => Rate(b) <= Rate(c)
  /\ Rate(0) = 0
<1>1. PICK q \in Nat : q = Second \div Window
  BY ConstantTypes
<1>2. \A b \in Nat : Rate(b) = 8 * q * b /\ b * 8 * (Second \div Window) = b * 8 * q
  BY <1>1 DEF Rate
<1>3. ASSUME NEW b \in Nat PROVE 8 * q * b \in Nat /\ b * 8 * q = 8 * q * b
  OBVIOUS
<1>4. ASSUME NEW b \in Nat, NEW c \in Nat, b <= c PROVE 8 * q * b <= 8 * q * c
  <2>1. PICK d \in Nat : c = b + d
    <3>1. c - b \in Nat /\ c = b + (c - b)
      BY <1>4
    <3> QED
      BY <3>1
  <2>2. 8 * q * c = 8 * q * b + 8 * q * d
    BY <2>1
  <2>3. 8 * q * b \in Nat /\ 8 * q * d \in Nat
    BY <1>3
  <2> QED
    BY <2>2, <2>3
<1>5. 8 * q * 0 = 0
  OBVIOUS
<1> QED
  BY <1>2, <1>3, <1>4, <1>5

\* What one turn of the loop makes of the window: its expired packets are a
\* prefix, and what is left and the new packet follow each other in the history.
LEMMA WindowSlides ==
  ASSUME ThroughputInv, Smooth, NEW n \in 0..Len(arrivals), NEW m \in 0..Len(arrivals),
         NEW a \in 0..Len(arrivals), Smoothed(n, m, a)
  PROVE  \E g \in Nat :
           /\ a + g <= m /\ m + 1 <= n
           /\ Head(arrived) = arrivals[m + 1]
           /\ Expired(Head(arrived).at) = 1..g /\ Cardinality(Expired(Head(arrived).at)) = g
           /\ g <= Len(window) /\ Len(window) = m - a
           /\ \A i \in 1..(a + g) : arrivals[i].at + Window < arrivals[m + 1].at
           /\ \A i \in (a + g + 1)..(m + 1) : arrivals[i].at + Window >= arrivals[m + 1].at
<1>1. /\ Order /\ Len(arrivals) \in Nat /\ DOMAIN arrivals = 1..Len(arrivals)
      /\ Len(arrived) \in Nat /\ DOMAIN arrived = 1..Len(arrived)
      /\ Len(window) \in Nat /\ DOMAIN window = 1..Len(window)
      /\ \A i \in 1..Len(arrivals) : arrivals[i].at \in Nat
      /\ arrived \in Seq(Arrival)
  BY ThroughputFacts DEF TypeOK
<1>2. arrived # <<>> /\ Len(arrived) >= 1
  BY <1>1, EmptySeq DEF Smooth
<1>3. n \in Nat /\ m \in Nat /\ a \in Nat /\ a <= m /\ n = m + Len(arrived) /\ m = a + Len(window)
  BY <1>1 DEF Smoothed
<1>4. m + 1 <= n /\ m + 1 \in 1..Len(arrivals) /\ Len(window) = m - a
  BY <1>1, <1>2, <1>3
<1>5. Head(arrived) = arrivals[m + 1]
  <2>1. Head(arrived) = arrived[1]
    BY <1>1, <1>2
  <2>2. arrived[1] = arrivals[m + 1]
    BY <1>1, <1>2 DEF Smoothed
  <2> QED
    BY <2>1, <2>2
<1>6. PICK t \in Nat : t = Head(arrived).at /\ t = arrivals[m + 1].at
  BY <1>1, <1>4, <1>5
<1>7. \A i \in 1..Len(window) : window[i] = arrivals[a + i] /\ a + i \in 1..Len(arrivals)
  <2>1. \A i \in 1..Len(window) : window[i] = arrivals[a + i]
    BY <1>1 DEF Smoothed
  <2>2. ASSUME NEW i \in 1..Len(window) PROVE a + i \in 1..Len(arrivals)
    <3>1. a \in Nat /\ m \in 0..Len(arrivals) /\ m = a + Len(window)
      BY <1>3
    <3> QED
      BY <1>1, <3>1
  <2> QED
    BY <2>1, <2>2
<1>8. /\ Expired(t) \subseteq 1..Len(window)
      /\ \A i \in 1..Len(window) : i \in Expired(t) <=> \A j \in 1..i : window[j].at + Window < t
  BY <1>1 DEF Expired
<1>9. \A i \in Expired(t) : \A j \in 1..i : j \in Expired(t)
  BY <1>1, <1>8
<1>10. PICK g \in 0..Len(window) : Expired(t) = 1..g /\ Cardinality(Expired(t)) = g
  <2>1. PICK T : T = Expired(t)
    OBVIOUS
  <2>2. T \subseteq 1..Len(window) /\ \A i \in T : \A j \in 1..i : j \in T
    BY <1>8, <1>9, <2>1
  <2>3. PICK g \in 0..Len(window) : T = 1..g /\ Cardinality(T) = g
    BY <1>1, <2>2, PrefixSet
  <2> QED
    BY <2>1, <2>3
<1>11. g \in Nat /\ a + g <= m /\ g <= Len(window)
  BY <1>1, <1>3
<1>12. ASSUME NEW i \in 1..(a + g) PROVE arrivals[i].at + Window < arrivals[m + 1].at
  <2>1. CASE i <= a
    <3>1. i \in 1..a /\ m \in 1..Len(arrivals) /\ i \in 1..Len(arrivals)
      BY <1>3, <2>1
    <3>2. arrivals[i].at + Window < arrivals[m].at
      BY <3>1 DEF Smoothed
    <3>3. arrivals[m].at <= arrivals[m + 1].at
      <4>1. m \in DOMAIN arrivals /\ m + 1 \in DOMAIN arrivals /\ m <= m + 1
        BY <1>1, <1>3, <1>4, <3>1
      <4>2. Order
        BY <1>1
      <4> QED
        BY <4>1, <4>2 DEF Order
    <3>4. arrivals[i].at \in Nat /\ arrivals[m].at \in Nat /\ arrivals[m + 1].at \in Nat
      BY <1>1, <1>4, <3>1
    <3>5. PICK x \in Nat : x = arrivals[i].at
      BY <3>4
    <3>6. PICK y \in Nat : y = arrivals[m].at
      BY <3>4
    <3>7. PICK z \in Nat : z = arrivals[m + 1].at
      BY <3>4
    <3>8. x + Window < y /\ y <= z
      BY <3>2, <3>3, <3>5, <3>6, <3>7
    <3>9. x + Window < z
      BY <3>8, ConstantTypes
    <3> QED
      BY <3>5, <3>7, <3>9
  <2>2. CASE ~(i <= a)
    <3>1. PICK j \in 1..g : i = a + j
      <4>1. i - a \in 1..g /\ i = a + (i - a)
        BY <1>3, <1>11, <2>2
      <4> QED
        BY <4>1
    <3>2. j \in 1..Len(window) /\ j \in Expired(t) /\ j \in 1..j
      BY <1>10, <1>11
    <3>3. window[j].at + Window < t
      BY <1>8, <3>2
    <3> QED
      BY <1>6, <1>7, <3>1, <3>2, <3>3
  <2> QED
    BY <2>1, <2>2
<1>13. ASSUME NEW i \in (a + g + 1)..(m + 1) PROVE arrivals[i].at + Window >= arrivals[m + 1].at
  <2>1. i \in 1..Len(arrivals) /\ arrivals[i].at \in Nat /\ arrivals[m + 1].at \in Nat
    BY <1>1, <1>3, <1>4, <1>11
  <2>2. CASE i = m + 1
    BY <2>1, <2>2, ConstantTypes
  <2>3. CASE i # m + 1
    <3>1. PICK j \in 1..Len(window) : i = a + j /\ j > g
      <4>1. i - a \in 1..Len(window) /\ i = a + (i - a) /\ i - a > g
        BY <1>3, <1>4, <1>11, <2>3
      <4> QED
        BY <4>1
    <3>2. j \notin Expired(t)
      BY <1>10, <1>11, <3>1
    <3>3. PICK k \in 1..j : ~(window[k].at + Window < t)
      BY <1>8, <3>2
    <3>4. k \in 1..Len(window) /\ k <= j
      BY <1>1
    <3>5. /\ window[k] = arrivals[a + k] /\ a + k \in 1..Len(arrivals) /\ a + k <= i
          /\ arrivals[a + k].at \in Nat
      BY <1>1, <1>3, <1>7, <3>1, <3>4
    <3>6. arrivals[a + k].at <= arrivals[i].at
      BY <1>1, <2>1, <3>5 DEF Order
    <3>7. ~(arrivals[a + k].at + Window < t)
      BY <3>3, <3>5
    <3>8. PICK x \in Nat : x = arrivals[a + k].at
      BY <3>5
    <3>9. PICK y \in Nat : y = arrivals[i].at
      BY <2>1
    <3>10. x <= y /\ ~(x + Window < t)
      BY <3>6, <3>7, <3>8, <3>9
    <3>11. y + Window >= t
      BY <3>10, ConstantTypes
    <3> QED
      BY <1>6, <3>9, <3>11
  <2> QED
    BY <2>2, <2>3
<1> QED
  BY <1>4, <1>5, <1>6, <1>10, <1>11, <1>12, <1>13

\* The sequence s without its first g entries, of which l stay, and with p at
\* its end.
Slid(w, l, s, g, p) ==
  /\ w = Append(SubSeq(s, g + 1, Len(s)), p) /\ l = Len(s) - g
  /\ Len(w) = l + 1 /\ DOMAIN w = 1..(l + 1)
  /\ \A i \in 1..l : w[i] = s[g + i]
  /\ w[l + 1] = p

LEMMA SlideSeq ==
  ASSUME NEW S, NEW s \in Seq(S), NEW g \in Nat, g <= Len(s), NEW p \in S
  PROVE  \E w \in Seq(S) : \E l \in Nat : Slid(w, l, s, g, p)
<1>1. PICK n \in Nat : n = Len(s)
  BY LenProperties
<1>2. PICK l \in Nat : l = n - g
  <2>1. g <= n
    BY <1>1
  <2>2. n - g \in Nat
    BY <2>1
  <2> QED
    BY <2>2
<1>3. PICK k \in Int : k = g + 1
  OBVIOUS
<1>4. \A i \in k..n : s[i] \in S
  <2>1. \A i \in k..n : i \in 1..n
    BY <1>3
  <2> QED
    BY <1>1, <2>1, ElementOfSeq
<1>5. PICK r : r = SubSeq(s, k, n)
  OBVIOUS
<1>6. /\ r \in Seq(S)
      /\ Len(r) = IF k <= n THEN n - k + 1 ELSE 0
      /\ \A i \in 1..(n - k + 1) : r[i] = s[k + i - 1]
  BY <1>4, <1>5, SubSeqProperties
<1>7. n - k + 1 = l /\ (~(k <= n) => l = 0) /\ \A i \in 1..l : k + i - 1 = g + i
  BY <1>1, <1>2, <1>3
<1>8. Len(r) = l
  BY <1>6, <1>7
<1>9. \A i \in 1..l : r[i] = s[g + i]
  BY <1>6, <1>7
<1>10. /\ Append(r, p) \in Seq(S) /\ Len(Append(r, p)) = l + 1 /\ DOMAIN Append(r, p) = 1..(l + 1)
       /\ \A i \in 1..l : Append(r, p)[i] = r[i]
       /\ Append(r, p)[l + 1] = p
  BY <1>6, <1>8, Appended
<1>11. PICK w \in Seq(S) : w = Append(r, p)
  BY <1>10
<1>12. /\ Len(w) = l + 1 /\ DOMAIN w = 1..(l + 1) /\ w[l + 1] = p
       /\ \A i \in 1..l : w[i] = s[g + i]
  BY <1>9, <1>10, <1>11
<1>13. w = Append(SubSeq(s, g + 1, Len(s)), p) /\ l = Len(s) - g
  BY <1>1, <1>2, <1>3, <1>5, <1>11
<1> QED
  BY <1>12, <1>13 DEF Slid

\* The next window as a piece of the history.
IsNext(w, m, a, g) ==
  /\ w = Append(SubSeq(window, g + 1, Len(window)), arrivals[m + 1])
  /\ m + 1 = (a + g) + Len(w)
  /\ \A i \in DOMAIN w : w[i] = arrivals[(a + g) + i]

LEMMA NextWindow ==
  ASSUME ThroughputInv, NEW n \in 0..Len(arrivals), NEW m \in 0..Len(arrivals),
         NEW a \in 0..Len(arrivals), Smoothed(n, m, a), NEW g \in Nat, g <= Len(window),
         m + 1 <= n
  PROVE  \E w \in Seq(Arrival) : IsNext(w, m, a, g)
<1>1. /\ Len(arrivals) \in Nat /\ Len(window) \in Nat /\ DOMAIN window = 1..Len(window)
      /\ \A i \in 1..Len(arrivals) : arrivals[i] \in Arrival
      /\ window \in Seq(Arrival)
  BY ThroughputFacts DEF TypeOK
<1>2. m \in Nat /\ a \in Nat /\ n \in Nat /\ n <= Len(arrivals) /\ m = a + Len(window)
  BY <1>1 DEF Smoothed
<1>3. PICK p \in Arrival : p = arrivals[m + 1]
  BY <1>1, <1>2
<1>4. PICK w \in Seq(Arrival) : \E l \in Nat : Slid(w, l, window, g, p)
  BY <1>1, SlideSeq
<1>14. PICK l \in Nat : Slid(w, l, window, g, p)
  BY <1>4
<1>5. /\ l = Len(window) - g /\ Len(w) = l + 1 /\ DOMAIN w = 1..(l + 1)
      /\ \A i \in 1..l : w[i] = window[g + i]
      /\ w[l + 1] = p
  BY <1>14 DEF Slid
<1>6. m = a + (g + l)
  <2>1. PICK k \in Nat : k = Len(window)
    BY <1>1
  <2>2. l = k - g /\ m = a + k
    BY <1>2, <1>5, <2>1
  <2> QED
    BY <1>2, <2>2
<1>7. ASSUME NEW i \in 1..l PROVE w[i] = arrivals[(a + g) + i]
  <2>1. g + i \in 1..Len(window)
    <3>1. PICK k \in Nat : k = Len(window)
      BY <1>1
    <3>2. l = k - g
      BY <1>5, <3>1
    <3>3. g + i \in 1..k
      BY <3>2
    <3> QED
      BY <3>1, <3>3
  <2>2. window[g + i] = arrivals[a + (g + i)]
    BY <1>1, <2>1 DEF Smoothed
  <2>3. a + (g + i) = (a + g) + i
    BY <1>2
  <2> QED
    BY <1>5, <2>2, <2>3
<1>8. (a + g) + (l + 1) = m + 1
  BY <1>2, <1>6
<1>9. \A i \in 1..(l + 1) : i \in 1..l \/ i = l + 1
  OBVIOUS
<1>10. \A i \in 1..(l + 1) : w[i] = arrivals[(a + g) + i]
  BY <1>3, <1>5, <1>7, <1>8, <1>9
<1>11. w = Append(SubSeq(window, g + 1, Len(window)), arrivals[m + 1])
  BY <1>3, <1>14 DEF Slid
<1>12. m + 1 = (a + g) + Len(w) /\ \A i \in DOMAIN w : w[i] = arrivals[(a + g) + i]
  BY <1>5, <1>8, <1>10
<1> QED
  BY <1>11, <1>12 DEF IsNext

\* The bytes that leave and the bytes that come.
LEMMA NextBytes ==
  ASSUME ThroughputInv, NEW n \in 0..Len(arrivals), NEW m \in 0..Len(arrivals),
         NEW a \in 0..Len(arrivals), Smoothed(n, m, a), NEW g \in Nat, g <= Len(window),
         m + 1 <= n
  PROVE  /\ (windowBytes - SumBytes(1..g, window)) + arrivals[m + 1].bytes
              = SumBytes((a + g + 1)..(m + 1), arrivals)
         /\ SumBytes((a + g + 1)..(m + 1), arrivals) \in Nat
<1>1. /\ Len(arrivals) \in Nat /\ Len(window) \in Nat /\ DOMAIN window = 1..Len(window)
      /\ \A i \in 1..Len(arrivals) : arrivals[i] \in Arrival
      /\ windowBytes \in Nat
  BY ThroughputFacts DEF TypeOK
<1>2. /\ m \in Nat /\ a \in Nat /\ n \in Nat /\ n <= Len(arrivals) /\ m = a + Len(window)
      /\ windowBytes = SumBytes((a + 1)..m, arrivals)
  BY <1>1 DEF Smoothed
<1>3. a + g <= m /\ m + 1 \in 1..Len(arrivals)
  BY <1>1, <1>2
<1> DEFINE Left == (a + 1)..(a + g)
           Kept == (a + g + 1)..m
<1>4. /\ Left \subseteq 1..Len(arrivals) /\ Kept \subseteq 1..Len(arrivals)
      /\ {m + 1} \subseteq 1..Len(arrivals)
      /\ (a + g + 1)..(m + 1) \subseteq 1..Len(arrivals)
  BY <1>1, <1>2, <1>3
<1>5. /\ Left \cup Kept = (a + 1)..m /\ Left \cap Kept = {}
      /\ Kept \cup {m + 1} = (a + g + 1)..(m + 1) /\ Kept \cap {m + 1} = {}
  <2>1. Left \cup Kept = (a + 1)..m
    BY <1>2, <1>3
  <2>2. Left \cap Kept = {}
    BY <1>2, <1>3
  <2>3. Kept \cup {m + 1} = (a + g + 1)..(m + 1)
    BY <1>2, <1>3
  <2>4. Kept \cap {m + 1} = {}
    BY <1>2, <1>3
  <2> QED
    BY <2>1, <2>2, <2>3, <2>4
<1>6. /\ Sized(Left, arrivals) /\ Sized(Kept, arrivals) /\ Sized({m + 1}, arrivals)
      /\ SumBytes(Left, arrivals) \in Nat /\ SumBytes(Kept, arrivals) \in Nat
      /\ SumBytes((a + g + 1)..(m + 1), arrivals) \in Nat
  BY <1>4, ArrivalsSized
<1>7. SumBytes((a + 1)..m, arrivals) = SumBytes(Left, arrivals) + SumBytes(Kept, arrivals)
  <2>1. SumBytes(Left \cup Kept, arrivals) = SumBytes(Left, arrivals) + SumBytes(Kept, arrivals)
    <3> HIDE DEF Left, Kept
    <3> QED
      BY <1>5, <1>6, SumDisjoint
  <2> QED
    BY <1>5, <2>1
<1>8. SumBytes((a + g + 1)..(m + 1), arrivals) = SumBytes(Kept, arrivals) + SumBytes({m + 1}, arrivals)
  <2>1. SumBytes(Kept \cup {m + 1}, arrivals) = SumBytes(Kept, arrivals) + SumBytes({m + 1}, arrivals)
    <3> HIDE DEF Kept
    <3>1. PICK T : T = {m + 1}
      OBVIOUS
    <3>2. Sized(Kept, arrivals) /\ Sized(T, arrivals) /\ Kept \cap T = {}
      BY <1>5, <1>6, <3>1
    <3>3. SumBytes(Kept \cup T, arrivals) = SumBytes(Kept, arrivals) + SumBytes(T, arrivals)
      BY <3>2, SumDisjoint
    <3> QED
      BY <3>1, <3>3
  <2> QED
    BY <1>5, <2>1
<1>9. arrivals[m + 1].bytes \in Nat
  BY <1>1, <1>3 DEF Arrival
<1>10. SumBytes({m + 1}, arrivals) = arrivals[m + 1].bytes
  BY <1>9, SumSingle
<1>11. SumBytes(1..g, window) = SumBytes(Left, arrivals)
  <2>1. \A i \in 1..g : i \in 1..Len(window) /\ a + i \in 1..Len(arrivals)
    BY <1>1, <1>2, <1>3
  <2>2. \A i \in 1..g : window[i] = arrivals[a + i]
    BY <1>1, <2>1 DEF Smoothed
  <2>3. IsFiniteSet(1..g)
    BY FS_Interval
  <2>4. \A i \in 1..g : window[i].bytes \in 1..MaxTransmit
    BY <1>1, <2>1, <2>2 DEF Arrival
  <2>5. Sized(1..g, window)
    BY <2>3, <2>4 DEF Sized
  <2> QED
    BY <1>2, <2>2, <2>5, SumShift
<1> HIDE DEF Left, Kept
<1>12. windowBytes - SumBytes(1..g, window) = SumBytes(Kept, arrivals)
  BY <1>2, <1>6, <1>7, <1>11
<1> QED
  BY <1>6, <1>8, <1>9, <1>10, <1>12

LEMMA SmoothInv ==
  ASSUME ThroughputInv, Smooth
  PROVE  ThroughputInv'
<1>1. /\ TypeOK /\ Sends /\ Stages /\ Order /\ Counted /\ Smoothing
      /\ Len(arrivals) \in Nat /\ DOMAIN arrivals = 1..Len(arrivals)
      /\ Len(arrived) \in Nat /\ DOMAIN arrived = 1..Len(arrived)
      /\ Len(window) \in Nat /\ arrived \in Seq(Arrival) /\ peak \in Nat
      /\ \A i \in 1..Len(arrivals) : arrivals[i].at \in Nat
  BY ThroughputFacts DEF TypeOK
<1>2. /\ driver = "smoothing" /\ arrived # <<>> /\ arrived' = Tail(arrived)
      /\ UNCHANGED <<now, sender, nextSend, sent, server, driver, cancelled, wire, inbound,
                     arrivals, routed>>
  BY DEF Smooth, clientVars, packetVars
<1>3. PICK n \in 0..Len(arrivals), m \in 0..Len(arrivals), a \in 0..Len(arrivals) : Smoothed(n, m, a)
  BY <1>1, <1>2 DEF Smoothing
<1>4. PICK g \in Nat :
        /\ a + g <= m /\ m + 1 <= n
        /\ Head(arrived) = arrivals[m + 1]
        /\ Expired(Head(arrived).at) = 1..g /\ Cardinality(Expired(Head(arrived).at)) = g
        /\ g <= Len(window) /\ Len(window) = m - a
        /\ \A i \in 1..(a + g) : arrivals[i].at + Window < arrivals[m + 1].at
        /\ \A i \in (a + g + 1)..(m + 1) : arrivals[i].at + Window >= arrivals[m + 1].at
  BY <1>3, WindowSlides
<1>5. PICK b \in Nat : b = SumBytes((a + g + 1)..(m + 1), arrivals)
  BY <1>3, <1>4, NextBytes
<1>6. windowBytes' = b
  <2>1. windowBytes' = (windowBytes - SumBytes(1..g, window)) + arrivals[m + 1].bytes
    BY <1>4 DEF Smooth
  <2> QED
    BY <1>3, <1>4, <1>5, <2>1, NextBytes
<1>7. /\ window' \in Seq(Arrival) /\ m + 1 = (a + g) + Len(window')
      /\ \A i \in DOMAIN window' : window'[i] = arrivals[(a + g) + i]
  <2>1. window' = Append(SubSeq(window, g + 1, Len(window)), arrivals[m + 1])
    BY <1>4 DEF Smooth
  <2>2. PICK w \in Seq(Arrival) : IsNext(w, m, a, g)
    <3>1. g \in Nat /\ g <= Len(window) /\ m + 1 <= n
      BY <1>4
    <3> QED
      BY <1>3, <3>1, NextWindow
  <2>3. window' = w
    BY <2>1, <2>2, Zenon DEF IsNext
  <2> QED
    BY <2>2, <2>3 DEF IsNext
<1>8. /\ arrived' \in Seq(Arrival) /\ Len(arrived') = Len(arrived) - 1
      /\ DOMAIN arrived' = 1..(Len(arrived) - 1)
      /\ \A i \in 1..(Len(arrived) - 1) : arrived'[i] = arrived[i + 1]
  BY <1>1, <1>2, HeadTailProperties, LenProperties
<1>9. n \in Nat /\ m \in Nat /\ a \in Nat /\ n = m + Len(arrived) /\ m + 1 \in 0..Len(arrivals)
      /\ a + g \in 0..Len(arrivals)
  <2>1. n = m + Len(arrived)
    BY <1>3 DEF Smoothed
  <2>2. a + g <= m /\ m + 1 <= n
    BY <1>4
  <2> QED
    BY <1>1, <2>1, <2>2
<1>10. b = Recent(m + 1)
  <2>1. ASSUME NEW i \in 1..(m + 1)
        PROVE  arrivals[i].at + Window >= arrivals[m + 1].at <=> i \in (a + g + 1)..(m + 1)
    <3>1. i \in 1..(a + g) \/ i \in (a + g + 1)..(m + 1)
      BY <1>9
    <3>2. i \in 1..Len(arrivals) /\ m + 1 \in 1..Len(arrivals)
      BY <1>1, <1>9
    <3>3. PICK x \in Nat : x = arrivals[i].at
      BY <1>1, <3>2
    <3>4. PICK y \in Nat : y = arrivals[m + 1].at
      BY <1>1, <3>2
    <3>5. CASE i \in 1..(a + g)
      <4>1. x + Window < y
        BY <1>4, <3>3, <3>4, <3>5
      <4>2. ~(x + Window >= y)
        BY <4>1, ConstantTypes
      <4>3. i \notin (a + g + 1)..(m + 1)
        BY <1>9, <3>5
      <4> QED
        BY <3>3, <3>4, <4>2, <4>3
    <3>6. CASE i \in (a + g + 1)..(m + 1)
      BY <1>4, <3>6
    <3> QED
      BY <3>1, <3>5, <3>6
  <2>2. (a + g + 1)..(m + 1) \subseteq 1..(m + 1)
    BY <1>9
  <2>3. {i \in 1..(m + 1) : arrivals[i].at + Window >= arrivals[m + 1].at} = (a + g + 1)..(m + 1)
    BY <2>1, <2>2
  <2> QED
    BY <1>5, <2>3 DEF Recent
<1>11. /\ peak' \in {peak, Rate(b)} /\ peak' \in Nat /\ peak <= peak' /\ Rate(b) <= peak'
  <2>1. Rate(b) \in Nat /\ b * 8 * (Second \div Window) = Rate(b)
    BY RateFacts
  <2>2. peak' = Max({peak, b * 8 * (Second \div Window)})
    BY <1>6 DEF Smooth
  <2>3. peak' = Max({peak, Rate(b)})
    BY <2>1, <2>2
  <2>4. \E x \in {peak, Rate(b)} : \A y \in {peak, Rate(b)} : x >= y
    BY <1>1, <2>1
  <2>5. peak' \in {peak, Rate(b)} /\ \A y \in {peak, Rate(b)} : peak' >= y
    BY <2>3, <2>4 DEF Max
  <2> QED
    BY <1>1, <2>1, <2>5
<1>12. TypeOK'
  BY <1>1, <1>2, <1>6, <1>7, <1>8, <1>11 DEF TypeOK
<1>13. Sends' /\ Stages' /\ Order' /\ Counted'
  <2>1. Counted'
    BY <1>2 DEF Counted, Running
  <2> QED
    BY <1>1, <1>2, <2>1 DEF Sends, Stages, Order, BytesPerInterval
<1>14. \A k : Recent(k)' = Recent(k)
  BY <1>2 DEF Recent
<1>15. Smoothed(n, m + 1, a + g)'
  <2>1. n = (m + 1) + Len(arrived') /\ a + g <= m + 1 /\ m + 1 = (a + g) + Len(window')
    <3>1. PICK k \in Nat : k = Len(arrived)
      BY <1>1
    <3>2. Len(arrived') = k - 1 /\ n = m + k
      BY <1>8, <1>9, <3>1
    <3>3. n = (m + 1) + Len(arrived')
      BY <1>9, <3>2
    <3>4. a + g <= m + 1
      BY <1>4, <1>9
    <3> QED
      BY <1>7, <3>3, <3>4
  <2>2. ASSUME NEW i \in DOMAIN arrived' PROVE arrived'[i] = arrivals[(m + 1) + i]
    <3>1. i \in 1..(Len(arrived) - 1) /\ i + 1 \in 1..Len(arrived) /\ m + (i + 1) = (m + 1) + i
      <4>1. PICK k \in Nat : k = Len(arrived)
        BY <1>1
      <4>2. i \in 1..(k - 1)
        BY <1>8, <2>2, <4>1
      <4>3. i + 1 \in 1..k /\ m + (i + 1) = (m + 1) + i
        BY <1>9, <4>2
      <4> QED
        BY <4>1, <4>2, <4>3
    <3>2. arrived[i + 1] = arrivals[m + (i + 1)]
      BY <1>1, <1>3, <3>1 DEF Smoothed
    <3> QED
      BY <1>8, <3>1, <3>2
  <2>3. \A i \in (n + 1)..Len(arrivals) : arrivals[i].at = Duration
    BY <1>3 DEF Smoothed
  <2>4. \A k \in 1..m : Rate(Recent(k)) <= peak /\ Rate(Recent(k)) \in Nat
    <3>1. ASSUME NEW k \in 1..m PROVE Rate(Recent(k)) \in Nat
      <4>1. {i \in 1..k : arrivals[i].at + Window >= arrivals[k].at} \subseteq 1..Len(arrivals)
        BY <1>1, <1>9
      <4>2. Recent(k) \in Nat
        BY <4>1, ArrivalsSized DEF Recent
      <4> QED
        BY <4>2, RateFacts
    <3>2. \A k \in 1..m : Rate(Recent(k)) <= peak
      BY <1>3 DEF Smoothed
    <3> QED
      BY <3>1, <3>2
  <2>5. \A k \in 1..(m + 1) : k \in 1..m \/ k = m + 1
    BY <1>9
  <2>6. \A k \in 1..(m + 1) : Rate(Recent(k)) <= peak'
    <3>1. ASSUME NEW k \in 1..m PROVE Rate(Recent(k)) <= peak'
      <4>1. PICK r \in Nat : r = Rate(Recent(k)) /\ r <= peak
        BY <2>4
      <4>2. r <= peak'
        BY <1>1, <1>11, <4>1
      <4> QED
        BY <4>1, <4>2
    <3>2. Rate(Recent(m + 1)) <= peak'
      BY <1>10, <1>11
    <3> QED
      BY <2>5, <3>1, <3>2
  <2>7. peak' = 0 \/ \E k \in 1..(m + 1) : peak' = Rate(Recent(k))
    <3>1. peak = 0 \/ \E k \in 1..m : peak = Rate(Recent(k))
      BY <1>3 DEF Smoothed
    <3>2. 1..m \subseteq 1..(m + 1) /\ m + 1 \in 1..(m + 1)
      BY <1>9
    <3>3. CASE peak' = peak
      BY <3>1, <3>2, <3>3
    <3>4. CASE peak' = Rate(b)
      BY <1>10, <3>2, <3>4
    <3> QED
      BY <1>11, <3>3, <3>4
  <2>8. \A k : Rate(Recent(k))' = Rate(Recent(k))
    BY <1>14 DEF Rate
  <2>9. arrivals' = arrivals /\ Len(arrivals') = Len(arrivals)
    BY <1>2
  <2>10. windowBytes' = SumBytes(((a + g) + 1)..(m + 1), arrivals)
    BY <1>5, <1>6
  <2>11. /\ \A i \in 1..(a + g) : arrivals[i].at + Window < arrivals[m + 1].at
         /\ \A i \in ((a + g) + 1)..(m + 1) : arrivals[i].at + Window >= arrivals[m + 1].at
    BY <1>4
  <2> QED
    BY <1>7, <2>1, <2>2, <2>3, <2>6, <2>7, <2>8, <2>9, <2>10, <2>11 DEF Smoothed
<1>16. Smoothing'
  <2>1. Len(arrivals') = Len(arrivals)
    BY <1>2
  <2> QED
    BY <1>9, <1>15, <2>1 DEF Smoothing
<1> QED
  BY <1>12, <1>13, <1>16 DEF ThroughputInv

LEMMA NextThroughput == ThroughputInv /\ [Next]_vars => ThroughputInv'
<1> SUFFICES ASSUME ThroughputInv, [Next]_vars PROVE ThroughputInv'
  OBVIOUS
<1>1. CASE UNCHANGED vars
  <2>1. UNCHANGED <<now, sender, nextSend, sent, server, driver, cancelled, wire, inbound,
                    arrivals, arrived, window, windowBytes, peak, routed>>
    BY <1>1 DEF vars, clientVars, packetVars, peakVars
  <2>2. TypeOK' /\ Sends' /\ Stages' /\ Order' /\ Counted'
    BY <2>1 DEF ThroughputInv, TypeOK, Sends, Stages, Order, Counted, Running
  <2>3. Smoothing'
    BY <2>1, SmoothingFrame DEF ThroughputInv
  <2> QED
    BY <2>2, <2>3 DEF ThroughputInv
<1> QED
  BY <1>1, SendBurstInv, SenderStopsInv, ArriveInv, ServerTurnsInv, ServerReceivesInv, CancelInv,
     JoinInv, SmoothInv, ReturnInv, TickInv DEF Next

-----------------------------------------------------------------------------
(* What the invariant says of the properties.                               *)

LEMMA CountedFollows ==
  ASSUME ThroughputInv
  PROVE  EverythingCounted
<1> SUFFICES ASSUME driver \in {"sleeping", "joining"}
             PROVE  /\ arrived = SubSeq(arrivals, 1, Len(arrived))
                    /\ \A i \in (Len(arrived) + 1)..Len(arrivals) : arrivals[i].at = now
  BY DEF EverythingCounted
<1>1. /\ Len(arrived) \in Nat /\ DOMAIN arrived = 1..Len(arrived) /\ arrived \in Seq(Arrival)
      /\ Len(arrivals) \in Nat /\ DOMAIN arrivals = 1..Len(arrivals) /\ arrivals \in Seq(Arrival)
      /\ Len(inbound) \in Nat /\ DOMAIN inbound = 1..Len(inbound)
      /\ \A i \in 1..Len(arrivals) : arrivals[i] \in Arrival
  BY ThroughputFacts DEF TypeOK
<1>2. PICK c \in Nat : c = Len(arrived)
  BY <1>1
<1>3. PICK k \in Nat : k = Len(inbound)
  BY <1>1
<1>4. PICK n \in Nat : n = Len(arrivals)
  BY <1>1
<1>5. /\ c + k = n
      /\ \A i \in 1..c : arrived[i] = arrivals[i]
      /\ \A i \in 1..k : arrivals[c + i] = [at |-> now, bytes |-> inbound[i]]
  BY <1>1, <1>2, <1>3, <1>4 DEF ThroughputInv, Counted, Running
<1>6. PICK r : r = SubSeq(arrivals, 1, c)
  OBVIOUS
<1>7. /\ r \in Seq(Arrival)
      /\ Len(r) = IF 1 <= c THEN c - 1 + 1 ELSE 0
      /\ \A i \in 1..(c - 1 + 1) : r[i] = arrivals[1 + i - 1]
  <2>1. \A i \in 1..c : i \in 1..n
    BY <1>5
  <2>2. \A i \in 1..c : arrivals[i] \in Arrival
    BY <1>1, <1>4, <2>1
  <2> QED
    BY <1>1, <1>6, <2>2, SubSeqProperties
<1>8. Len(r) = c /\ \A i \in 1..c : r[i] = arrivals[i]
  BY <1>7
<1>9. arrived = r
  BY <1>1, <1>2, <1>5, <1>7, <1>8, SeqEqual
<1>10. ASSUME NEW i \in (c + 1)..n PROVE arrivals[i].at = now
  <2>1. PICK j \in 1..k : i = c + j
    <3>1. i - c \in 1..k /\ i = c + (i - c)
      BY <1>5
    <3> QED
      BY <3>1
  <2>2. arrivals[i] = [at |-> now, bytes |-> inbound[j]]
    BY <1>5, <2>1
  <2> QED
    BY <2>2
<1> QED
  BY <1>2, <1>4, <1>6, <1>9, <1>10

\* A run of the sender's bursts takes as long, and has as many bytes, as its
\* number of intervals says.
LEMMA RateFollows ==
  ASSUME ThroughputInv
  PROVE  RateKept
<1> SUFFICES ASSUME NEW i \in DOMAIN sent, NEW j \in i..Len(sent)
             PROVE  8 * Second * SumBytes(i..j, sent)
                      <= SendBps * (sent[j].at - sent[i].at + SendInterval)
  BY DEF RateKept
<1>1. Len(sent) \in Nat /\ DOMAIN sent = 1..Len(sent) /\ Sends
  BY ThroughputFacts
<1>2. i \in Nat /\ j \in Nat /\ 1 <= i /\ i <= j /\ i \in 1..Len(sent) /\ j \in 1..Len(sent)
  BY <1>1
<1>3. PICK c \in Nat : c = j - i + 1
  <2>1. j - i + 1 \in Nat
    BY <1>2
  <2> QED
    BY <2>1
<1>4. PICK b \in Nat : b = BytesPerInterval
  BY RateTypes
<1>5. PICK q \in Nat : q = Second \div SendInterval /\ Second = q * SendInterval /\ 8 * (b * q) <= SendBps
  BY <1>4, RateTypes
<1>6. SumBytes(i..j, sent) = c * b
  <2>1. \A k \in i..j : k \in DOMAIN sent
    BY <1>1, <1>2
  <2>2. \A k \in i..j : sent[k].bytes = b
    BY <1>1, <1>4, <2>1 DEF Sends
  <2>3. SumBytes(i..j, sent) = Cardinality((i..j) \X (1..b))
    <3>1. UNION {{k} \X (1..sent[k].bytes) : k \in i..j} = (i..j) \X (1..b)
      BY <2>2
    <3> QED
      BY <3>1 DEF SumBytes
  <2>4. IsFiniteSet(i..j) /\ Cardinality(i..j) = c
    BY <1>2, <1>3, FS_Interval
  <2>5. IsFiniteSet(1..b) /\ Cardinality(1..b) = b
    BY FS_Interval
  <2>6. Cardinality((i..j) \X (1..b)) = Cardinality(i..j) * Cardinality(1..b)
    BY <2>4, <2>5, FS_Product
  <2> QED
    BY <2>3, <2>4, <2>5, <2>6
<1>7. sent[j].at - sent[i].at + SendInterval = c * SendInterval
  <2>1. sent[j].at = (j - 1) * SendInterval /\ sent[i].at = (i - 1) * SendInterval
    BY <1>1, <1>2 DEF Sends
  <2>2. PICK s \in Nat : s = SendInterval
    BY ConstantTypes
  <2>3. (j - 1) * s - (i - 1) * s + s = (j - i + 1) * s
    BY <1>2
  <2> QED
    BY <1>3, <2>1, <2>2, <2>3
<1>8. PICK s \in Nat : s = SendInterval
  BY ConstantTypes
<1>9. PICK d \in Nat : SendBps = 8 * (b * q) + d
  <2>1. PICK e \in Nat : e = 8 * (b * q)
    OBVIOUS
  <2>2. SendBps - e \in Nat /\ SendBps = e + (SendBps - e)
    BY <1>5, <2>1, ConstantTypes
  <2> QED
    BY <2>1, <2>2
<1>10. 8 * (q * s) * (c * b) <= (8 * (b * q) + d) * (c * s)
  <2>1. (8 * (b * q) + d) * (c * s) = 8 * (b * q) * (c * s) + d * (c * s)
    OBVIOUS
  <2>2. 8 * (b * q) * (c * s) = 8 * (q * s) * (c * b)
    OBVIOUS
  <2>3. PICK e \in Nat : e = d * (c * s)
    OBVIOUS
  <2>4. PICK u \in Nat : u = 8 * (q * s) * (c * b)
    OBVIOUS
  <2>5. (8 * (b * q) + d) * (c * s) = u + e
    BY <2>1, <2>2, <2>3, <2>4
  <2>6. u <= u + e
    OBVIOUS
  <2> QED
    BY <2>4, <2>5, <2>6
<1> QED
  BY <1>5, <1>6, <1>7, <1>8, <1>9, <1>10, Zenon

\* Positions of the packets, among the first n, in the window that begins at t,
\* and in the one that ends with the k-th packet.
Within(n, t) == {i \in 1..n : arrivals[i].at \in t..(t + Window)}
Before(k)    == {i \in 1..k : arrivals[i].at + Window >= arrivals[k].at}

\* No window has more than one that ends with a packet: its last one.
LEMMA WindowEnds ==
  ASSUME ThroughputInv, NEW n \in 0..Len(arrivals), NEW t \in 0..Duration, Within(n, t) # {}
  PROVE  \E k \in 1..n : Within(n, t) \subseteq Before(k)
<1>1. /\ Len(arrivals) \in Nat /\ \A i \in 1..Len(arrivals) : arrivals[i].at \in Nat
      /\ Duration \in Nat
  BY ThroughputFacts
<1>2. n \in Nat /\ t \in Nat /\ \A i \in 1..n : i \in 1..Len(arrivals)
  BY <1>1
<1>3. Within(n, t) \subseteq 0..n
  BY <1>2 DEF Within
<1>4. PICK k \in Within(n, t) : \A i \in Within(n, t) : i <= k
  BY <1>2, <1>3, GreatestNat
<1>5. k \in 1..n /\ arrivals[k].at \in t..(t + Window)
  BY <1>4 DEF Within
<1>6. ASSUME NEW i \in Within(n, t) PROVE i \in Before(k)
  <2>1. i \in 1..n /\ arrivals[i].at \in t..(t + Window) /\ i <= k
    BY <1>4 DEF Within
  <2>2. i \in 1..k
    BY <1>2, <1>5, <2>1
  <2>3. PICK x \in Nat : x = arrivals[i].at
    BY <1>1, <1>2, <2>1
  <2>4. PICK y \in Nat : y = arrivals[k].at
    BY <1>1, <1>2, <1>5
  <2>5. t <= x /\ y <= t + Window
    BY <1>2, <1>5, <2>1, <2>3, <2>4, ConstantTypes
  <2>6. x + Window >= y
    BY <1>2, <2>5, ConstantTypes
  <2> QED
    BY <2>2, <2>3, <2>4, <2>6 DEF Before
<1> QED
  BY <1>5, <1>6

\* The window that ends with a packet lies in one that begins at some instant.
LEMMA WindowBegins ==
  ASSUME ThroughputInv, NEW n \in 0..Len(arrivals), NEW k \in 1..n
  PROVE  \E t \in 0..Duration : Before(k) \subseteq Within(n, t)
<1>1. /\ Len(arrivals) \in Nat /\ DOMAIN arrivals = 1..Len(arrivals) /\ Order
      /\ \A i \in 1..Len(arrivals) : arrivals[i].at \in Nat /\ arrivals[i] \in Arrival
      /\ Duration \in Nat
  BY ThroughputFacts
<1>2. n \in Nat /\ k \in Nat /\ k <= n /\ \A i \in 1..n : i \in 1..Len(arrivals)
  BY <1>1
<1>3. PICK y \in Nat : y = arrivals[k].at /\ y <= Duration
  <2>1. arrivals[k].at \in 0..Duration
    BY <1>1, <1>2 DEF Arrival
  <2> QED
    BY <1>1, <2>1
<1>4. PICK t \in 0..Duration : t <= y /\ y <= t + Window /\ (t = 0 \/ t + Window = y)
  <2>1. CASE y <= Window
    <3>1. 0 \in 0..Duration /\ 0 <= y /\ y <= 0 + Window
      BY <1>1, <2>1, ConstantTypes
    <3> QED
      BY <3>1
  <2>2. CASE y > Window
    <3>1. y - Window \in 0..Duration /\ y - Window <= y /\ (y - Window) + Window = y
      BY <1>1, <1>3, <2>2, ConstantTypes
    <3>2. y <= (y - Window) + Window
      BY ConstantTypes
    <3> QED
      BY <3>1, <3>2
  <2> QED
    BY <2>1, <2>2, ConstantTypes
<1>5. ASSUME NEW i \in Before(k) PROVE i \in Within(n, t)
  <2>1. i \in 1..k /\ arrivals[i].at + Window >= arrivals[k].at
    BY DEF Before
  <2>2. i \in 1..n /\ i <= k
    BY <1>2, <2>1
  <2>3. PICK x \in Nat : x = arrivals[i].at
    BY <1>1, <1>2, <2>2
  <2>4. x <= y
    BY <1>1, <1>2, <1>3, <2>2, <2>3 DEF Order
  <2>5. x + Window >= y
    BY <1>3, <2>1, <2>3
  <2>6. t <= x /\ x <= t + Window
    BY <1>1, <1>4, <2>4, <2>5, ConstantTypes
  <2>7. x \in t..(t + Window)
    BY <1>1, <2>6, ConstantTypes
  <2> QED
    BY <2>2, <2>3, <2>7 DEF Within
<1> QED
  BY <1>5

LEMMA PeakFollows ==
  ASSUME ThroughputInv
  PROVE  PeakIsRight
<1> SUFFICES ASSUME driver = "returned"
             PROVE  \E n \in 0..Len(arrivals) :
                      /\ \A i \in (n + 1)..Len(arrivals) : arrivals[i].at = Duration
                      /\ peak = Max({Rate(SumBytes(Within(n, t), arrivals)) : t \in 0..Duration})
  BY DEF PeakIsRight, Rate, Within
<1>1. Len(arrivals) \in Nat /\ Smoothing /\ Stages /\ peak \in Nat /\ Duration \in Nat
  BY ThroughputFacts DEF TypeOK
<1>2. PICK n \in 0..Len(arrivals), m \in 0..Len(arrivals), a \in 0..Len(arrivals) : Smoothed(n, m, a)
  BY <1>1 DEF Smoothing
<1>3. n = m
  <2>1. arrived = <<>> /\ Len(arrived) = 0
    BY <1>1 DEF Stages
  <2> QED
    BY <1>1, <1>2, <2>1 DEF Smoothed
<1>4. /\ \A i \in (n + 1)..Len(arrivals) : arrivals[i].at = Duration
      /\ \A k \in 1..n : Rate(SumBytes(Before(k), arrivals)) <= peak
      /\ peak = 0 \/ \E k \in 1..n : peak = Rate(SumBytes(Before(k), arrivals))
  BY <1>2, <1>3 DEF Smoothed, Recent, Before
<1>5. /\ \A t \in 0..Duration : Within(n, t) \subseteq 1..Len(arrivals)
      /\ \A k \in 1..n : Before(k) \subseteq 1..Len(arrivals)
  <2>1. \A k \in 1..n : 1..k \subseteq 1..Len(arrivals)
    BY <1>1
  <2>2. 1..n \subseteq 1..Len(arrivals)
    BY <1>1
  <2> QED
    BY <2>1, <2>2 DEF Within, Before
<1>6. /\ \A t \in 0..Duration : /\ Sized(Within(n, t), arrivals)
                                /\ SumBytes(Within(n, t), arrivals) \in Nat
      /\ \A k \in 1..n : /\ Sized(Before(k), arrivals)
                         /\ SumBytes(Before(k), arrivals) \in Nat
  BY <1>5, ArrivalsSized
<1> DEFINE Value(t) == Rate(SumBytes(Within(n, t), arrivals))
<1>7. \A t \in 0..Duration : Value(t) \in Nat
  BY <1>6, RateFacts
<1>8. ASSUME NEW t \in 0..Duration PROVE Value(t) <= peak
  <2>1. CASE Within(n, t) = {}
    <3>1. Value(t) = 0
      BY <2>1, SumEmpty, RateFacts
    <3> QED
      BY <1>1, <3>1
  <2>2. CASE Within(n, t) # {}
    <3>1. PICK k \in 1..n : Within(n, t) \subseteq Before(k)
      BY <2>2, WindowEnds
    <3>2. SumBytes(Within(n, t), arrivals) <= SumBytes(Before(k), arrivals)
      BY <1>6, <3>1, SumMonotone
    <3>3. PICK u \in Nat : u = Rate(SumBytes(Before(k), arrivals))
      BY <1>6, RateFacts
    <3>4. Value(t) <= u
      BY <1>6, <3>2, <3>3, RateFacts
    <3>5. u <= peak
      BY <1>4, <3>3
    <3>6. PICK v \in Nat : v = Value(t)
      BY <1>7
    <3>7. v <= peak
      BY <1>1, <3>4, <3>5, <3>6
    <3> QED
      BY <3>6, <3>7
  <2> QED
    BY <2>1, <2>2
<1>9. \E t \in 0..Duration : Value(t) = peak
  <2>1. CASE peak = 0
    <3>1. 0 \in 0..Duration
      BY <1>1
    <3>2. Value(0) \in Nat /\ Value(0) <= 0
      BY <1>7, <1>8, <2>1, <3>1
    <3>3. Value(0) = 0
      BY <3>2
    <3> QED
      BY <2>1, <3>1, <3>3
  <2>2. CASE \E k \in 1..n : peak = Rate(SumBytes(Before(k), arrivals))
    <3>1. PICK k \in 1..n : peak = Rate(SumBytes(Before(k), arrivals))
      BY <2>2
    <3>2. PICK t \in 0..Duration : Before(k) \subseteq Within(n, t)
      BY WindowBegins
    <3>3. SumBytes(Before(k), arrivals) <= SumBytes(Within(n, t), arrivals)
      BY <1>6, <3>2, SumMonotone
    <3>4. peak <= Value(t)
      BY <1>6, <3>1, <3>3, RateFacts
    <3>5. PICK v \in Nat : v = Value(t)
      BY <1>7
    <3>6. v <= peak /\ peak <= v
      BY <1>8, <3>4, <3>5
    <3>7. v = peak
      BY <1>1, <3>6
    <3> QED
      BY <3>5, <3>7
  <2> QED
    BY <1>4, <2>1, <2>2
<1>10. peak = Max({Value(t) : t \in 0..Duration})
  <2> HIDE DEF Value
  <2>1. PICK V : V = {Value(t) : t \in 0..Duration}
    OBVIOUS
  <2>2. peak \in V /\ \A v \in V : v \in Nat /\ v <= peak
    BY <1>7, <1>8, <1>9, <2>1
  <2>3. \A v \in V : peak >= v
    BY <1>1, <2>2
  <2>4. \A x \in V : (\A v \in V : x >= v) => x = peak
    BY <1>1, <2>2
  <2>5. Max(V) = peak
    BY <2>2, <2>3, <2>4 DEF Max
  <2> QED
    BY <2>1, <2>5
<1> QED
  BY <1>4, <1>10

-----------------------------------------------------------------------------
(* The theorems.                                                            *)

LEMMA ThroughputHolds == Spec => []ThroughputInv
  BY InitThroughput, NextThroughput, PTL DEF Spec

\* In every reachable state of the throughput command packets fit a transmit,
\* times do not pass the duration and the byte counter of the sliding window in
\* throughput.rs never underflows.
THEOREM ThroughputTypes == Spec => []TypeOK
<1>1. ThroughputInv => TypeOK
  BY DEF ThroughputInv
<1> QED
  BY <1>1, ThroughputHolds, PTL

\* The server task counts every packet that its socket returned before the instant
\* of the cancellation, once and in order, however the polls of its biased select
\* interleave with arrivals and with the cancellation.
THEOREM CountsEverything == Spec => []EverythingCounted
<1>1. ThroughputInv => EverythingCounted
  BY CountedFollows
<1> QED
  BY <1>1, ThroughputHolds, PTL

\* The peak that the sliding window computes in one pass is that of the best of
\* all windows, for every history of arrivals.
THEOREM PeakStaysRight == Spec => []PeakIsRight
<1>1. ThroughputInv => PeakIsRight
  BY PeakFollows
<1> QED
  BY <1>1, ThroughputHolds, PTL

\* The sender keeps to --send-bps over every run of its intervals: the roundings
\* of send_bytes_per_interval only ever lower the rate.
THEOREM RateStaysKept == Spec => []RateKept
<1>1. ThroughputInv => RateKept
  BY RateFollows
<1> QED
  BY <1>1, ThroughputHolds, PTL

=============================================================================
