------------------------ MODULE EthernetDriverProof ------------------------
(***************************************************************************)
(* For any frames, rings, mailboxes, calling threads and turns of the      *)
(* heap: the Ethernet driver is the two lines of frames of FramePath.      *)
(* Each ring is a line of n descriptors from one index to the other; the   *)
(* proof says what each step of the driver makes of it.                    *)
(***************************************************************************)
EXTENDS EthernetDriver, SequenceTheorems, FiniteSetTheorems, TLAPS

(* Round a ring of n descriptors: *)
LEMMA Remainder ==
  ASSUME NEW n \in Nat \ {0}, NEW x \in Nat, x < 2 * n
  PROVE  x % n = IF x < n THEN x ELSE x - n
<1>1. CASE x < n
  BY <1>1
<1>2. CASE x >= n
  <2> DEFINE q == x \div n
             m == x % n
  <2>1. x = q * n + m /\ q \in Int /\ m \in 0 .. n - 1
    OBVIOUS
  <2> HIDE DEF q, m
  <2>2. q < 2
    <3>1. SUFFICES ASSUME q >= 2 PROVE FALSE
      BY <2>1
    <3>2. q * n >= 2 * n
      BY <2>1, <3>1
    <3>3. QED  BY <2>1, <3>2
  <2>3. q > 0
    <3>1. SUFFICES ASSUME q =< 0 PROVE FALSE
      BY <2>1
    <3>2. q * n =< 0
      BY <2>1, <3>1
    <3>3. QED  BY <1>2, <2>1, <3>2
  <2>4. q = 1
    BY <2>1, <2>2, <2>3
  <2>5. m = x - n
    BY <2>1, <2>4
  <2>6. QED  BY <1>2, <2>5 DEF m
<1>3. QED  BY <1>1, <1>2

At(a, i, n) == (a + i) % n

(* the i-th descriptor from a,                                             *)
LEMMA AtIs ==
  ASSUME NEW n \in Nat \ {0}, NEW a \in 0 .. n - 1, NEW i \in 0 .. n
  PROVE  /\ At(a, i, n) = IF a + i < n THEN a + i ELSE a + i - n
         /\ At(a, i, n) \in 0 .. n - 1
<1> DEFINE x == a + i
<1>1. x \in Nat /\ x < 2 * n
  OBVIOUS
<1> HIDE DEF x
<1>2. x % n = IF x < n THEN x ELSE x - n
  BY <1>1, Remainder
<1>3. QED  BY <1>2 DEF At, x

(* and from the one after a.                                               *)
LEMMA AtNext ==
  ASSUME NEW n \in Nat \ {0}, NEW a \in 0 .. n - 1
  PROVE  /\ At(a, 1, n) \in 0 .. n - 1
         /\ \A i \in 0 .. n - 1 : At(At(a, 1, n), i, n) = At(a, i + 1, n)
         /\ \A i \in 0 .. n - 1 : At(At(a, i, n), 1, n) = At(a, i + 1, n)
         /\ At(a, 0, n) = a /\ At(a, n, n) = a
<1>1. \A b \in 0 .. n - 1 : \A i \in 0 .. n :
        At(b, i, n) = (IF b + i < n THEN b + i ELSE b + i - n) /\ At(b, i, n) \in 0 .. n - 1
  BY AtIs
<1>2. 1 \in 0 .. n /\ 0 \in 0 .. n /\ n \in 0 .. n
  OBVIOUS
<1>3. At(a, 1, n) \in 0 .. n - 1 /\ At(a, 1, n) = IF a + 1 < n THEN a + 1 ELSE a + 1 - n
  BY <1>1, <1>2
<1>4. ASSUME NEW i \in 0 .. n - 1 PROVE At(At(a, 1, n), i, n) = At(a, i + 1, n)
  <2>1. i \in 0 .. n /\ i + 1 \in 0 .. n
    OBVIOUS
  <2> DEFINE b == At(a, 1, n)
  <2>2. b \in 0 .. n - 1 /\ b = IF a + 1 < n THEN a + 1 ELSE a + 1 - n
    BY <1>3
  <2> HIDE DEF b
  <2>3. At(b, i, n) = IF b + i < n THEN b + i ELSE b + i - n
    BY <1>1, <2>1, <2>2
  <2>4. At(a, i + 1, n) = IF a + (i + 1) < n THEN a + (i + 1) ELSE a + (i + 1) - n
    BY <1>1, <2>1
  <2>5. At(b, i, n) = At(a, i + 1, n)
    BY <2>2, <2>3, <2>4
  <2>6. QED  BY <2>5 DEF b
<1>5. ASSUME NEW i \in 0 .. n - 1 PROVE At(At(a, i, n), 1, n) = At(a, i + 1, n)
  <2>1. i \in 0 .. n /\ i + 1 \in 0 .. n
    OBVIOUS
  <2> DEFINE b == At(a, i, n)
  <2>2. b \in 0 .. n - 1 /\ b = IF a + i < n THEN a + i ELSE a + i - n
    BY <1>1, <2>1
  <2> HIDE DEF b
  <2>3. At(b, 1, n) = IF b + 1 < n THEN b + 1 ELSE b + 1 - n
    BY <1>1, <1>2, <2>2
  <2>4. At(a, i + 1, n) = IF a + (i + 1) < n THEN a + (i + 1) ELSE a + (i + 1) - n
    BY <1>1, <2>1
  <2>5. At(b, 1, n) = At(a, i + 1, n)
    BY <2>2, <2>3, <2>4
  <2>6. QED  BY <2>5 DEF b
<1>6. At(a, 0, n) = a /\ At(a, n, n) = a
  BY <1>1, <1>2
<1>7. QED  BY <1>3, <1>4, <1>5, <1>6

(* No two of them are the same.                                            *)
LEMMA AtDiffers ==
  ASSUME NEW n \in Nat \ {0}, NEW a \in 0 .. n - 1, NEW i \in 0 .. n - 1,
         NEW j \in 0 .. n - 1, At(a, i, n) = At(a, j, n)
  PROVE  i = j
<1>1. i \in 0 .. n /\ j \in 0 .. n
  OBVIOUS
<1> DEFINE x == At(a, i, n)
           y == At(a, j, n)
<1>2. x = IF a + i < n THEN a + i ELSE a + i - n
  BY <1>1, AtIs
<1>3. y = IF a + j < n THEN a + j ELSE a + j - n
  BY <1>1, AtIs
<1>4. x = y
  OBVIOUS
<1> HIDE DEF x, y
<1>5. QED  BY <1>2, <1>3, <1>4
-----------------------------------------------------------------------------
(* A line of frames that one more joins, *)
LEMMA LineGrows ==
  ASSUME NEW S, NEW s \in Seq(S), NEW t \in Seq(S), NEW e \in S,
         Len(t) = Len(s) + 1, \A i \in 1 .. Len(s) : t[i] = s[i],
         t[Len(s) + 1] = e
  PROVE  t = Append(s, e)
<1>1. /\ Append(s, e) \in Seq(S) /\ Len(Append(s, e)) = Len(s) + 1
      /\ \A i \in 1 .. Len(s) : Append(s, e)[i] = s[i]
      /\ Append(s, e)[Len(s) + 1] = e
  BY AppendProperties
<1> DEFINE u == Append(s, e)
<1> HIDE DEF u
<1>2. Len(s) \in Nat
  BY LenProperties
<1>3. \A i \in 1 .. Len(t) : t[i] = u[i]
  BY <1>1, <1>2 DEF u
<1>4. t = u
  BY <1>1, <1>3, SeqEqual DEF u
<1>5. QED  BY <1>4 DEF u

(* and one that its first leaves. *)
LEMMA LineShrinks ==
  ASSUME NEW S, NEW s \in Seq(S), NEW t \in Seq(S),
         Len(s) = Len(t) + 1, \A i \in 1 .. Len(t) : t[i] = s[i + 1]
  PROVE  /\ s # <<>> /\ s[1] \in S /\ Head(s) = s[1] /\ Tail(s) = t
         /\ s = <<s[1]>> \o t
<1>1. Len(t) \in Nat /\ Len(s) \in Nat
  BY LenProperties
<1>2. s # <<>> /\ s[1] \in S
  BY <1>1, ElementOfSeq
<1>3. Head(s) = s[1]
  BY <1>2
<1>4. Tail(s) = t
  <2>1. /\ Tail(s) \in Seq(S) /\ Len(Tail(s)) = Len(s) - 1
        /\ \A i \in 1 .. Len(Tail(s)) : Tail(s)[i] = s[i + 1]
    BY <1>2, HeadTailProperties
  <2>2. Len(Tail(s)) = Len(t) /\ \A i \in 1 .. Len(t) : Tail(s)[i] = t[i]
    BY <1>1, <2>1
  <2>3. QED  BY <2>1, <2>2, SeqEqual
<1>5. s = <<s[1]>> \o t
  <2> DEFINE e == s[1]
             h == <<e>>
             u == h \o t
  <2>1. h \in Seq(S) /\ Len(h) = 1 /\ h[1] = e
    BY <1>2
  <2> HIDE DEF h, e
  <2>2. /\ u \in Seq(S) /\ Len(u) = Len(h) + Len(t)
        /\ \A i \in 1 .. Len(h) + Len(t) : u[i] = IF i =< Len(h) THEN h[i] ELSE t[i - Len(h)]
    BY <2>1, ConcatProperties
  <2> HIDE DEF u
  <2>3. ASSUME NEW i \in 1 .. Len(s) PROVE s[i] = u[i]
    <3>1. CASE i = 1
      BY <1>1, <2>1, <2>2, <3>1 DEF e
    <3>2. CASE i # 1
      <4>1. i - 1 \in 1 .. Len(t) /\ i \in 1 .. 1 + Len(t) /\ ~(i =< 1) /\ (i - 1) + 1 = i
        BY <1>1, <3>2
      <4>2. QED  BY <2>1, <2>2, <4>1
    <3>3. QED  BY <3>1, <3>2
  <2>4. Len(s) = Len(u)
    BY <1>1, <2>1, <2>2
  <2>5. s = u
    BY <2>2, <2>3, <2>4, SeqEqual
  <2>6. QED  BY <2>5 DEF u, h
<1>6. QED  BY <1>2, <1>3, <1>4, <1>5

(* The first of a sequence and the rest. *)
LEMMA HeadTail ==
  ASSUME NEW S, NEW s \in Seq(S), s # <<>>
  PROVE  /\ Head(s) \in S /\ Tail(s) \in Seq(S) /\ Len(s) = Len(Tail(s)) + 1
         /\ s = <<Head(s)>> \o Tail(s)
<1>1. /\ Head(s) \in S /\ Tail(s) \in Seq(S) /\ Len(Tail(s)) = Len(s) - 1
      /\ \A i \in 1 .. Len(Tail(s)) : Tail(s)[i] = s[i + 1]
  BY HeadTailProperties
<1>2. Len(s) = Len(Tail(s)) + 1
  BY <1>1, LenProperties
<1>3. QED
  <2> DEFINE t == Tail(s)
  <2>1. t \in Seq(S) /\ Len(s) = Len(t) + 1 /\ \A i \in 1 .. Len(t) : t[i] = s[i + 1]
    BY <1>1, <1>2
  <2> HIDE DEF t
  <2>2. Head(s) = s[1] /\ s = <<s[1]>> \o t
    BY <2>1, LineShrinks
  <2>3. s = <<Head(s)>> \o t
    BY <2>2
  <2>4. QED  BY <1>1, <1>2, <2>3 DEF t


(* What joins the second of two lines joins both. *)
LEMMA AppendsToBoth ==
  ASSUME NEW S, NEW s \in Seq(S), NEW t \in Seq(S), NEW e \in S
  PROVE  s \o Append(t, e) = Append(s \o t, e)
<1> DEFINE h == <<e>>
<1>1. h \in Seq(S)
  OBVIOUS
<1> HIDE DEF h
<1>2. s \o t \in Seq(S)
  BY ConcatProperties
<1>3. Append(t, e) = t \o h /\ Append(s \o t, e) = (s \o t) \o h
  BY <1>2, AppendIsConcat DEF h
<1>4. (s \o t) \o h = s \o (t \o h)
  BY <1>1, ConcatAssociative
<1>5. QED  BY <1>3, <1>4

(* A line in which only the first changed. *)
LEMMA LineChanges ==
  ASSUME NEW S, NEW s \in Seq(S), NEW t \in Seq(S), Len(s) = Len(t), Len(s) # 0,
         \A i \in 2 .. Len(s) : t[i] = s[i]
  PROVE  /\ s # <<>> /\ Head(s) = s[1] /\ Tail(t) = Tail(s)
         /\ t = <<t[1]>> \o Tail(s)
<1>1. s # <<>> /\ t # <<>> /\ Len(s) \in Nat
  BY LenProperties, EmptySeq
<1>2. Head(t) = t[1] /\ Head(s) = s[1]
  BY <1>1
<1>3. /\ Tail(s) \in Seq(S) /\ Len(Tail(s)) = Len(s) - 1
      /\ \A i \in 1 .. Len(Tail(s)) : Tail(s)[i] = s[i + 1]
  BY <1>1, HeadTailProperties
<1>4. /\ Tail(t) \in Seq(S) /\ Len(Tail(t)) = Len(t) - 1
      /\ \A i \in 1 .. Len(Tail(t)) : Tail(t)[i] = t[i + 1]
  BY <1>1, HeadTailProperties
<1> DEFINE v == Tail(s)
           w == Tail(t)
<1> HIDE DEF v, w
<1>5. ASSUME NEW i \in 1 .. Len(w) PROVE w[i] = v[i]
  <2>1. i + 1 \in 2 .. Len(s) /\ i \in 1 .. Len(v)
    BY <1>1, <1>3, <1>4 DEF v, w
  <2>2. QED  BY <1>3, <1>4, <2>1 DEF v, w
<1>6. w = v
  <2>1. Len(w) = Len(v) /\ w \in Seq(S) /\ v \in Seq(S)
    BY <1>3, <1>4 DEF v, w
  <2>2. QED  BY <1>5, <2>1, SeqEqual
<1>7. t = <<Head(t)>> \o w
  BY <1>1, HeadTail DEF w
<1>8. QED  BY <1>1, <1>2, <1>6, <1>7 DEF v, w
-----------------------------------------------------------------------------
(* The receive ring: n frames from DMARxDescToGet on, then descriptors of  *)
(* the DMA; the one before DMARxDescToGet is nobody's until it is released. *)
F0 == Frame \cup {NoFrame}

RxSlots == 0 .. RXBUFNB - 1

RxTab == [RxSlots -> [own : BOOLEAN, frame : F0]]

RxAt(tab, get, i) == tab[At(get, i, RXBUFNB)]

RxLined(tab, dma, get, st, n) ==
  /\ tab \in RxTab /\ get \in RxSlots /\ n \in 0 .. RXBUFNB
  /\ dma = At(get, n, RXBUFNB)
  /\ st = "release" => n < RXBUFNB
  /\ \A i \in RxSlots :
       /\ RxAt(tab, get, i).own <=> n =< i /\ ~(st = "release" /\ i = RXBUFNB - 1)
       /\ i < n => RxAt(tab, get, i).frame \in Frame

RxLines(tab, dma, get, st) == \E n \in 0 .. RXBUFNB : RxLined(tab, dma, get, st, n)

RingOf(tab, get, st) ==
  LET at(i) == tab[(get + i) % RXBUFNB]
      last == IF st = "release" THEN RXBUFNB - 2 ELSE RXBUFNB - 1
      n == Cardinality({i \in 0 .. last : ~at(i).own})
  IN [i \in 1 .. n |-> at(i - 1).frame]

(* There are descriptors. *)
LEMMA RxSize == RXBUFNB \in Nat \ {0}
BY EthernetAssumption

(* The numbers below n are n. *)
LEMMA Below ==
  ASSUME NEW n \in Nat
  PROVE  Cardinality(0 .. n - 1) = n
<1>1. Cardinality(0 .. n - 1) = IF 0 > n - 1 THEN 0 ELSE (n - 1) - 0 + 1
  BY FS_Interval
<1>2. QED  BY <1>1

(* Counting the descriptors that are not the DMA's gives the frames.       *)
LEMMA RingIsLine ==
  ASSUME NEW tab, NEW dma, NEW get, NEW st, NEW n, RxLined(tab, dma, get, st, n)
  PROVE  /\ RingOf(tab, get, st) \in Seq(Frame)
         /\ Len(RingOf(tab, get, st)) = n
         /\ \A i \in 1 .. n : RingOf(tab, get, st)[i] = RxAt(tab, get, i - 1).frame
<1> DEFINE at(i) == RxAt(tab, get, i)
           last == IF st = "release" THEN RXBUFNB - 2 ELSE RXBUFNB - 1
           taken == {i \in 0 .. last : ~at(i).own}
           e(i) == at(i - 1).frame
<1>1. /\ n \in 0 .. RXBUFNB /\ (st = "release" => n < RXBUFNB)
      /\ \A i \in RxSlots : /\ at(i).own <=> n =< i /\ ~(st = "release" /\ i = RXBUFNB - 1)
                            /\ i < n => at(i).frame \in Frame
  BY DEF RxLined
<1>2. RingOf(tab, get, st) = [i \in 1 .. Cardinality(taken) |-> e(i)]
  BY DEF RingOf, RxAt, At
<1> HIDE DEF at
<1>3. taken = 0 .. n - 1
  <2>1. ASSUME NEW i \in Int PROVE i \in taken <=> i \in 0 .. n - 1
    <3>1. CASE st = "release"
      BY <1>1, <3>1, RxSize DEF RxSlots
    <3>2. CASE st # "release"
      BY <1>1, <3>2, RxSize DEF RxSlots
    <3>3. QED  BY <3>1, <3>2
  <2>2. \A i \in taken : i \in Int
    BY RxSize
  <2>3. \A i \in 0 .. n - 1 : i \in Int
    BY <1>1
  <2> HIDE DEF taken
  <2>4. QED  BY <2>1, <2>2, <2>3
<1>4. Cardinality(taken) = n
  <2>1. n \in Nat
    BY <1>1, RxSize
  <2>2. QED  BY <1>3, <2>1, Below
<1> HIDE DEF taken
<1>5. RingOf(tab, get, st) = [i \in 1 .. n |-> e(i)]
  BY <1>2, <1>4
<1>6. n \in Nat /\ \A i \in 1 .. n : e(i) \in Frame
  <2>1. \A i \in 1 .. n : i - 1 \in RxSlots /\ i - 1 < n
    BY <1>1, RxSize DEF RxSlots
  <2>2. QED  BY <1>1, <2>1
<1> HIDE DEF e
<1>7. /\ RingOf(tab, get, st) \in Seq(Frame) /\ Len(RingOf(tab, get, st)) = n
      /\ \A i \in 1 .. n : RingOf(tab, get, st)[i] = e(i)
  BY <1>5, <1>6
<1>8. QED  BY <1>7 DEF e, at

Received(tab, dma, f) == [tab EXCEPT ![dma] = RxDesc(FALSE, f)]

(* A frame comes in: behind the others. *)
LEMMA RingReceives ==
  ASSUME NEW tab, NEW dma, NEW get, NEW st, NEW n, RxLined(tab, dma, get, st, n),
         NEW f \in Frame, tab[dma].own
  PROVE  LET new == Received(tab, dma, f)
         IN /\ RxLined(new, NextRx(dma), get, st, n + 1)
            /\ RingOf(new, get, st) = Append(RingOf(tab, get, st), f)
<1> DEFINE new == Received(tab, dma, f)
           at(i) == RxAt(tab, get, i)
           now(i) == RxAt(new, get, i)
<1>1. /\ tab \in RxTab /\ get \in RxSlots /\ n \in 0 .. RXBUFNB
      /\ dma = At(get, n, RXBUFNB) /\ (st = "release" => n < RXBUFNB)
      /\ \A i \in RxSlots : /\ at(i).own <=> n =< i /\ ~(st = "release" /\ i = RXBUFNB - 1)
                            /\ i < n => at(i).frame \in Frame
  BY DEF RxLined
<1>2. n < RXBUFNB /\ n \in RxSlots /\ at(n).own
  <2>1. n # RXBUFNB
    <3>1. SUFFICES ASSUME n = RXBUFNB PROVE FALSE
      OBVIOUS
    <3>2. dma = At(get, 0, RXBUFNB)
      BY <1>1, <3>1, RxSize, AtNext DEF RxSlots
    <3>3. 0 \in RxSlots /\ ~(n =< 0) /\ at(0).own
      BY <1>1, <3>1, <3>2, RxSize DEF RxSlots, RxAt
    <3>4. QED  BY <1>1, <3>3
  <2>2. n < RXBUFNB /\ n \in RxSlots
    BY <1>1, <2>1, RxSize DEF RxSlots
  <2>3. QED  BY <1>1, <2>2 DEF RxAt
<1>3. ~(st = "release" /\ n = RXBUFNB - 1)
  BY <1>1, <1>2
<1>4. \A i \in RxSlots : At(get, i, RXBUFNB) \in RxSlots
  <2>1. \A i \in RxSlots : i \in 0 .. RXBUFNB
    BY RxSize DEF RxSlots
  <2>2. QED  BY <1>1, <2>1, RxSize, AtIs DEF RxSlots
<1>5. \A i \in RxSlots : At(get, i, RXBUFNB) = dma => i = n
  BY <1>1, <1>2, RxSize, AtDiffers DEF RxSlots
<1>6. new \in RxTab /\ dma \in RxSlots
  BY <1>1, <1>2, <1>4 DEF RxTab, RxDesc, F0, Received
<1>7. \A i \in RxSlots : now(i) = IF i = n THEN RxDesc(FALSE, f) ELSE at(i)
  BY <1>1, <1>4, <1>5, <1>6 DEF RxAt, RxTab, Received
<1>8. NextRx(dma) = At(get, n + 1, RXBUFNB)
  <2>1. NextRx(dma) = At(At(get, n, RXBUFNB), 1, RXBUFNB)
    BY <1>1 DEF NextRx, At
  <2>2. get \in 0 .. RXBUFNB - 1 /\ n \in 0 .. RXBUFNB - 1
    BY <1>1, <1>2 DEF RxSlots
  <2>3. QED  BY <2>1, <2>2, RxSize, AtNext
<1>9. RxDesc(FALSE, f).own = FALSE /\ RxDesc(FALSE, f).frame = f
  BY DEF RxDesc
<1>10. n + 1 \in 0 .. RXBUFNB /\ (st = "release" => n + 1 < RXBUFNB)
  BY <1>1, <1>2, <1>3, RxSize DEF RxSlots
<1> HIDE DEF new, at, now
<1>11. \A i \in RxSlots : /\ now(i).own <=> n + 1 =< i /\ ~(st = "release" /\ i = RXBUFNB - 1)
                          /\ i < n + 1 => now(i).frame \in Frame
  <2>1. TAKE i \in RxSlots
  <2>2. CASE i = n
    <3>1. now(i).own = FALSE /\ now(i).frame = f
      BY <1>7, <1>9, <2>2
    <3>2. ~(n + 1 =< i) /\ i < n + 1
      BY <1>1, <2>2, RxSize
    <3>3. QED  BY <3>1, <3>2
  <2>3. CASE i # n
    <3>1. now(i) = at(i)
      BY <1>7, <2>3
    <3>2. (n + 1 =< i <=> n =< i) /\ (i < n + 1 <=> i < n)
      BY <1>1, <2>3, RxSize DEF RxSlots
    <3>3. QED  BY <1>1, <3>1, <3>2
  <2>4. QED  BY <2>2, <2>3
<1>12. RxLined(new, NextRx(dma), get, st, n + 1)
  BY <1>1, <1>6, <1>8, <1>10, <1>11 DEF RxLined, now
<1>13. RingOf(new, get, st) = Append(RingOf(tab, get, st), f)
  <2> DEFINE s == RingOf(tab, get, st)
             t == RingOf(new, get, st)
  <2>1. s \in Seq(Frame) /\ Len(s) = n /\ \A i \in 1 .. n : s[i] = at(i - 1).frame
    BY RingIsLine DEF at
  <2>2. t \in Seq(Frame) /\ Len(t) = n + 1 /\ \A i \in 1 .. n + 1 : t[i] = now(i - 1).frame
    BY <1>12, RingIsLine DEF now
  <2> HIDE DEF s, t
  <2>3. \A i \in 1 .. n : i - 1 \in RxSlots /\ i - 1 # n /\ i \in 1 .. n + 1
    BY <1>1, <1>2, RxSize DEF RxSlots
  <2>4. \A i \in 1 .. n : t[i] = s[i]
    BY <1>7, <2>1, <2>2, <2>3
  <2>5. t[n + 1] = f
    <3>1. n + 1 \in 1 .. n + 1 /\ (n + 1) - 1 = n
      BY <1>1
    <3>2. QED  BY <1>2, <1>7, <1>9, <2>2, <3>1
  <2>6. t = Append(s, f)
    BY <2>1, <2>2, <2>4, <2>5, LineGrows
  <2>7. QED  BY <2>6 DEF s, t
<1>14. QED  BY <1>12, <1>13 DEF new

(* The thread takes the first, whose descriptor is nobody's for a while; *)
LEMMA RingGets ==
  ASSUME NEW tab, NEW dma, NEW get, NEW st, NEW n, RxLined(tab, dma, get, st, n),
         st # "release", ~tab[get].own
  PROVE  /\ n - 1 \in Nat
         /\ RxLined(tab, dma, NextRx(get), "release", n - 1)
         /\ tab[get].frame \in Frame
         /\ RingOf(tab, get, st) = <<tab[get].frame>> \o RingOf(tab, NextRx(get), "release")
<1> DEFINE next == NextRx(get)
           at(i) == RxAt(tab, get, i)
           now(i) == RxAt(tab, next, i)
<1>1. /\ tab \in RxTab /\ get \in RxSlots /\ n \in 0 .. RXBUFNB
      /\ dma = At(get, n, RXBUFNB)
      /\ \A i \in RxSlots : /\ at(i).own <=> n =< i
                            /\ i < n => at(i).frame \in Frame
  BY DEF RxLined
<1>2. next = At(get, 1, RXBUFNB)
  BY DEF NextRx, At
<1>3. /\ next \in RxSlots
      /\ \A i \in RxSlots : At(next, i, RXBUFNB) = At(get, i + 1, RXBUFNB)
      /\ At(get, 0, RXBUFNB) = get /\ At(get, RXBUFNB, RXBUFNB) = get
  BY <1>1, <1>2, RxSize, AtNext DEF RxSlots
<1>4. 0 \in RxSlots /\ at(0) = tab[get]
  BY <1>3, RxSize DEF RxSlots, RxAt
<1>5. n - 1 \in RxSlots /\ 0 < n
  <2>1. ~(n =< 0)
    BY <1>1, <1>4
  <2>2. QED  BY <1>1, <2>1, RxSize DEF RxSlots
<1>6. dma = At(next, n - 1, RXBUFNB)
  <2>1. (n - 1) + 1 = n
    BY <1>1
  <2>2. QED  BY <1>1, <1>3, <1>5, <2>1
<1>7. \A i \in RxSlots : i # RXBUFNB - 1 => i + 1 \in RxSlots
  BY RxSize DEF RxSlots
<1>8. \A i \in RxSlots : i # RXBUFNB - 1 => now(i) = at(i + 1)
  BY <1>3 DEF RxAt
<1>9. now(RXBUFNB - 1) = at(0)
  <2>1. RXBUFNB - 1 \in RxSlots /\ (RXBUFNB - 1) + 1 = RXBUFNB
    BY RxSize DEF RxSlots
  <2>2. QED  BY <1>3, <2>1 DEF RxAt
<1>10. tab[get].frame \in Frame
  BY <1>1, <1>4, <1>5
<1> HIDE DEF at, now, next
<1>11. \A i \in RxSlots :
         /\ now(i).own <=> n - 1 =< i /\ ~("release" = "release" /\ i = RXBUFNB - 1)
         /\ i < n - 1 => now(i).frame \in Frame
  <2>1. TAKE i \in RxSlots
  <2>2. CASE i = RXBUFNB - 1
    <3>1. now(i) = at(0)
      BY <1>9, <2>2
    <3>2. ~at(0).own
      BY <1>4
    <3>3. ~(i < n - 1)
      BY <1>1, <2>2, RxSize
    <3>4. QED  BY <2>2, <3>1, <3>2, <3>3
  <2>3. CASE i # RXBUFNB - 1
    <3>1. now(i) = at(i + 1) /\ i + 1 \in RxSlots
      BY <1>7, <1>8, <2>3
    <3>2. (n =< i + 1 <=> n - 1 =< i) /\ (i + 1 < n <=> i < n - 1)
      BY <1>1, RxSize DEF RxSlots
    <3>3. QED  BY <1>1, <2>3, <3>1, <3>2
  <2>4. QED  BY <2>2, <2>3
<1>12. n - 1 \in 0 .. RXBUFNB /\ n - 1 < RXBUFNB
  BY <1>5, RxSize DEF RxSlots
<1>13. RxLined(tab, dma, next, "release", n - 1)
  BY <1>1, <1>3, <1>6, <1>11, <1>12 DEF RxLined, now
<1>14. RingOf(tab, get, st) = <<tab[get].frame>> \o RingOf(tab, next, "release")
  <2> DEFINE s == RingOf(tab, get, st)
             t == RingOf(tab, next, "release")
  <2>1. s \in Seq(Frame) /\ Len(s) = n /\ \A i \in 1 .. n : s[i] = at(i - 1).frame
    BY RingIsLine DEF at
  <2>2. t \in Seq(Frame) /\ Len(t) = n - 1 /\ \A i \in 1 .. n - 1 : t[i] = now(i - 1).frame
    BY <1>13, RingIsLine DEF now
  <2> HIDE DEF s, t
  <2>3. \A i \in 1 .. n - 1 : /\ i - 1 \in RxSlots /\ i - 1 # RXBUFNB - 1
                              /\ (i - 1) + 1 = i /\ i + 1 \in 1 .. n /\ (i + 1) - 1 = i
    BY <1>1, <1>5, RxSize DEF RxSlots
  <2>4. \A i \in 1 .. n - 1 : t[i] = s[i + 1]
    BY <1>8, <2>1, <2>2, <2>3
  <2>5. s[1] = tab[get].frame
    <3>1. 1 \in 1 .. n /\ 1 - 1 = 0
      BY <1>1, <1>5, RxSize
    <3>2. QED  BY <1>4, <2>1, <3>1
  <2>6. Len(s) = Len(t) + 1
    BY <1>1, <2>1, <2>2
  <2>7. \A i \in 1 .. Len(t) : t[i] = s[i + 1]
    BY <2>2, <2>4
  <2>8. s = <<s[1]>> \o t
    BY <2>1, <2>2, <2>6, <2>7, LineShrinks
  <2>9. QED  BY <2>5, <2>8 DEF s, t
<1>15. n - 1 \in Nat
  BY <1>1, <1>5, RxSize
<1>16. QED  BY <1>10, <1>13, <1>14, <1>15 DEF next

Released(tab, get) == [tab EXCEPT ![(get + RXBUFNB - 1) % RXBUFNB] = RxDesc(TRUE, NoFrame)]

(* then it gives the descriptor back; *)
LEMMA RingReleases ==
  ASSUME NEW tab, NEW dma, NEW get, NEW n, RxLined(tab, dma, get, "release", n)
  PROVE  LET new == Released(tab, get)
         IN /\ RxLined(new, dma, get, "resume", n)
            /\ RingOf(new, get, "resume") = RingOf(tab, get, "release")
<1> DEFINE end == (get + RXBUFNB - 1) % RXBUFNB
           new == Released(tab, get)
           at(i) == RxAt(tab, get, i)
           now(i) == RxAt(new, get, i)
<1>1. /\ tab \in RxTab /\ get \in RxSlots /\ n \in 0 .. RXBUFNB
      /\ dma = At(get, n, RXBUFNB) /\ n < RXBUFNB
      /\ \A i \in RxSlots : /\ at(i).own <=> n =< i /\ ~(i = RXBUFNB - 1)
                            /\ i < n => at(i).frame \in Frame
  BY DEF RxLined
<1>2. end = At(get, RXBUFNB - 1, RXBUFNB)
  BY DEF At
<1>3. RXBUFNB - 1 \in RxSlots /\ \A i \in RxSlots : i \in 0 .. RXBUFNB
  BY RxSize DEF RxSlots
<1>4. end \in RxSlots /\ \A i \in RxSlots : At(get, i, RXBUFNB) \in RxSlots
  BY <1>1, <1>2, <1>3, RxSize, AtIs DEF RxSlots
<1>5. \A i \in RxSlots : At(get, i, RXBUFNB) = end => i = RXBUFNB - 1
  BY <1>1, <1>2, <1>3, RxSize, AtDiffers DEF RxSlots
<1>6. new = [tab EXCEPT ![end] = RxDesc(TRUE, NoFrame)]
  BY DEF Released
<1> HIDE DEF end, new
<1>13. new \in RxTab
  BY <1>1, <1>4, <1>6 DEF RxTab, RxDesc, F0
<1>7. \A i \in RxSlots : now(i) = IF i = RXBUFNB - 1 THEN RxDesc(TRUE, NoFrame) ELSE at(i)
  BY <1>1, <1>2, <1>4, <1>5, <1>6, <1>13 DEF RxAt, RxTab
<1>8. RxDesc(TRUE, NoFrame).own = TRUE
  BY DEF RxDesc
<1> HIDE DEF at, now
<1>9. \A i \in RxSlots : /\ now(i).own <=> n =< i /\ ~("resume" = "release" /\ i = RXBUFNB - 1)
                         /\ i < n => now(i).frame \in Frame
  <2>1. TAKE i \in RxSlots
  <2>2. CASE i = RXBUFNB - 1
    <3>1. now(i).own = TRUE
      BY <1>7, <1>8, <2>2
    <3>2. n =< i
      BY <1>1, <2>2, RxSize
    <3>3. ~(i < n)
      BY <1>1, <2>2, RxSize
    <3>4. QED  BY <3>1, <3>2, <3>3
  <2>3. CASE i # RXBUFNB - 1
    <3>1. now(i) = at(i)
      BY <1>7, <2>3
    <3>2. QED  BY <1>1, <2>3, <3>1
  <2>4. QED  BY <2>2, <2>3
<1>10. RxLined(new, dma, get, "resume", n)
  BY <1>1, <1>9, <1>13 DEF RxLined, now
<1>11. RingOf(new, get, "resume") = RingOf(tab, get, "release")
  <2> DEFINE s == RingOf(tab, get, "release")
             t == RingOf(new, get, "resume")
  <2>1. s \in Seq(Frame) /\ Len(s) = n /\ \A i \in 1 .. n : s[i] = at(i - 1).frame
    BY RingIsLine DEF at
  <2>2. t \in Seq(Frame) /\ Len(t) = n /\ \A i \in 1 .. n : t[i] = now(i - 1).frame
    BY <1>10, RingIsLine DEF now
  <2> HIDE DEF s, t
  <2>3. \A i \in 1 .. n : i - 1 \in RxSlots /\ i - 1 # RXBUFNB - 1
    BY <1>1, RxSize DEF RxSlots
  <2>4. \A i \in 1 .. n : t[i] = s[i]
    BY <1>7, <2>1, <2>2, <2>3
  <2>5. t = s
    BY <2>1, <2>2, <2>4, SeqEqual
  <2>6. QED  BY <2>5 DEF s, t
<1>12. QED  BY <1>10, <1>11 DEF new, end

(* and nothing else that it does is seen in the ring. *)
LEMMA RingSame ==
  ASSUME NEW tab, NEW dma, NEW get, NEW st, NEW n, RxLined(tab, dma, get, st, n),
         NEW new, st # "release", new # "release"
  PROVE  /\ RxLined(tab, dma, get, new, n)
         /\ RingOf(tab, get, new) = RingOf(tab, get, st)
BY DEF RxLined, RingOf

-----------------------------------------------------------------------------
(* The send ring: n frames from tx_dma on, then descriptors of the CPU.    *)
TxSlots == 0 .. TXBUFNB - 1

TxTab == [TxSlots -> [own : BOOLEAN, len : F0, buffer : F0]]

TxAt(tab, dma, i) == tab[At(dma, i, TXBUFNB)]

TxLined(tab, dma, set, n) ==
  /\ tab \in TxTab /\ dma \in TxSlots /\ n \in 0 .. TXBUFNB
  /\ set = At(dma, n, TXBUFNB)
  /\ \A i \in TxSlots : TxAt(tab, dma, i).own <=> i < n

TxLines(tab, dma, set) == \E n \in 0 .. TXBUFNB : TxLined(tab, dma, set, n)

Item(l, b) == [len |-> l, data |-> b]

Items == [len : F0, data : F0]

Waiting(tab, dma) ==
  LET at(i) == tab[(dma + i) % TXBUFNB]
      n == Cardinality({i \in 0 .. TXBUFNB - 1 : at(i).own})
  IN [i \in 1 .. n |-> [len |-> at(i - 1).len, data |-> at(i - 1).buffer]]

(* There are descriptors. *)
LEMMA TxSize == TXBUFNB \in Nat \ {0}
BY EthernetAssumption

(* Where the descriptors of a line are. *)
LEMMA TxPlaces ==
  ASSUME NEW tab, NEW dma, NEW set, NEW n, TxLined(tab, dma, set, n)
  PROVE  /\ \A i \in TxSlots : At(dma, i, TXBUFNB) \in TxSlots
         /\ \A i \in TxSlots : \A j \in TxSlots :
              At(dma, i, TXBUFNB) = At(dma, j, TXBUFNB) => i = j
         /\ set \in TxSlots /\ At(dma, 0, TXBUFNB) = dma /\ 0 \in TxSlots
         /\ n = TXBUFNB => set = dma
         /\ n # TXBUFNB => n \in TxSlots
<1>1. dma \in 0 .. TXBUFNB - 1 /\ n \in 0 .. TXBUFNB /\ set = At(dma, n, TXBUFNB)
  BY DEF TxLined, TxSlots
<1>2. \A i \in 0 .. TXBUFNB : At(dma, i, TXBUFNB) \in 0 .. TXBUFNB - 1
  BY <1>1, TxSize, AtIs
<1>3. At(dma, 0, TXBUFNB) = dma /\ At(dma, TXBUFNB, TXBUFNB) = dma
  BY <1>1, TxSize, AtNext
<1>4. \A i \in TxSlots : \A j \in TxSlots :
        At(dma, i, TXBUFNB) = At(dma, j, TXBUFNB) => i = j
  BY <1>1, TxSize, AtDiffers DEF TxSlots
<1>5. \A i \in TxSlots : i \in 0 .. TXBUFNB
  BY TxSize DEF TxSlots
<1>6. 0 \in TxSlots /\ (n # TXBUFNB => n \in TxSlots)
  BY <1>1, TxSize DEF TxSlots
<1>7. \A i \in TxSlots : At(dma, i, TXBUFNB) \in TxSlots
  BY <1>2, <1>5 DEF TxSlots
<1>8. set \in TxSlots
  BY <1>1, <1>2 DEF TxSlots
<1>9. QED  BY <1>1, <1>3, <1>4, <1>6, <1>7, <1>8

(* Counting the DMA's descriptors gives the frames. *)
LEMMA WaitingIsLine ==
  ASSUME NEW tab, NEW dma, NEW set, NEW n, TxLined(tab, dma, set, n)
  PROVE  /\ Waiting(tab, dma) \in Seq(Items) /\ Len(Waiting(tab, dma)) = n
         /\ \A i \in 1 .. n :
              /\ i - 1 \in TxSlots
              /\ Waiting(tab, dma)[i]
                 = Item(TxAt(tab, dma, i - 1).len, TxAt(tab, dma, i - 1).buffer)
<1> DEFINE at(i) == TxAt(tab, dma, i)
           owned == {i \in 0 .. TXBUFNB - 1 : at(i).own}
           e(i) == Item(at(i - 1).len, at(i - 1).buffer)
<1>1. /\ tab \in TxTab /\ n \in 0 .. TXBUFNB
      /\ \A i \in TxSlots : at(i).own <=> i < n
  BY DEF TxLined
<1>2. Waiting(tab, dma) = [i \in 1 .. Cardinality(owned) |-> e(i)]
  BY DEF Waiting, TxAt, At, Item
<1>3. \A i \in TxSlots : at(i).len \in F0 /\ at(i).buffer \in F0
  BY <1>1, TxPlaces DEF TxTab, TxAt
<1> HIDE DEF at
<1>4. owned = 0 .. n - 1
  <2>1. ASSUME NEW i \in Int PROVE i \in owned <=> i \in 0 .. n - 1
    BY <1>1, TxSize DEF TxSlots
  <2>2. \A i \in owned : i \in Int
    BY TxSize
  <2>3. \A i \in 0 .. n - 1 : i \in Int
    BY <1>1
  <2> HIDE DEF owned
  <2>4. QED  BY <2>1, <2>2, <2>3
<1>5. Cardinality(owned) = n
  <2>1. n \in Nat
    BY <1>1, TxSize
  <2>2. QED  BY <1>4, <2>1, Below
<1> HIDE DEF owned
<1>6. Waiting(tab, dma) = [i \in 1 .. n |-> e(i)]
  BY <1>2, <1>5
<1>7. \A i \in 1 .. n : i - 1 \in TxSlots
  BY <1>1, TxSize DEF TxSlots
<1>8. n \in Nat /\ \A i \in 1 .. n : e(i) \in Items
  BY <1>1, <1>3, <1>7, TxSize DEF Items, Item
<1> HIDE DEF e
<1>9. /\ Waiting(tab, dma) \in Seq(Items) /\ Len(Waiting(tab, dma)) = n
      /\ \A i \in 1 .. n : Waiting(tab, dma)[i] = e(i)
  BY <1>6, <1>8
<1>10. QED  BY <1>7, <1>9 DEF e, at

Copied(tab, set, f) == [tab EXCEPT ![set] = TxDesc(tab[set].own, tab[set].len, f)]

(* A frame is copied to the next buffer: unseen while that is the CPU's,   *)
(* and else in place of the first.                                         *)
LEMMA WaitingCopies ==
  ASSUME NEW tab, NEW dma, NEW set, NEW n, TxLined(tab, dma, set, n), NEW f \in Frame
  PROVE  LET new == Copied(tab, set, f)
             s == Waiting(tab, dma)
             t == Waiting(new, dma)
         IN /\ TxLined(new, dma, set, n)
            /\ new[set].buffer = f /\ new[dma].own = tab[dma].own
            /\ n # TXBUFNB => t = s
            /\ n = TXBUFNB => /\ Len(s) = TXBUFNB /\ s # <<>> /\ Tail(t) = Tail(s)
                              /\ t = <<Item(Head(s).len, f)>> \o Tail(s)
<1> DEFINE d == tab[set]
           new == Copied(tab, set, f)
           at(i) == TxAt(tab, dma, i)
           now(i) == TxAt(new, dma, i)
           s == Waiting(tab, dma)
           t == Waiting(new, dma)
<1>1. /\ tab \in TxTab /\ dma \in TxSlots /\ n \in 0 .. TXBUFNB
      /\ set = At(dma, n, TXBUFNB)
      /\ \A i \in TxSlots : at(i).own <=> i < n
  BY DEF TxLined
<1>2. /\ \A i \in TxSlots : At(dma, i, TXBUFNB) \in TxSlots
      /\ \A i \in TxSlots : \A j \in TxSlots :
              At(dma, i, TXBUFNB) = At(dma, j, TXBUFNB) => i = j
      /\ set \in TxSlots /\ At(dma, 0, TXBUFNB) = dma /\ 0 \in TxSlots
      /\ n = TXBUFNB => set = dma
      /\ n # TXBUFNB => n \in TxSlots
  BY TxPlaces
<1>3. d.own \in BOOLEAN /\ d.len \in F0 /\ f \in F0
  BY <1>1, <1>2 DEF TxTab, F0
<1>4. new \in TxTab
  <2>1. TxDesc(d.own, d.len, f) \in [own : BOOLEAN, len : F0, buffer : F0]
    BY <1>3 DEF TxDesc
  <2>2. QED  BY <1>1, <2>1 DEF TxTab, Copied
<1>5. \A i \in TxSlots :
        new[i] = IF i = set THEN TxDesc(tab[i].own, tab[i].len, f) ELSE tab[i]
  BY <1>1 DEF TxTab, Copied
<1>6. \A i \in TxSlots :
        /\ new[i].own = tab[i].own /\ new[i].len = tab[i].len
        /\ i # set => new[i] = tab[i]
  <2>1. \A i \in TxSlots : /\ TxDesc(tab[i].own, tab[i].len, f).own = tab[i].own
                           /\ TxDesc(tab[i].own, tab[i].len, f).len = tab[i].len
    BY DEF TxDesc
  <2> HIDE DEF new
  <2>2. QED  BY <1>5, <2>1
<1>7. new[set].buffer = f
  <2>1. TxDesc(tab[set].own, tab[set].len, f).buffer = f
    BY DEF TxDesc
  <2> HIDE DEF new
  <2>2. QED  BY <1>2, <1>5, <2>1
<1> HIDE DEF new
<1>8. \A i \in TxSlots : now(i).own = at(i).own /\ now(i).len = at(i).len
  BY <1>2, <1>6 DEF TxAt
<1>9. TxLined(new, dma, set, n)
  BY <1>1, <1>4, <1>8 DEF TxLined
<1>10. /\ s \in Seq(Items) /\ Len(s) = n
       /\ \A i \in 1 .. n : i - 1 \in TxSlots /\ s[i] = Item(at(i - 1).len, at(i - 1).buffer)
  BY WaitingIsLine
<1>11. /\ t \in Seq(Items) /\ Len(t) = n
       /\ \A i \in 1 .. n : i - 1 \in TxSlots /\ t[i] = Item(now(i - 1).len, now(i - 1).buffer)
  BY <1>9, WaitingIsLine
<1> HIDE DEF s, t, d
<1>12. ASSUME n # TXBUFNB PROVE t = s
  <2>1. \A i \in 1 .. n : i - 1 # n
    BY <1>1
  <2>2. \A i \in 1 .. n : now(i - 1) = at(i - 1)
    BY <1>1, <1>2, <1>6, <1>10, <1>12, <2>1 DEF TxAt
  <2> HIDE DEF at, now
  <2>3. \A i \in 1 .. n : t[i] = s[i]
    BY <1>10, <1>11, <2>2
  <2>4. QED  BY <1>10, <1>11, <2>3, SeqEqual
<1>13. ASSUME n = TXBUFNB
       PROVE  /\ Len(s) = TXBUFNB /\ s # <<>> /\ Tail(t) = Tail(s)
              /\ t = <<Item(Head(s).len, f)>> \o Tail(s)
  <2>1. set = dma /\ n # 0 /\ n \in Nat
    BY <1>2, <1>13, TxSize
  <2>2. \A i \in 2 .. n : i \in 1 .. n /\ i - 1 \in TxSlots /\ i - 1 # 0
    BY <1>13, TxSize DEF TxSlots
  <2>3. \A i \in 2 .. n : now(i - 1) = at(i - 1)
    BY <1>2, <1>6, <2>1, <2>2 DEF TxAt
  <2>4. now(0).len = at(0).len /\ now(0).buffer = f
    BY <1>2, <1>7, <1>8, <2>1 DEF TxAt
  <2> HIDE DEF at, now
  <2>5. \A i \in 2 .. n : t[i] = s[i]
    BY <1>10, <1>11, <2>2, <2>3
  <2>6. /\ s # <<>> /\ Head(s) = s[1] /\ Tail(t) = Tail(s)
        /\ t = <<t[1]>> \o Tail(s)
    BY <1>10, <1>11, <2>1, <2>5, LineChanges
  <2>7. t[1] = Item(Head(s).len, f)
    <3>1. 1 \in 1 .. n /\ 1 - 1 = 0
      BY <2>1
    <3>2. t[1] = Item(now(0).len, now(0).buffer) /\ s[1] = Item(at(0).len, at(0).buffer)
      BY <1>10, <1>11, <3>1
    <3>3. s[1].len = at(0).len
      BY <3>2 DEF Item
    <3>4. QED  BY <2>4, <2>6, <3>2, <3>3
  <2>8. QED  BY <1>10, <1>13, <2>6, <2>7
<1>14. new[dma].own = tab[dma].own
  BY <1>1, <1>6
<1>15. QED  BY <1>7, <1>9, <1>12, <1>13, <1>14 DEF new, s, t, d

Prepared(tab, set, f) == [tab EXCEPT ![set] = TxDesc(TRUE, f, tab[set].buffer)]

(* The next descriptor is given to the DMA: a frame joins the line, *)
LEMMA WaitingPrepares ==
  ASSUME NEW tab, NEW dma, NEW set, NEW n, TxLined(tab, dma, set, n), NEW f \in Frame,
         ~tab[set].own
  PROVE  LET new == Prepared(tab, set, f)
         IN /\ TxLined(new, dma, NextTx(set), n + 1)
            /\ n < TXBUFNB /\ Len(Waiting(tab, dma)) = n
            /\ Item(f, tab[set].buffer) \in Items
            /\ n # 0 => new[dma] = tab[dma]
            /\ Waiting(new, dma) = Append(Waiting(tab, dma), Item(f, tab[set].buffer))
<1> DEFINE b == tab[set].buffer
           new == Prepared(tab, set, f)
           at(i) == TxAt(tab, dma, i)
           now(i) == TxAt(new, dma, i)
<1>1. /\ tab \in TxTab /\ dma \in TxSlots /\ n \in 0 .. TXBUFNB
      /\ set = At(dma, n, TXBUFNB)
      /\ \A i \in TxSlots : at(i).own <=> i < n
  BY DEF TxLined
<1>2. /\ \A i \in TxSlots : At(dma, i, TXBUFNB) \in TxSlots
      /\ \A i \in TxSlots : \A j \in TxSlots :
              At(dma, i, TXBUFNB) = At(dma, j, TXBUFNB) => i = j
      /\ set \in TxSlots /\ At(dma, 0, TXBUFNB) = dma /\ 0 \in TxSlots
      /\ n = TXBUFNB => set = dma
      /\ n # TXBUFNB => n \in TxSlots
  BY TxPlaces
<1>3. n < TXBUFNB /\ n \in TxSlots
  <2>1. SUFFICES ASSUME n = TXBUFNB PROVE FALSE
    BY <1>1, <1>2, TxSize
  <2>2. ~at(0).own /\ 0 < n
    BY <1>2, <2>1, TxSize DEF TxAt
  <2>3. QED  BY <1>1, <1>2, <2>2
<1>4. b \in F0 /\ f \in F0
  BY <1>1, <1>2 DEF TxTab, F0
<1>5. new \in TxTab
  <2>1. TxDesc(TRUE, f, b) \in [own : BOOLEAN, len : F0, buffer : F0]
    BY <1>4 DEF TxDesc
  <2>2. QED  BY <1>1, <2>1 DEF TxTab, Prepared
<1>6. \A i \in TxSlots : new[i] = IF i = set THEN TxDesc(TRUE, f, b) ELSE tab[i]
  BY <1>1 DEF TxTab, Prepared
<1>7. Item(f, b) \in Items
  BY <1>4 DEF Item, Items
<1> HIDE DEF b, new
<1>8. \A i \in TxSlots : i # n => now(i) = at(i)
  BY <1>1, <1>2, <1>3, <1>6 DEF TxAt
<1>9. now(n) = TxDesc(TRUE, f, b)
  BY <1>1, <1>2, <1>3, <1>6 DEF TxAt
<1>10. now(n).own = TRUE /\ now(n).len = f /\ now(n).buffer = b
  BY <1>9 DEF TxDesc
<1> HIDE DEF at, now
<1>11. \A i \in TxSlots : now(i).own <=> i < n + 1
  <2>1. TAKE i \in TxSlots
  <2>2. CASE i = n
    <3>1. i < n + 1
      BY <1>1, <2>2
    <3>2. QED  BY <1>10, <2>2, <3>1
  <2>3. CASE i # n
    <3>1. now(i) = at(i)
      BY <1>8, <2>3
    <3>2. i < n + 1 <=> i < n
      BY <1>1, <2>3 DEF TxSlots
    <3>3. QED  BY <1>1, <3>1, <3>2
  <2>4. QED  BY <2>2, <2>3
<1>12. NextTx(set) = At(dma, n + 1, TXBUFNB)
  <2>1. NextTx(set) = At(At(dma, n, TXBUFNB), 1, TXBUFNB)
    BY <1>1 DEF NextTx, At
  <2>2. dma \in 0 .. TXBUFNB - 1 /\ n \in 0 .. TXBUFNB - 1
    BY <1>1, <1>3 DEF TxSlots
  <2>3. QED  BY <2>1, <2>2, TxSize, AtNext
<1>13. TxLined(new, dma, NextTx(set), n + 1)
  <2>1. n + 1 \in 0 .. TXBUFNB
    BY <1>1, <1>3, TxSize
  <2>2. QED  BY <1>1, <1>5, <1>11, <1>12, <2>1 DEF TxLined, now
<1> DEFINE s == Waiting(tab, dma)
           t == Waiting(new, dma)
<1>14. /\ s \in Seq(Items) /\ Len(s) = n
       /\ \A i \in 1 .. n : i - 1 \in TxSlots /\ s[i] = Item(at(i - 1).len, at(i - 1).buffer)
  BY WaitingIsLine DEF at
<1>15. /\ t \in Seq(Items) /\ Len(t) = n + 1
       /\ \A i \in 1 .. n + 1 :
            i - 1 \in TxSlots /\ t[i] = Item(now(i - 1).len, now(i - 1).buffer)
  BY <1>13, WaitingIsLine DEF now
<1> HIDE DEF s, t
<1>16. t = Append(s, Item(f, b))
  <2>1. \A i \in 1 .. n : i \in 1 .. n + 1 /\ i - 1 # n
    BY <1>1
  <2>2. \A i \in 1 .. n : t[i] = s[i]
    BY <1>8, <1>14, <1>15, <2>1
  <2>3. t[n + 1] = Item(f, b)
    <3>1. n + 1 \in 1 .. n + 1 /\ (n + 1) - 1 = n
      BY <1>1
    <3>2. QED  BY <1>10, <1>15, <3>1
  <2>4. QED  BY <1>7, <1>14, <1>15, <2>2, <2>3, LineGrows
<1>17. n # 0 => new[dma] = tab[dma]
  BY <1>2, <1>8 DEF at, now, TxAt
<1>18. QED  BY <1>3, <1>7, <1>13, <1>14, <1>16, <1>17 DEF new, b, s, t

Sent(tab, dma) == [tab EXCEPT ![dma] = TxDesc(FALSE, tab[dma].len, tab[dma].buffer)]

(* and leaves it when the first has been sent.                             *)
LEMMA WaitingSends ==
  ASSUME NEW tab, NEW dma, NEW set, NEW n, TxLined(tab, dma, set, n), tab[dma].own
  PROVE  LET new == Sent(tab, dma)
             s == Waiting(tab, dma)
             t == Waiting(new, NextTx(dma))
         IN /\ TxLined(new, NextTx(dma), set, n - 1) /\ n - 1 \in 0 .. TXBUFNB
            /\ \A i \in TxSlots : new[i].buffer = tab[i].buffer
            /\ Item(tab[dma].len, tab[dma].buffer) \in Items
            /\ s # <<>> /\ Tail(s) = t
            /\ s = <<Item(tab[dma].len, tab[dma].buffer)>> \o t
<1> DEFINE d == tab[dma]
           new == Sent(tab, dma)
           next == NextTx(dma)
           at(i) == TxAt(tab, dma, i)
           now(i) == TxAt(new, next, i)
           first == Item(d.len, d.buffer)
<1>1. /\ tab \in TxTab /\ dma \in TxSlots /\ n \in 0 .. TXBUFNB
      /\ set = At(dma, n, TXBUFNB)
      /\ \A i \in TxSlots : at(i).own <=> i < n
  BY DEF TxLined
<1>2. /\ \A i \in TxSlots : At(dma, i, TXBUFNB) \in TxSlots
      /\ \A i \in TxSlots : \A j \in TxSlots :
              At(dma, i, TXBUFNB) = At(dma, j, TXBUFNB) => i = j
      /\ At(dma, 0, TXBUFNB) = dma /\ 0 \in TxSlots
  BY TxPlaces
<1>3. next = At(dma, 1, TXBUFNB)
  BY DEF NextTx, At
<1>4. /\ next \in TxSlots
      /\ \A i \in TxSlots : At(next, i, TXBUFNB) = At(dma, i + 1, TXBUFNB)
      /\ At(dma, TXBUFNB, TXBUFNB) = dma
  BY <1>1, <1>3, TxSize, AtNext DEF TxSlots
<1>5. at(0) = d
  BY <1>2 DEF TxAt
<1>6. n - 1 \in TxSlots /\ 0 < n /\ n - 1 \in 0 .. TXBUFNB
  <2>1. 0 < n
    BY <1>1, <1>2, <1>5
  <2>2. QED  BY <1>1, <2>1, TxSize DEF TxSlots
<1>7. d.len \in F0 /\ d.buffer \in F0
  BY <1>1 DEF TxTab
<1>8. new \in TxTab
  <2>1. TxDesc(FALSE, d.len, d.buffer) \in [own : BOOLEAN, len : F0, buffer : F0]
    BY <1>7 DEF TxDesc
  <2>2. QED  BY <1>1, <2>1 DEF TxTab, Sent
<1>9. \A i \in TxSlots : new[i] = IF i = dma THEN TxDesc(FALSE, d.len, d.buffer) ELSE tab[i]
  BY <1>1 DEF TxTab, Sent
<1>10. /\ TxDesc(FALSE, d.len, d.buffer).own = FALSE
       /\ TxDesc(FALSE, d.len, d.buffer).buffer = d.buffer
  BY DEF TxDesc
<1>11. first \in Items
  BY <1>7 DEF Item, Items
<1> HIDE DEF new, next
<1>12. \A i \in TxSlots : new[i].buffer = tab[i].buffer
  BY <1>9, <1>10
<1>13. new[dma].own = FALSE
  BY <1>1, <1>9, <1>10
<1>14. \A i \in TxSlots : i # TXBUFNB - 1 => i + 1 \in TxSlots /\ i + 1 # 0
  BY TxSize DEF TxSlots
<1>15. \A i \in TxSlots : i # TXBUFNB - 1 => now(i) = at(i + 1)
  <2>1. TAKE i \in TxSlots
  <2>2. HAVE i # TXBUFNB - 1
  <2> DEFINE j == i + 1
  <2>3. j \in TxSlots /\ j # 0
    BY <1>14, <2>2
  <2>4. At(next, i, TXBUFNB) = At(dma, j, TXBUFNB)
    BY <1>4
  <2> HIDE DEF j
  <2>5. At(dma, j, TXBUFNB) \in TxSlots /\ At(dma, j, TXBUFNB) # dma
    BY <1>2, <2>3
  <2>6. now(i) = at(j)
    BY <1>9, <2>4, <2>5 DEF TxAt
  <2>7. QED  BY <2>6 DEF j
<1>16. now(TXBUFNB - 1).own = FALSE
  <2>1. TXBUFNB - 1 \in TxSlots /\ (TXBUFNB - 1) + 1 = TXBUFNB
    BY TxSize DEF TxSlots
  <2>2. At(next, TXBUFNB - 1, TXBUFNB) = dma
    BY <1>4, <2>1
  <2>3. QED  BY <1>13, <2>2 DEF TxAt
<1> HIDE DEF at, now, d
<1>17. \A i \in TxSlots : now(i).own <=> i < n - 1
  <2>1. TAKE i \in TxSlots
  <2>2. CASE i = TXBUFNB - 1
    <3>1. ~(i < n - 1)
      BY <1>1, <2>2, TxSize
    <3>2. QED  BY <1>16, <2>2, <3>1
  <2>3. CASE i # TXBUFNB - 1
    <3>1. now(i) = at(i + 1) /\ i + 1 \in TxSlots
      BY <1>14, <1>15, <2>3
    <3>2. i + 1 < n <=> i < n - 1
      BY <1>1, TxSize DEF TxSlots
    <3>3. QED  BY <1>1, <3>1, <3>2
  <2>4. QED  BY <2>2, <2>3
<1>18. set = At(next, n - 1, TXBUFNB)
  <2>1. (n - 1) + 1 = n
    BY <1>1
  <2>2. QED  BY <1>1, <1>4, <1>6, <2>1
<1>19. TxLined(new, next, set, n - 1)
  BY <1>4, <1>6, <1>8, <1>17, <1>18 DEF TxLined, now
<1> DEFINE s == Waiting(tab, dma)
           t == Waiting(new, next)
<1>20. /\ s \in Seq(Items) /\ Len(s) = n
       /\ \A i \in 1 .. n : i - 1 \in TxSlots /\ s[i] = Item(at(i - 1).len, at(i - 1).buffer)
  BY WaitingIsLine DEF at
<1>21. /\ t \in Seq(Items) /\ Len(t) = n - 1
       /\ \A i \in 1 .. n - 1 :
            i - 1 \in TxSlots /\ t[i] = Item(now(i - 1).len, now(i - 1).buffer)
  BY <1>19, WaitingIsLine DEF now
<1> HIDE DEF s, t, first
<1>22. \A i \in 1 .. Len(t) : t[i] = s[i + 1]
  <2>1. \A i \in 1 .. n - 1 : /\ i + 1 \in 1 .. n /\ (i + 1) - 1 = i /\ (i - 1) + 1 = i
                              /\ i - 1 # TXBUFNB - 1
    BY <1>1, TxSize
  <2>2. ASSUME NEW i \in 1 .. n - 1 PROVE t[i] = s[i + 1]
    <3>1. t[i] = Item(now(i - 1).len, now(i - 1).buffer) /\ i - 1 \in TxSlots
      BY <1>21
    <3>2. now(i - 1) = at(i)
      BY <1>15, <2>1, <3>1
    <3>3. s[i + 1] = Item(at(i).len, at(i).buffer)
      BY <1>20, <2>1
    <3>4. QED  BY <3>1, <3>2, <3>3
  <2>3. QED  BY <1>21, <2>2
<1>23. s[1] = first
  <2>1. 1 \in 1 .. n /\ 1 - 1 = 0
    BY <1>1, <1>6, TxSize
  <2>2. QED  BY <1>5, <1>20, <2>1 DEF first
<1>24. Len(s) = Len(t) + 1
  BY <1>1, <1>20, <1>21
<1>25. s # <<>> /\ Tail(s) = t /\ s = <<s[1]>> \o t
  BY <1>20, <1>21, <1>22, <1>24, LineShrinks
<1>26. QED  BY <1>6, <1>11, <1>12, <1>19, <1>23, <1>25 DEF new, next, d, s, t, first

-----------------------------------------------------------------------------
(* What is in the line on the way in. *)
Mail == Frame \cup Caller

(* Of mails s, e and t in a row, s and t are left when e goes, *)
LEMMA RemoveBetween ==
  ASSUME NEW s \in Seq(Mail), NEW t \in Seq(Mail), NEW e \in Mail
  PROVE  /\ s \o <<e>> \o t \in Seq(Mail)
         /\ Len(s \o <<e>> \o t) = Len(s) + Len(t) + 1
         /\ (s \o <<e>> \o t)[Len(s) + 1] = e
         /\ Path!RemoveAt(s \o <<e>> \o t, Len(s) + 1) = s \o t
<1> DEFINE u == s \o <<e>> \o t
           m == Len(s)
           n == Len(t)
           before == SubSeq(u, 1, m)
           after == SubSeq(u, m + 2, m + n + 1)
<1>1. <<e>> \in Seq(Mail) /\ Len(<<e>>) = 1 /\ <<e>>[1] = e
  OBVIOUS
<1>2. m \in Nat /\ n \in Nat
  BY LenProperties
<1>3. /\ s \o <<e>> \in Seq(Mail) /\ Len(s \o <<e>>) = m + 1
      /\ \A i \in 1 .. m + 1 : (s \o <<e>>)[i] = IF i =< m THEN s[i] ELSE e
  <2>1. /\ s \o <<e>> \in Seq(Mail) /\ Len(s \o <<e>>) = m + 1
        /\ \A i \in 1 .. m + 1 :
              (s \o <<e>>)[i] = IF i =< m THEN s[i] ELSE <<e>>[i - m]
    BY <1>1, ConcatProperties
  <2>2. \A i \in 1 .. m + 1 : ~(i =< m) => i - m = 1
    BY <1>2
  <2>3. QED  BY <1>1, <2>1, <2>2
<1>4. /\ u \in Seq(Mail) /\ Len(u) = m + 1 + n
      /\ \A i \in 1 .. m + 1 + n :
            u[i] = IF i =< m + 1 THEN (s \o <<e>>)[i] ELSE t[i - (m + 1)]
  BY <1>3, ConcatProperties
<1> HIDE DEF u
<1>5. /\ \A i \in 1 .. m : u[i] = s[i]
      /\ u[m + 1] = e
      /\ \A i \in 1 .. n : u[m + 1 + i] = t[i]
  <2>1. \A i \in 1 .. m : u[i] = s[i]
    BY <1>2, <1>3, <1>4
  <2>2. u[m + 1] = e
    BY <1>2, <1>3, <1>4
  <2>3. ASSUME NEW i \in 1 .. n PROVE u[m + 1 + i] = t[i]
    <3>1. /\ m + 1 + i \in 1 .. m + 1 + n
          /\ ~(m + 1 + i =< m + 1)
          /\ (m + 1 + i) - (m + 1) = i
      BY <1>2
    <3>2. QED  BY <1>4, <3>1
  <2>4. QED  BY <2>1, <2>2, <2>3
<1>6. before = s
  <2>1. \A i \in 1 .. m : u[i] \in Mail
    BY <1>2, <1>4, ElementOfSeq
  <2>2. /\ before \in Seq(Mail)
        /\ Len(before) = IF 1 =< m THEN m - 1 + 1 ELSE 0
        /\ \A i \in 1 .. m - 1 + 1 : before[i] = u[1 + i - 1]
    BY <1>2, <2>1, SubSeqProperties
  <2>3. Len(before) = m /\ \A i \in 1 .. m : before[i] = s[i]
    <3>1. /\ m - 1 + 1 = m
          /\ \A i \in 1 .. m : 1 + i - 1 = i
      BY <1>2
    <3>2. QED  BY <1>2, <1>5, <2>2, <3>1
  <2> HIDE DEF before
  <2>4. QED  BY <2>2, <2>3, SeqEqual
<1>7. after = t
  <2>1. \A i \in m + 2 .. m + n + 1 : u[i] \in Mail
    BY <1>2, <1>4, ElementOfSeq
  <2>2. /\ after \in Seq(Mail)
        /\ Len(after) = IF m + 2 =< m + n + 1 THEN (m + n + 1) - (m + 2) + 1 ELSE 0
        /\ \A i \in 1 .. (m + n + 1) - (m + 2) + 1 : after[i] = u[(m + 2) + i - 1]
    BY <1>2, <2>1, SubSeqProperties
  <2>3. Len(after) = n /\ \A i \in 1 .. n : after[i] = t[i]
    <3>1. /\ (m + n + 1) - (m + 2) + 1 = n
          /\ \A i \in 1 .. n : (m + 2) + i - 1 = m + 1 + i
      BY <1>2
    <3>2. QED  BY <1>2, <1>5, <2>2, <3>1
  <2> HIDE DEF after
  <2>4. QED  BY <2>2, <2>3, SeqEqual
<1>8. Path!RemoveAt(u, m + 1) = s \o t
  <2>1. Path!RemoveAt(u, m + 1) = SubSeq(u, 1, (m + 1) - 1) \o SubSeq(u, (m + 1) + 1, Len(u))
    BY DEF Path!RemoveAt
  <2>2. (m + 1) - 1 = m /\ (m + 1) + 1 = m + 2 /\ Len(u) = m + n + 1
    BY <1>2, <1>4
  <2>3. QED  BY <1>6, <1>7, <2>1, <2>2
<1>9. Len(u) = m + n + 1
  BY <1>2, <1>4
<1>10. QED  BY <1>4, <1>5, <1>8, <1>9 DEF u

(* and e comes between s and t. *)
LEMMA InsertBetween ==
  ASSUME NEW s \in Seq(Mail), NEW t \in Seq(Mail), NEW e \in Mail
  PROVE  /\ s \o t \in Seq(Mail) /\ Len(s \o t) = Len(s) + Len(t)
         /\ Path!InsertAt(s \o t, Len(s) + 1, e) = s \o <<e>> \o t
<1> DEFINE u == s \o t
           m == Len(s)
           n == Len(t)
           before == SubSeq(u, 1, m)
           after == SubSeq(u, m + 1, m + n)
<1>1. m \in Nat /\ n \in Nat
  BY LenProperties
<1>2. /\ u \in Seq(Mail) /\ Len(u) = m + n
      /\ \A i \in 1 .. m + n : u[i] = IF i =< m THEN s[i] ELSE t[i - m]
  BY ConcatProperties
<1> HIDE DEF u
<1>3. /\ \A i \in 1 .. m : u[i] = s[i]
      /\ \A i \in 1 .. n : u[m + i] = t[i]
  <2>1. \A i \in 1 .. m : u[i] = s[i]
    BY <1>1, <1>2
  <2>2. ASSUME NEW i \in 1 .. n PROVE u[m + i] = t[i]
    <3>1. m + i \in 1 .. m + n /\ ~(m + i =< m) /\ (m + i) - m = i
      BY <1>1
    <3>2. QED  BY <1>2, <3>1
  <2>3. QED  BY <2>1, <2>2
<1>4. before = s
  <2>1. \A i \in 1 .. m : u[i] \in Mail
    BY <1>1, <1>2, ElementOfSeq
  <2>2. /\ before \in Seq(Mail)
        /\ Len(before) = IF 1 =< m THEN m - 1 + 1 ELSE 0
        /\ \A i \in 1 .. m - 1 + 1 : before[i] = u[1 + i - 1]
    BY <1>1, <2>1, SubSeqProperties
  <2>3. Len(before) = m /\ \A i \in 1 .. m : before[i] = s[i]
    <3>1. /\ m - 1 + 1 = m
          /\ \A i \in 1 .. m : 1 + i - 1 = i
      BY <1>1
    <3>2. QED  BY <1>1, <1>3, <2>2, <3>1
  <2> HIDE DEF before
  <2>4. QED  BY <2>2, <2>3, SeqEqual
<1>5. after = t
  <2>1. \A i \in m + 1 .. m + n : u[i] \in Mail
    BY <1>1, <1>2, ElementOfSeq
  <2>2. /\ after \in Seq(Mail)
        /\ Len(after) = IF m + 1 =< m + n THEN (m + n) - (m + 1) + 1 ELSE 0
        /\ \A i \in 1 .. (m + n) - (m + 1) + 1 : after[i] = u[(m + 1) + i - 1]
    BY <1>1, <2>1, SubSeqProperties
  <2>3. Len(after) = n /\ \A i \in 1 .. n : after[i] = t[i]
    <3>1. /\ (m + n) - (m + 1) + 1 = n
          /\ \A i \in 1 .. n : (m + 1) + i - 1 = m + i
      BY <1>1
    <3>2. QED  BY <1>1, <1>3, <2>2, <3>1
  <2> HIDE DEF after
  <2>4. QED  BY <2>2, <2>3, SeqEqual
<1>6. Path!InsertAt(u, m + 1, e) = s \o <<e>> \o t
  <2>1. Path!InsertAt(u, m + 1, e)
        = SubSeq(u, 1, (m + 1) - 1) \o <<e>> \o SubSeq(u, m + 1, Len(u))
    BY DEF Path!InsertAt
  <2>2. (m + 1) - 1 = m
    BY <1>1
  <2>3. QED  BY <1>2, <1>4, <1>5, <2>1, <2>2
<1>7. QED  BY <1>2, <1>6 DEF u

(* A sequence that starts with e, without its first element. *)
LEMMA HeadTailOfConcat ==
  ASSUME NEW S, NEW t \in Seq(S), NEW e \in S
  PROVE  /\ <<e>> \o t # <<>> /\ <<e>> \o t \in Seq(S)
         /\ Head(<<e>> \o t) = e /\ Tail(<<e>> \o t) = t
<1> DEFINE h == <<e>>
           u == h \o t
<1>1. h \in Seq(S) /\ Len(h) = 1 /\ h[1] = e /\ Len(t) \in Nat
  BY LenProperties
<1> HIDE DEF h
<1>2. /\ u \in Seq(S) /\ Len(u) = Len(h) + Len(t)
      /\ \A i \in 1 .. Len(h) + Len(t) : u[i] = IF i =< Len(h) THEN h[i] ELSE t[i - Len(h)]
  BY <1>1, ConcatProperties
<1> HIDE DEF u
<1>3. u[1] = e
  BY <1>1, <1>2
<1>4. ASSUME NEW i \in 1 .. Len(t) PROVE t[i] = u[i + 1]
  <2>1. i + 1 \in 1 .. Len(h) + Len(t) /\ ~(i + 1 =< Len(h)) /\ (i + 1) - Len(h) = i
    BY <1>1
  <2>2. QED  BY <1>2, <2>1
<1>5. Len(u) = Len(t) + 1
  BY <1>1, <1>2
<1>6. u # <<>> /\ Head(u) = u[1] /\ Tail(u) = t
  BY <1>2, <1>4, <1>5, LineShrinks
<1>7. QED  BY <1>2, <1>3, <1>6 DEF u, h

(* The line on the way in: those posted, m, the one in hand, h, and those  *)
(* in the ring, r.                                                         *)
LineOf(m, h, r) == m \o h \o r

(* One comes in; *)
LEMMA LineReceives ==
  ASSUME NEW m \in Seq(Mail), NEW h \in Seq(Mail), NEW r \in Seq(Mail), NEW f \in Mail
  PROVE  LineOf(m, h, Append(r, f)) = Append(LineOf(m, h, r), f)
<1> DEFINE s == m \o h
<1>1. s \in Seq(Mail)
  BY ConcatProperties
<1> HIDE DEF s
<1>2. s \o Append(r, f) = Append(s \o r, f)
  BY <1>1, AppendsToBoth
<1>3. QED  BY <1>2 DEF LineOf, s

(* one is taken in hand; *)
LEMMA LineGets ==
  ASSUME NEW m \in Seq(Mail), NEW r \in Seq(Mail), NEW f \in Mail
  PROVE  LineOf(m, <<>>, <<f>> \o r) = LineOf(m, <<f>>, r)
<1> DEFINE e == <<f>>
<1>1. e \in Seq(Mail)
  OBVIOUS
<1> HIDE DEF e
<1>2. m \o <<>> = m
  BY ConcatEmptySeq
<1>3. (m \o e) \o r = m \o (e \o r)
  BY <1>1, ConcatAssociative
<1>4. QED  BY <1>2, <1>3 DEF LineOf, e

(* one in hand is posted, *)
LEMMA LinePosts ==
  ASSUME NEW m \in Seq(Mail), NEW r \in Seq(Mail), NEW f \in Mail
  PROVE  LineOf(Append(m, f), <<>>, r) = LineOf(m, <<f>>, r)
<1>1. Append(m, f) = m \o <<f>> /\ Append(m, f) \in Seq(Mail)
  BY AppendIsConcat, AppendProperties
<1>2. Append(m, f) \o <<>> = Append(m, f)
  BY <1>1, ConcatEmptySeq
<1>3. QED  BY <1>1, <1>2 DEF LineOf

(* or lost; *)
LEMMA LineDrops ==
  ASSUME NEW m \in Seq(Mail), NEW r \in Seq(Mail), NEW f \in Mail
  PROVE  /\ Len(m) + 1 \in 1 .. Len(LineOf(m, <<f>>, r))
         /\ LineOf(m, <<f>>, r)[Len(m) + 1] = f
         /\ Path!RemoveAt(LineOf(m, <<f>>, r), Len(m) + 1) = LineOf(m, <<>>, r)
<1>1. /\ Len(m \o <<f>> \o r) = Len(m) + Len(r) + 1
      /\ (m \o <<f>> \o r)[Len(m) + 1] = f
      /\ Path!RemoveAt(m \o <<f>> \o r, Len(m) + 1) = m \o r
  BY RemoveBetween
<1>2. Len(m) \in Nat /\ Len(r) \in Nat
  BY LenProperties
<1>3. m \o <<>> = m
  BY ConcatEmptySeq
<1> DEFINE u == m \o <<f>> \o r
<1> HIDE DEF u
<1>4. Len(m) + 1 \in 1 .. Len(u)
  BY <1>1, <1>2 DEF u
<1>5. QED  BY <1>1, <1>3, <1>4 DEF LineOf, u

(* a call is posted behind those before it; *)
LEMMA LineCalls ==
  ASSUME NEW m \in Seq(Mail), NEW h \in Seq(Mail), NEW r \in Seq(Mail), NEW c \in Mail
  PROVE  /\ Len(m) + 1 \in 1 .. Len(LineOf(m, h, r)) + 1
         /\ LineOf(Append(m, c), h, r) = Path!InsertAt(LineOf(m, h, r), Len(m) + 1, c)
<1> DEFINE t == h \o r
           a == Append(m, c)
<1>1. t \in Seq(Mail)
  BY ConcatProperties
<1>2. a = m \o <<c>> /\ a \in Seq(Mail)
  BY AppendIsConcat, AppendProperties
<1> HIDE DEF a
<1>3. LineOf(m, h, r) = m \o t /\ LineOf(a, h, r) = a \o t
  <2>1. (m \o h) \o r = m \o (h \o r)
    BY ConcatAssociative
  <2>2. (a \o h) \o r = a \o (h \o r)
    BY <1>2, ConcatAssociative
  <2>3. QED  BY <2>1, <2>2 DEF LineOf
<1> HIDE DEF t
<1>4. /\ Len(m \o t) = Len(m) + Len(t)
      /\ Path!InsertAt(m \o t, Len(m) + 1, c) = m \o <<c>> \o t
  BY <1>1, InsertBetween
<1>5. Len(m) \in Nat /\ Len(t) \in Nat
  BY <1>1, LenProperties
<1> DEFINE l == LineOf(m, h, r)
<1>6. Len(l) = Len(m) + Len(t)
  BY <1>3, <1>4
<1> HIDE DEF l
<1>7. Len(m) + 1 \in 1 .. Len(l) + 1
  BY <1>5, <1>6
<1>8. QED  BY <1>2, <1>3, <1>4, <1>7 DEF a, l

(* The first of three is in front of the others, *)
LEMMA FrontOfTwo ==
  ASSUME NEW a \in Seq(Mail), NEW b \in Seq(Mail), NEW c \in Seq(Mail)
  PROVE  (a \o b) \o c = a \o (b \o c)
BY ConcatAssociative

InFront(a, b, c, d) == ((a \o b) \o c) \o d = a \o ((b \o c) \o d)

(* and the first of four; *)
LEMMA FrontOfThree ==
  ASSUME NEW a \in Seq(Mail), NEW b \in Seq(Mail), NEW c \in Seq(Mail), NEW d \in Seq(Mail)
  PROVE  InFront(a, b, c, d)
<1>1. b \o c \in Seq(Mail)
  BY ConcatProperties
<1>2. (a \o b) \o c = a \o (b \o c)
  BY FrontOfTwo
<1>3. (a \o (b \o c)) \o d = a \o ((b \o c) \o d)
  BY <1>1, FrontOfTwo
<1>4. QED  BY <1>2, <1>3 DEF InFront

(* and the first is handed over.                                           *)
LEMMA LineTakes ==
  ASSUME NEW m \in Seq(Mail), NEW h \in Seq(Mail), NEW r \in Seq(Mail), m # <<>>
  PROVE  /\ LineOf(m, h, r) # <<>> /\ Head(LineOf(m, h, r)) = Head(m)
         /\ Tail(LineOf(m, h, r)) = LineOf(Tail(m), h, r)
<1> DEFINE t == Tail(m)
           x == Head(m)
           e == <<x>>
           rest == (t \o h) \o r
<1>1. x \in Mail /\ t \in Seq(Mail) /\ m = e \o t
  BY HeadTail
<1>2. e \in Seq(Mail)
  BY <1>1
<1> HIDE DEF x, t, e
<1>3. t \o h \in Seq(Mail) /\ rest \in Seq(Mail)
  <2>1. t \o h \in Seq(Mail)
    BY <1>1, ConcatProperties
  <2>2. QED  BY <2>1, ConcatProperties
<1>4. ((e \o t) \o h) \o r = e \o rest
  <2>1. e \in Seq(Mail) /\ t \in Seq(Mail)
    BY <1>1, <1>2
  <2>2. InFront(e, t, h, r)
    BY <2>1, FrontOfThree, Zenon
  <2>3. QED  BY <2>2, Zenon DEF InFront
<1>6. LineOf(m, h, r) = e \o rest
  BY <1>1, <1>4 DEF LineOf
<1>7. rest = LineOf(t, h, r)
  BY DEF LineOf
<1> HIDE DEF rest
<1>8. e \o rest # <<>> /\ Head(e \o rest) = x /\ Tail(e \o rest) = rest
  BY <1>1, <1>3, HeadTailOfConcat DEF e
<1>9. QED  BY <1>6, <1>7, <1>8 DEF x, t

-----------------------------------------------------------------------------
(* The mailbox has frames without an error and calls; the receiving thread *)
(* has at most one frame.                                                  *)
Mails ==
  /\ tcpip_mbox \in Seq((Frame \ Bad) \cup Caller) /\ p \in (Frame \ Bad) \cup {NoFrame}
  /\ erx \in {"wait", "get"} => p = NoFrame
  /\ erx = "input" => p # NoFrame

(* lwIP's thread waits while the sending thread has its frame; what the    *)
(* DMA has read is the frame of its descriptor.                            *)
Sending ==
  /\ msg \in F0
  /\ msg # NoFrame <=> tcpip = "ack"
  /\ etx # "wait" => tcpip = "ack"
  /\ etx = "prepare" => DMATxDscrTab[DMATxDescToSet].buffer = msg
  /\ fifo # <<>> => DMATxDscrTab[tx_dma].own /\ \E e \in Items : fifo = <<e>>

IInv ==
  /\ RxLines(DMARxDscrTab, rx_dma, DMARxDescToGet, erx)
  /\ Mails
  /\ TxLines(DMATxDscrTab, tx_dma, DMATxDescToSet)
  /\ Sending

OutOf(r, s) == IF r = <<>> THEN s ELSE r \o Tail(s)

(* The two lines, by their parts: on the way in, *)
LEMMA InIs == In = LineOf(tcpip_mbox, Held, RingOf(DMARxDscrTab, DMARxDescToGet, erx))
BY DEF In, InRing, LineOf, RingOf

(* and out. *)
LEMMA OutIs == Out = OutOf(fifo, Waiting(DMATxDscrTab, tx_dma))
BY DEF Out, OutOf, Waiting

(* What is in the mailbox and in hand; a frame is in the line what it is   *)
(* in the ring.                                                            *)
LEMMA MailTypes ==
  ASSUME Mails
  PROVE  /\ tcpip_mbox \in Seq(Mail) /\ Len(tcpip_mbox) \in Nat
         /\ Held \in Seq(Mail)
         /\ \A r \in Seq(Frame) : r \in Seq(Mail)
<1>1. tcpip_mbox \in Seq((Frame \ Bad) \cup Caller) /\ (Frame \ Bad) \cup Caller \subseteq Mail
  BY DEF Mails, Mail
<1>2. tcpip_mbox \in Seq(Mail) /\ Len(tcpip_mbox) \in Nat
  BY <1>1, SeqMonotonic, LenProperties
<1>3. Frame \subseteq Mail
  BY DEF Mail
<1>4. \A r \in Seq(Frame) : r \in Seq(Mail)
  BY <1>3, SeqMonotonic
<1>5. Held \in Seq(Mail)
  <2>1. CASE p = NoFrame
    BY <2>1 DEF Held
  <2>2. CASE p # NoFrame
    BY <2>2 DEF Held, Mails, Mail
  <2>3. QED  BY <2>1, <2>2
<1>6. QED  BY <1>2, <1>4, <1>5

(* All this holds at the start, *)
LEMMA InitInv == Init => IInv
<1>1. SUFFICES ASSUME Init PROVE IInv
  OBVIOUS
<1>2. RxLined(DMARxDscrTab, rx_dma, DMARxDescToGet, erx, 0)
  <2>1. 0 \in RxSlots /\ 0 \in 0 .. RXBUFNB /\ 0 < RXBUFNB
    BY RxSize DEF RxSlots
  <2>2. At(0, 0, RXBUFNB) = 0
    BY <2>1, RxSize, AtNext DEF RxSlots
  <2>3. \A i \in RxSlots : At(0, i, RXBUFNB) \in RxSlots
    <3>1. \A i \in RxSlots : i \in 0 .. RXBUFNB
      BY RxSize DEF RxSlots
    <3>2. QED  BY <2>1, <3>1, RxSize, AtIs DEF RxSlots
  <2>4. DMARxDscrTab = [i \in RxSlots |-> RxDesc(TRUE, NoFrame)]
    BY <1>1 DEF Init, RxSlots
  <2>5. /\ RxDesc(TRUE, NoFrame) \in [own : BOOLEAN, frame : F0]
        /\ RxDesc(TRUE, NoFrame).own = TRUE
    BY DEF RxDesc, F0
  <2>6. DMARxDscrTab \in RxTab
    BY <2>4, <2>5 DEF RxTab
  <2>7. \A i \in RxSlots : RxAt(DMARxDscrTab, 0, i).own = TRUE
    BY <2>3, <2>4, <2>5 DEF RxAt
  <2>8. rx_dma = 0 /\ DMARxDescToGet = 0 /\ erx = "wait"
    BY <1>1 DEF Init
  <2>9. \A i \in RxSlots : 0 =< i /\ ~(i < 0)
    BY DEF RxSlots
  <2>10. QED  BY <2>1, <2>2, <2>6, <2>7, <2>8, <2>9 DEF RxLined
<1>3. TxLined(DMATxDscrTab, tx_dma, DMATxDescToSet, 0)
  <2>1. 0 \in TxSlots /\ 0 \in 0 .. TXBUFNB
    BY TxSize DEF TxSlots
  <2>2. At(0, 0, TXBUFNB) = 0
    BY <2>1, TxSize, AtNext DEF TxSlots
  <2>3. \A i \in TxSlots : At(0, i, TXBUFNB) \in TxSlots
    <3>1. \A i \in TxSlots : i \in 0 .. TXBUFNB
      BY TxSize DEF TxSlots
    <3>2. QED  BY <2>1, <3>1, TxSize, AtIs DEF TxSlots
  <2>4. DMATxDscrTab = [i \in TxSlots |-> TxDesc(FALSE, NoFrame, NoFrame)]
    BY <1>1 DEF Init, TxSlots
  <2>5. /\ TxDesc(FALSE, NoFrame, NoFrame) \in [own : BOOLEAN, len : F0, buffer : F0]
        /\ TxDesc(FALSE, NoFrame, NoFrame).own = FALSE
    BY DEF TxDesc, F0
  <2>6. DMATxDscrTab \in TxTab
    BY <2>4, <2>5 DEF TxTab
  <2>7. \A i \in TxSlots : TxAt(DMATxDscrTab, 0, i).own = FALSE
    BY <2>3, <2>4, <2>5 DEF TxAt
  <2>8. tx_dma = 0 /\ DMATxDescToSet = 0
    BY <1>1 DEF Init
  <2>9. \A i \in TxSlots : ~(i < 0)
    BY DEF TxSlots
  <2>10. QED  BY <2>1, <2>2, <2>6, <2>7, <2>8, <2>9 DEF TxLined
<1>4. Mails
  BY <1>1 DEF Init, Mails
<1>5. Sending
  BY <1>1 DEF Init, Sending, F0
<1>6. QED
  <2>1. 0 \in 0 .. RXBUFNB /\ 0 \in 0 .. TXBUFNB
    BY RxSize, TxSize
  <2>2. QED  BY <1>2, <1>3, <1>4, <1>5, <2>1 DEF IInv, RxLines, TxLines

(* with both lines empty. *)
LEMMA InitImplements == Init => Path!PInit
<1>1. SUFFICES ASSUME Init PROVE Path!PInit
  OBVIOUS
<1>2. IInv
  BY <1>1, InitInv
<1>3. PICK n \in 0 .. RXBUFNB : RxLined(DMARxDscrTab, rx_dma, DMARxDescToGet, erx, n)
  BY <1>2 DEF IInv, RxLines
<1>4. PICK k \in 0 .. TXBUFNB : TxLined(DMATxDscrTab, tx_dma, DMATxDescToSet, k)
  BY <1>2 DEF IInv, TxLines
<1>5. n = 0
  <2>1. SUFFICES ASSUME n # 0 PROVE FALSE
    OBVIOUS
  <2>2. 0 \in RxSlots /\ ~(0 >= n)
    BY <2>1, RxSize DEF RxSlots
  <2>3. ~RxAt(DMARxDscrTab, DMARxDescToGet, 0).own
    BY <1>3, <2>2 DEF RxLined
  <2>4. DMARxDescToGet = 0 /\ At(0, 0, RXBUFNB) = 0
    BY <1>1, <2>2, RxSize, AtNext DEF Init, RxSlots
  <2>5. DMARxDscrTab[0] = RxDesc(TRUE, NoFrame)
    BY <1>1, <2>2 DEF Init, RxSlots
  <2>6. QED  BY <2>3, <2>4, <2>5 DEF RxAt, RxDesc
<1>6. k = 0
  <2>1. SUFFICES ASSUME k # 0 PROVE FALSE
    OBVIOUS
  <2>2. 0 \in TxSlots /\ 0 < k
    BY <2>1, TxSize DEF TxSlots
  <2>3. TxAt(DMATxDscrTab, tx_dma, 0).own
    BY <1>4, <2>2 DEF TxLined
  <2>4. tx_dma = 0 /\ At(0, 0, TXBUFNB) = 0
    BY <1>1, <2>2, TxSize, AtNext DEF Init, TxSlots
  <2>5. DMATxDscrTab[0] = TxDesc(FALSE, NoFrame, NoFrame)
    BY <1>1, <2>2 DEF Init, TxSlots
  <2>6. QED  BY <2>3, <2>4, <2>5 DEF TxAt, TxDesc
<1> DEFINE R == RingOf(DMARxDscrTab, DMARxDescToGet, erx)
           W == Waiting(DMATxDscrTab, tx_dma)
<1>7. R = <<>>
  <2>1. R \in Seq(Frame) /\ Len(R) = 0
    BY <1>3, <1>5, RingIsLine
  <2> HIDE DEF R
  <2>2. QED  BY <2>1, EmptySeq
<1>8. W = <<>>
  <2>1. W \in Seq(Items) /\ Len(W) = 0
    BY <1>4, <1>6, WaitingIsLine
  <2> HIDE DEF W
  <2>2. QED  BY <2>1, EmptySeq
<1> HIDE DEF R, W
<1>9. In = <<>>
  <2>1. In = (<<>> \o <<>>) \o <<>>
    BY <1>1, <1>7, InIs DEF Init, Held, LineOf, R
  <2>2. QED  BY <2>1, ConcatEmptySeq
<1>10. Out = <<>>
  BY <1>1, <1>8, OutIs DEF Init, OutOf, W
<1>11. QED
  BY <1>1, <1>9, <1>10 DEF Init, Path!PInit, Path!Cut

-----------------------------------------------------------------------------
(* One step each of the two lines: a frame comes in; *)
LEMMA ReceivesStep ==
  ASSUME IInv, NEW f \in Frame, DmaReceives(f)
  PROVE  IInv' /\ Path!Arrive(f)
<1>1. PICK n \in 0 .. RXBUFNB : RxLined(DMARxDscrTab, rx_dma, DMARxDescToGet, erx, n)
  BY DEF IInv, RxLines
<1>2. /\ DMARxDscrTab[rx_dma].own
      /\ DMARxDscrTab' = [DMARxDscrTab EXCEPT ![rx_dma] = RxDesc(FALSE, f)]
      /\ rx_dma' = NextRx(rx_dma)
      /\ UNCHANGED <<DMARxDescToGet, erx, p, heap, tcpip_mbox, got, txRing, txRest>>
  BY DEF DmaReceives
<1>3. /\ RxLined(DMARxDscrTab', rx_dma', DMARxDescToGet', erx', n + 1)
      /\ RingOf(DMARxDscrTab', DMARxDescToGet', erx')
         = Append(RingOf(DMARxDscrTab, DMARxDescToGet, erx), f)
  <2>1. /\ DMARxDscrTab' = Received(DMARxDscrTab, rx_dma, f) /\ rx_dma' = NextRx(rx_dma)
        /\ DMARxDescToGet' = DMARxDescToGet /\ erx' = erx
    BY <1>2 DEF Received
  <2>2. DMARxDscrTab[rx_dma].own
    BY <1>2
  <2> DEFINE new == Received(DMARxDscrTab, rx_dma, f)
  <2>3. /\ RxLined(new, NextRx(rx_dma), DMARxDescToGet, erx, n + 1)
        /\ RingOf(new, DMARxDescToGet, erx)
           = Append(RingOf(DMARxDscrTab, DMARxDescToGet, erx), f)
    BY <1>1, <2>2, RingReceives
  <2> HIDE DEF new
  <2>4. DMARxDscrTab' = new
    BY <2>1 DEF new
  <2>5. QED  BY <2>1, <2>3, <2>4
<1>4. n + 1 \in 0 .. RXBUFNB
  BY <1>3 DEF RxLined
<1>5. RxLines(DMARxDscrTab, rx_dma, DMARxDescToGet, erx)'
  BY <1>3, <1>4 DEF RxLines
<1>6. IInv'
  BY <1>2, <1>5 DEF IInv, Mails, Sending, TxLines, txRing, txRest
<1> DEFINE R == RingOf(DMARxDscrTab, DMARxDescToGet, erx)
<1>7. In' = LineOf(tcpip_mbox, Held, Append(R, f))
  BY <1>2, <1>3 DEF In, InRing, LineOf, RingOf, Held
<1>8. R \in Seq(Frame)
  BY <1>1, RingIsLine
<1>9. tcpip_mbox \in Seq(Mail) /\ Held \in Seq(Mail) /\ R \in Seq(Mail) /\ f \in Mail
  BY <1>8, MailTypes DEF IInv, Mail
<1> HIDE DEF R
<1>10. LineOf(tcpip_mbox, Held, Append(R, f)) = Append(LineOf(tcpip_mbox, Held, R), f)
  BY <1>9, LineReceives
<1>11. In' = Append(In, f)
  BY <1>7, <1>10, InIs DEF R
<1>12. Out' = Out /\ got' = got /\ wire' = wire /\ heap' = heap
  BY <1>2 DEF Out, txRing
<1>13. QED  BY <1>6, <1>11, <1>12 DEF Path!Arrive

(* the thread takes it, or drops it for its error or for want of a pbuf; *)
LEMMA GetsStep ==
  ASSUME IInv, RxGets
  PROVE  IInv' /\ [Path!PNext]_(Path!pvars)
<1> DEFINE f == DMARxDscrTab[DMARxDescToGet].frame
           kept == f \notin Bad /\ "pbuf" \in heap
           R == RingOf(DMARxDscrTab, DMARxDescToGet, erx)
           T == RingOf(DMARxDscrTab, DMARxDescToGet', erx')
<1>1. PICK n \in 0 .. RXBUFNB : RxLined(DMARxDscrTab, rx_dma, DMARxDescToGet, erx, n)
  BY DEF IInv, RxLines
<1>2. /\ erx = "get" /\ ~DMARxDscrTab[DMARxDescToGet].own
      /\ p' = (IF kept THEN f ELSE NoFrame)
      /\ DMARxDescToGet' = NextRx(DMARxDescToGet) /\ erx' = "release"
      /\ UNCHANGED <<DMARxDscrTab, rx_dma, heap, tcpip_mbox, got, txRing, txRest>>
  BY DEF RxGets
<1>3. /\ n - 1 \in Nat
      /\ RxLined(DMARxDscrTab, rx_dma, DMARxDescToGet', erx', n - 1)
      /\ f \in Frame /\ R = <<f>> \o T
  BY <1>1, <1>2, RingGets
<1>4. RxLines(DMARxDscrTab, rx_dma, DMARxDescToGet, erx)'
  <2>1. n - 1 \in 0 .. RXBUFNB
    BY <1>3 DEF RxLined
  <2>2. QED  BY <1>2, <1>3, <2>1 DEF RxLines
<1>5. T \in Seq(Frame)
  BY <1>3, RingIsLine
<1>6. p = NoFrame /\ Mails
  BY <1>2 DEF IInv, Mails
<1> HIDE DEF f, R, T
<1>7. /\ tcpip_mbox \in Seq(Mail) /\ Len(tcpip_mbox) \in Nat
      /\ T \in Seq(Mail) /\ f \in Mail
  BY <1>3, <1>5, <1>6, MailTypes DEF Mail
<1>8. Mails'
  BY <1>2, <1>3, <1>6 DEF Mails
<1>9. IInv'
  BY <1>2, <1>4, <1>8 DEF IInv, Sending, TxLines, txRing, txRest
<1>10. In = LineOf(tcpip_mbox, <<f>>, T)
  <2>1. Held = <<>>
    BY <1>6 DEF Held
  <2>2. In = LineOf(tcpip_mbox, <<>>, <<f>> \o T)
    BY <1>3, <2>1, InIs DEF R
  <2>3. QED  BY <1>7, <2>2, LineGets
<1>11. In' = LineOf(tcpip_mbox, Held', T)
  BY <1>2 DEF In, InRing, LineOf, RingOf, T
<1>12. Out' = Out /\ got' = got /\ wire' = wire /\ heap' = heap
  BY <1>2 DEF Out, txRing
<1>13. CASE kept
  <2>1. Held' = <<f>>
    BY <1>2, <1>3, <1>13, EthernetAssumption DEF Held
  <2>2. In' = In
    BY <1>10, <1>11, <2>1
  <2>3. QED  BY <1>9, <1>12, <2>2 DEF Path!pvars
<1>14. CASE ~kept
  <2> DEFINE i == Len(tcpip_mbox) + 1
  <2>1. Held' = <<>>
    BY <1>2, <1>14 DEF Held
  <2>2. In' = LineOf(tcpip_mbox, <<>>, T)
    BY <1>11, <2>1
  <2>3. /\ i \in 1 .. Len(In) /\ In[i] = f /\ Path!RemoveAt(In, i) = In'
    BY <1>7, <1>10, <2>2, LineDrops
  <2>4. f \in Bad \/ heap # Blocks
    BY <1>14 DEF Blocks
  <2> HIDE DEF i
  <2>5. Path!Drop(i)
    BY <1>3, <1>12, <2>3, <2>4 DEF Path!Drop
  <2>6. QED  BY <1>9, <2>3, <2>5 DEF Path!PNext
<1>15. QED  BY <1>13, <1>14

(* it is posted, or dropped for want of a message or of room for it. *)
LEMMA InputStep ==
  ASSUME IInv, RxInput
  PROVE  IInv' /\ [Path!PNext]_(Path!pvars)
<1> DEFINE R == RingOf(DMARxDscrTab, DMARxDescToGet, erx)
<1>1. PICK n \in 0 .. RXBUFNB : RxLined(DMARxDscrTab, rx_dma, DMARxDescToGet, erx, n)
  BY DEF IInv, RxLines
<1>2. /\ erx = "input" /\ erx' = "get" /\ p' = NoFrame
      /\ tcpip_mbox' = (IF Posts THEN Append(tcpip_mbox, p) ELSE tcpip_mbox)
      /\ UNCHANGED <<DMARxDscrTab, rx_dma, DMARxDescToGet, heap, got, txRing, txRest>>
  BY DEF RxInput, rxRing
<1>3. /\ Mails /\ p \in Frame \ Bad /\ p # NoFrame
      /\ tcpip_mbox \in Seq((Frame \ Bad) \cup Caller)
  BY <1>2 DEF IInv, Mails
<1>4. tcpip_mbox \in Seq(Mail) /\ Len(tcpip_mbox) \in Nat /\ p \in Mail
  BY <1>3, MailTypes DEF Mail
<1>5. Held = <<p>> /\ Held' = <<>>
  BY <1>2, <1>3 DEF Held
<1>6. /\ RxLined(DMARxDscrTab, rx_dma, DMARxDescToGet, erx', n)
      /\ RingOf(DMARxDscrTab, DMARxDescToGet, erx') = R
  BY <1>1, <1>2, RingSame
<1>7. RxLines(DMARxDscrTab, rx_dma, DMARxDescToGet, erx)'
  BY <1>2, <1>6 DEF RxLines
<1>8. R \in Seq(Mail)
  BY <1>1, <1>3, RingIsLine, MailTypes
<1> HIDE DEF R
<1>9. In = LineOf(tcpip_mbox, <<p>>, R)
  BY <1>5, InIs DEF R
<1>10. In' = LineOf(tcpip_mbox', <<>>, R)
  BY <1>2, <1>5, <1>6 DEF In, InRing, LineOf, RingOf, R
<1>11. Out' = Out /\ got' = got /\ wire' = wire /\ heap' = heap
  BY <1>2 DEF Out, txRing
<1>12. Mails' => IInv'
  BY <1>2, <1>7 DEF IInv, Sending, TxLines, txRing, txRest
<1>13. CASE Posts
  <2>1. tcpip_mbox' = Append(tcpip_mbox, p)
    BY <1>2, <1>13
  <2>2. tcpip_mbox' \in Seq((Frame \ Bad) \cup Caller)
    BY <1>3, <2>1, AppendProperties
  <2>3. Mails'
    BY <1>2, <2>2 DEF Mails
  <2>4. In' = In
    BY <1>4, <1>8, <1>9, <1>10, <2>1, LinePosts
  <2>5. QED  BY <1>11, <1>12, <2>3, <2>4 DEF Path!pvars
<1>14. CASE ~Posts
  <2> DEFINE i == Len(tcpip_mbox) + 1
  <2>1. tcpip_mbox' = tcpip_mbox
    BY <1>2, <1>14
  <2>2. Mails'
    BY <1>2, <1>3, <2>1 DEF Mails
  <2>3. i \in 1 .. Len(In) /\ In[i] = p /\ Path!RemoveAt(In, i) = In'
    BY <1>4, <1>8, <1>9, <1>10, <2>1, LineDrops
  <2>4. heap # Blocks \/ i > TCPIP_MBOX_SIZE
    BY <1>4, <1>14, EthernetAssumption DEF Posts, Blocks
  <2> HIDE DEF i
  <2>5. Path!Drop(i)
    BY <1>3, <1>11, <2>3, <2>4 DEF Path!Drop
  <2>6. QED  BY <1>12, <2>2, <2>3, <2>5 DEF Path!PNext
<1>15. QED  BY <1>13, <1>14

(* A call joins the line at the end of the mailbox. *)
LEMMA CallsStep ==
  ASSUME IInv, NEW t \in Caller, Calls(t)
  PROVE  IInv' /\ Path!Call(t)
<1> DEFINE R == RingOf(DMARxDscrTab, DMARxDescToGet, erx)
           i == Len(tcpip_mbox) + 1
<1>1. PICK n \in 0 .. RXBUFNB : RxLined(DMARxDscrTab, rx_dma, DMARxDescToGet, erx, n)
  BY DEF IInv, RxLines
<1>2. /\ Len(tcpip_mbox) < TCPIP_MBOX_SIZE /\ tcpip_mbox' = Append(tcpip_mbox, t)
      /\ UNCHANGED <<rxRing, erx, p, heap, got, txRing, txRest>>
  BY DEF Calls
<1>3. Mails /\ tcpip_mbox \in Seq((Frame \ Bad) \cup Caller)
  BY DEF IInv, Mails
<1>4. tcpip_mbox' \in Seq((Frame \ Bad) \cup Caller)
  BY <1>2, <1>3, AppendProperties
<1>5. IInv'
  BY <1>2, <1>3, <1>4 DEF IInv, Mails, RxLines, Sending, TxLines, rxRing, txRing, txRest
<1>6. /\ tcpip_mbox \in Seq(Mail) /\ Len(tcpip_mbox) \in Nat /\ Held \in Seq(Mail)
      /\ R \in Seq(Mail) /\ t \in Mail
  BY <1>1, <1>3, RingIsLine, MailTypes DEF Mail
<1> HIDE DEF R
<1>7. In = LineOf(tcpip_mbox, Held, R) /\ In' = LineOf(Append(tcpip_mbox, t), Held, R)
  BY <1>2, InIs DEF In, InRing, LineOf, RingOf, R, Held, rxRing
<1>8. i \in 1 .. Len(In) + 1 /\ In' = Path!InsertAt(In, i, t)
  BY <1>6, <1>7, LineCalls
<1>9. i <= TCPIP_MBOX_SIZE
  BY <1>2, <1>6, EthernetAssumption
<1>10. Out' = Out /\ got' = got /\ wire' = wire /\ heap' = heap
  BY <1>2 DEF Out, txRing
<1> HIDE DEF i
<1>11. QED  BY <1>5, <1>8, <1>9, <1>10 DEF Path!Call

(* lwIP's thread gets the first of the line. *)
LEMMA TakesStep ==
  ASSUME IInv, TcpipTakes
  PROVE  IInv' /\ (Path!Deliver \/ Path!Serve)
<1> DEFINE R == RingOf(DMARxDscrTab, DMARxDescToGet, erx)
<1>1. PICK n \in 0 .. RXBUFNB : RxLined(DMARxDscrTab, rx_dma, DMARxDescToGet, erx, n)
  BY DEF IInv, RxLines
<1>2. /\ tcpip_mbox # <<>> /\ tcpip_mbox' = Tail(tcpip_mbox)
      /\ got' = (IF Head(tcpip_mbox) \in Frame THEN Head(tcpip_mbox) ELSE got)
      /\ UNCHANGED <<DMARxDscrTab, rx_dma, DMARxDescToGet, erx, p, heap, txRing, txRest>>
  BY DEF TcpipTakes, rxRing
<1>3. Mails /\ tcpip_mbox \in Seq((Frame \ Bad) \cup Caller)
  BY DEF IInv, Mails
<1>4. /\ Head(tcpip_mbox) \in (Frame \ Bad) \cup Caller
      /\ Tail(tcpip_mbox) \in Seq((Frame \ Bad) \cup Caller)
  BY <1>2, <1>3, HeadTailProperties
<1>5. tcpip_mbox \in Seq(Mail) /\ Held \in Seq(Mail) /\ R \in Seq(Mail)
  BY <1>1, <1>3, RingIsLine, MailTypes
<1>6. Mails'
  BY <1>2, <1>3, <1>4 DEF Mails
<1>7. IInv'
  BY <1>2, <1>6 DEF IInv, RxLines, TxLines, Sending, txRing, txRest
<1> HIDE DEF R
<1>8. In = LineOf(tcpip_mbox, Held, R) /\ In' = LineOf(Tail(tcpip_mbox), Held, R)
  BY <1>2, InIs DEF In, InRing, LineOf, RingOf, R, Held
<1>9. In # <<>> /\ Head(In) = Head(tcpip_mbox) /\ Tail(In) = In'
  BY <1>2, <1>5, <1>8, LineTakes
<1>10. Out' = Out /\ wire' = wire /\ heap' = heap
  BY <1>2 DEF Out, txRing
<1>11. CASE Head(tcpip_mbox) \in Frame
  <2>1. Head(tcpip_mbox) \notin Bad
    BY <1>4, <1>11, EthernetAssumption
  <2>2. Path!Deliver
    BY <1>2, <1>9, <1>10, <1>11, <2>1 DEF Path!Deliver
  <2>3. QED  BY <1>7, <2>2
<1>12. CASE Head(tcpip_mbox) \notin Frame
  <2>1. Path!Serve
    BY <1>2, <1>4, <1>9, <1>10, <1>12 DEF Path!Serve
  <2>2. QED  BY <1>7, <2>1
<1>13. QED  BY <1>11, <1>12

(* The heap gets short or is given back. *)
LEMMA HeapStep ==
  ASSUME IInv, NEW h \in Heap, HeapChanges(h)
  PROVE  IInv' /\ Path!Memory
<1>1. UNCHANGED <<rxRing, erx, p, tcpip_mbox, got, txRing, txRest>>
  BY DEF HeapChanges
<1>2. IInv'
  BY <1>1 DEF IInv, Mails, RxLines, Sending, TxLines, rxRing, txRing, txRest
<1>3. In' = In /\ Out' = Out /\ got' = got /\ wire' = wire
  BY <1>1 DEF In, InRing, Held, Out, rxRing, txRing
<1>4. QED  BY <1>2, <1>3 DEF Path!Memory

(* A descriptor goes back unseen. *)
LEMMA ReleasesStep ==
  ASSUME IInv, RxReleases
  PROVE  IInv' /\ UNCHANGED Path!pvars
<1>1. PICK n \in 0 .. RXBUFNB : RxLined(DMARxDscrTab, rx_dma, DMARxDescToGet, erx, n)
  BY DEF IInv, RxLines
<1>2. /\ erx = "release" /\ erx' = "resume"
      /\ DMARxDscrTab' = Released(DMARxDscrTab, DMARxDescToGet)
      /\ UNCHANGED <<rx_dma, DMARxDescToGet, p, heap, tcpip_mbox, got, txRing, txRest>>
  BY DEF RxReleases, Released
<1> DEFINE new == Released(DMARxDscrTab, DMARxDescToGet)
<1>3. /\ RxLined(new, rx_dma, DMARxDescToGet, "resume", n)
      /\ RingOf(new, DMARxDescToGet, "resume")
         = RingOf(DMARxDscrTab, DMARxDescToGet, "release")
  BY <1>1, <1>2, RingReleases
<1> HIDE DEF new
<1>4. DMARxDscrTab' = new
  BY <1>2 DEF new
<1>5. RxLines(DMARxDscrTab, rx_dma, DMARxDescToGet, erx)'
  BY <1>2, <1>3, <1>4 DEF RxLines
<1>6. IInv'
  BY <1>2, <1>5 DEF IInv, Mails, Sending, TxLines, txRing, txRest
<1>7. In' = In
  <2>1. RingOf(DMARxDscrTab', DMARxDescToGet', erx') = RingOf(DMARxDscrTab, DMARxDescToGet, erx)
    BY <1>2, <1>3, <1>4
  <2>2. In' = LineOf(tcpip_mbox, Held, RingOf(DMARxDscrTab', DMARxDescToGet', erx'))
    BY <1>2 DEF In, InRing, LineOf, RingOf, Held
  <2>3. QED  BY <2>1, <2>2, InIs
<1>8. Out' = Out /\ got' = got /\ wire' = wire /\ heap' = heap
  BY <1>2 DEF Out, txRing
<1>9. QED  BY <1>6, <1>7, <1>8 DEF Path!pvars

(* What the rest of the receiving thread, the interrupt and a suspended    *)
(* DMA do is not seen in the lines,                                        *)
LEMMA RxQuietStep ==
  ASSUME IInv, RxWakes \/ RxDone \/ RxResumes \/ Interrupt \/ DmaOverruns
  PROVE  IInv' /\ UNCHANGED Path!pvars
<1>1. PICK n \in 0 .. RXBUFNB : RxLined(DMARxDscrTab, rx_dma, DMARxDescToGet, erx, n)
  BY DEF IInv, RxLines
<1>2. /\ UNCHANGED <<DMARxDscrTab, rx_dma, DMARxDescToGet, p, heap, tcpip_mbox, got>>
      /\ UNCHANGED <<txRing, txRest>>
  BY DEF RxWakes, RxDone, RxResumes, Interrupt, DmaOverruns, rxRing, rxRest
<1>3. \/ erx' = erx
      \/ erx # "release" /\ erx' \in {"get", "wait"} /\ p = NoFrame
      \/ erx # "release" /\ erx' = "input" /\ p # NoFrame
  <2>1. erx \in {"wait", "get"} => p = NoFrame
    BY DEF IInv, Mails
  <2>2. QED  BY <2>1 DEF RxWakes, RxDone, RxResumes, Interrupt, DmaOverruns, rxRest
<1>4. /\ RxLined(DMARxDscrTab, rx_dma, DMARxDescToGet, erx', n)
      /\ RingOf(DMARxDscrTab, DMARxDescToGet, erx') = RingOf(DMARxDscrTab, DMARxDescToGet, erx)
  <2>1. CASE erx' = erx
    BY <1>1, <2>1
  <2>2. CASE erx # "release" /\ erx' # "release"
    BY <1>1, <2>2, RingSame
  <2>3. QED  BY <1>3, <2>1, <2>2
<1>5. RxLines(DMARxDscrTab, rx_dma, DMARxDescToGet, erx)'
  BY <1>2, <1>4 DEF RxLines
<1>6. Mails'
  BY <1>2, <1>3 DEF IInv, Mails
<1>7. IInv'
  BY <1>2, <1>5, <1>6 DEF IInv, Sending, TxLines, txRing, txRest
<1>8. In' = In
  <2>1. In' = LineOf(tcpip_mbox, Held, RingOf(DMARxDscrTab, DMARxDescToGet, erx'))
    BY <1>2 DEF In, InRing, LineOf, RingOf, Held
  <2>2. QED  BY <1>4, <2>1, InIs
<1>9. Out' = Out /\ wire' = wire /\ heap' = heap
  BY <1>2 DEF Out, txRing
<1>10. QED  BY <1>2, <1>7, <1>8, <1>9 DEF Path!pvars

(* nor is what lwIP's thread does for a frame to send.                     *)
LEMMA TxQuietStep ==
  ASSUME IInv, (\E f \in Frame \ Bad : TcpipSends(f)) \/ TxAcks \/ DmaStarves
  PROVE  IInv' /\ UNCHANGED Path!pvars
<1>1. /\ UNCHANGED <<rxRing, rxRest, DMATxDscrTab, tx_dma, DMATxDescToSet, fifo, wire>>
  BY DEF TcpipSends, TxAcks, DmaStarves, txRing
<1>2. Sending'
  <2>1. Sending
    BY DEF IInv
  <2>3. CASE \E f \in Frame \ Bad : TcpipSends(f)
    <3>1. PICK f \in Frame \ Bad : TcpipSends(f)
      BY <2>3
    <3>2. f # NoFrame /\ f \in F0
      BY EthernetAssumption DEF F0
    <3>3. tcpip = "idle" /\ msg' = f /\ tcpip' = "ack" /\ etx' = etx
      BY <3>1 DEF TcpipSends
    <3>4. etx = "wait"
      BY <2>1, <3>3 DEF Sending
    <3>5. QED  BY <1>1, <2>1, <3>2, <3>3, <3>4 DEF Sending
  <2>4. CASE TxAcks
    BY <1>1, <2>1, <2>4 DEF TxAcks, Sending, F0
  <2>5. CASE DmaStarves
    BY <1>1, <2>1, <2>5 DEF DmaStarves, Sending, txRest
  <2>2. QED  BY <2>3, <2>4, <2>5
<1>3. IInv'
  BY <1>1, <1>2 DEF IInv, RxLines, Mails, TxLines, rxRing, rxRest
<1>4. In' = In /\ Out' = Out /\ got' = got /\ heap' = heap
  BY <1>1 DEF In, InRing, Held, Out, rxRing, rxRest
<1>5. QED  BY <1>1, <1>3, <1>4 DEF Path!pvars

(* The sending thread's copy spoils the first frame of a full ring, unless *)
(* the DMA has read that one.                                              *)
LEMMA CopiesStep ==
  ASSUME IInv, TxCopies
  PROVE  IInv' /\ [Path!PNext]_(Path!pvars)
<1> DEFINE new == Copied(DMATxDscrTab, DMATxDescToSet, msg)
           s == Waiting(DMATxDscrTab, tx_dma)
           t == Waiting(new, tx_dma)
<1>1. PICK n \in 0 .. TXBUFNB : TxLined(DMATxDscrTab, tx_dma, DMATxDescToSet, n)
  BY DEF IInv, TxLines
<1>2. /\ etx = "wait" /\ etx' = "prepare" /\ msg # NoFrame
      /\ DMATxDscrTab' = new
      /\ UNCHANGED <<rxRing, rxRest, tx_dma, DMATxDescToSet, fifo, wire, tcpip, msg>>
  BY DEF TxCopies, Copied
<1>3. Sending /\ msg \in Frame
  BY <1>2 DEF IInv, Sending, F0
<1>4. /\ TxLined(new, tx_dma, DMATxDescToSet, n)
      /\ new[DMATxDescToSet].buffer = msg /\ new[tx_dma].own = DMATxDscrTab[tx_dma].own
      /\ n # TXBUFNB => t = s
      /\ n = TXBUFNB => /\ Len(s) = TXBUFNB /\ s # <<>> /\ Tail(t) = Tail(s)
                        /\ t = <<Item(Head(s).len, msg)>> \o Tail(s)
  BY <1>1, <1>3, WaitingCopies
<1> HIDE DEF new, s, t
<1>5. TxLines(DMATxDscrTab, tx_dma, DMATxDescToSet)'
  BY <1>1, <1>2, <1>4 DEF TxLines
<1>6. Sending'
  BY <1>2, <1>3, <1>4 DEF Sending
<1>7. IInv'
  BY <1>2, <1>5, <1>6 DEF IInv, RxLines, Mails, rxRing, rxRest
<1>8. In' = In /\ got' = got /\ wire' = wire /\ heap' = heap
  BY <1>2 DEF In, InRing, Held, rxRing, rxRest
<1>9. Out = OutOf(fifo, s) /\ Out' = OutOf(fifo, t)
  <2>1. Out' = OutOf(fifo, Waiting(DMATxDscrTab', tx_dma'))
    BY <1>2 DEF Out, OutOf, Waiting
  <2>2. QED  BY <1>2, <2>1, OutIs DEF s, t
<1>10. CASE n # TXBUFNB \/ fifo # <<>>
  <2>1. Out' = Out
    BY <1>4, <1>9, <1>10 DEF OutOf
  <2>2. QED  BY <1>7, <1>8, <2>1 DEF Path!pvars
<1>11. CASE n = TXBUFNB /\ fifo = <<>>
  <2>1. Out = s /\ Out' = t
    BY <1>9, <1>11 DEF OutOf
  <2>2. Path!Spoil(msg)
    BY <1>4, <1>8, <1>11, <2>1 DEF Path!Spoil, Path!Cut, Item
  <2>3. QED  BY <1>3, <1>7, <2>2 DEF Path!PNext
<1>12. QED  BY <1>10, <1>11

(* A frame joins the line to be sent if there is room. *)
LEMMA PreparesStep ==
  ASSUME IInv, TxPrepares
  PROVE  IInv' /\ [Path!PNext]_(Path!pvars)
<1> DEFINE new == Prepared(DMATxDscrTab, DMATxDescToSet, msg)
           s == Waiting(DMATxDscrTab, tx_dma)
           t == Waiting(new, tx_dma)
           x == Item(msg, msg)
<1>1. PICK n \in 0 .. TXBUFNB : TxLined(DMATxDscrTab, tx_dma, DMATxDescToSet, n)
  BY DEF IInv, TxLines
<1>2. /\ etx = "prepare" /\ etx' = "ack"
      /\ UNCHANGED <<rxRing, rxRest, tx_dma, fifo, wire, tcpip, msg>>
  BY DEF TxPrepares
<1>3. Sending /\ msg \in Frame /\ DMATxDscrTab[DMATxDescToSet].buffer = msg
  BY <1>2 DEF IInv, Sending, F0
<1>4. In' = In /\ got' = got /\ wire' = wire /\ heap' = heap
  BY <1>2 DEF In, InRing, Held, rxRing, rxRest
<1>5. CASE UNCHANGED <<DMATxDscrTab, DMATxDescToSet>>
  <2>1. Sending'
    BY <1>2, <1>3, <1>5 DEF Sending
  <2>2. IInv'
    BY <1>2, <1>5, <2>1 DEF IInv, RxLines, Mails, TxLines, rxRing, rxRest
  <2>3. Out' = Out
    BY <1>2, <1>5 DEF Out
  <2>4. QED  BY <1>4, <2>2, <2>3 DEF Path!pvars
<1>6. CASE /\ ~DMATxDscrTab[DMATxDescToSet].own
           /\ DMATxDscrTab' = new /\ DMATxDescToSet' = NextTx(DMATxDescToSet)
  <2>1. /\ TxLined(new, tx_dma, NextTx(DMATxDescToSet), n + 1)
        /\ n < TXBUFNB /\ Len(s) = n
        /\ Item(msg, DMATxDscrTab[DMATxDescToSet].buffer) \in Items
        /\ n # 0 => new[tx_dma] = DMATxDscrTab[tx_dma]
        /\ t = Append(s, Item(msg, DMATxDscrTab[DMATxDescToSet].buffer))
    BY <1>1, <1>3, <1>6, WaitingPrepares
  <2>2. t = Append(s, x) /\ x \in Items
    BY <1>3, <2>1
  <2>3. s \in Seq(Items)
    BY <1>1, WaitingIsLine
  <2> HIDE DEF new, s, t, x
  <2>4. TxLines(DMATxDscrTab, tx_dma, DMATxDescToSet)'
    <3>1. n + 1 \in 0 .. TXBUFNB
      BY <2>1 DEF TxLined
    <3>2. QED  BY <1>2, <1>6, <2>1, <3>1 DEF TxLines
  <2>5. fifo # <<>> => n # 0 /\ s # <<>>
    <3>1. SUFFICES ASSUME fifo # <<>> PROVE n # 0 /\ s # <<>>
      OBVIOUS
    <3>2. DMATxDscrTab[tx_dma].own
      BY <1>3, <3>1 DEF Sending
    <3>3. At(tx_dma, 0, TXBUFNB) = tx_dma /\ 0 \in TxSlots
      BY <1>1, TxPlaces
    <3>4. 0 < n
      BY <1>1, <3>2, <3>3 DEF TxLined, TxAt
    <3>5. Len(s) # 0
      BY <2>1, <3>4
    <3>6. QED  BY <3>4, <3>5, EmptySeq
  <2>6. Sending'
    BY <1>2, <1>3, <1>6, <2>1, <2>5 DEF Sending
  <2>7. IInv'
    BY <1>2, <2>4, <2>6 DEF IInv, RxLines, Mails, rxRing, rxRest
  <2>8. Out = OutOf(fifo, s) /\ Out' = OutOf(fifo, t)
    <3>1. Out' = OutOf(fifo, Waiting(DMATxDscrTab', tx_dma'))
      BY <1>2 DEF Out, OutOf, Waiting
    <3>2. QED  BY <1>2, <1>6, <3>1, OutIs DEF s, t
  <2>9. Out' = Append(Out, x) /\ Len(Out) = n
    <3>1. CASE fifo = <<>>
      BY <2>1, <2>2, <2>8, <3>1 DEF OutOf
    <3>2. CASE fifo # <<>>
      <4>1. PICK e \in Items : fifo = <<e>>
        BY <1>3, <3>2 DEF Sending
      <4>2. s # <<>> /\ Tail(s) \in Seq(Items) /\ Len(s) = Len(Tail(s)) + 1
        BY <2>3, <2>5, <3>2, HeadTail
      <4>3. Tail(t) = Append(Tail(s), x)
        BY <2>2, <2>3, <4>2, HeadTailAppend
      <4> DEFINE v == Tail(s)
      <4>4. v \in Seq(Items) /\ Len(v) \in Nat
        BY <4>2, LenProperties
      <4>5. Out = fifo \o v /\ Out' = fifo \o Append(v, x)
        BY <2>8, <3>2, <4>3 DEF OutOf
      <4>6. Len(s) = Len(v) + 1
        BY <4>2
      <4> HIDE DEF v
      <4>7. fifo \in Seq(Items) /\ Len(fifo) = 1
        BY <4>1
      <4>8. fifo \o Append(v, x) = Append(fifo \o v, x)
        BY <2>2, <4>4, <4>7, AppendsToBoth
      <4>9. Len(fifo \o v) = Len(fifo) + Len(v)
        BY <4>4, <4>7, ConcatProperties
      <4>10. Len(Out) = n
        BY <2>1, <4>4, <4>5, <4>6, <4>7, <4>9
      <4>11. QED  BY <4>5, <4>8, <4>10
    <3>3. QED  BY <3>1, <3>2
  <2>10. Path!Put(msg)
    BY <1>4, <2>1, <2>9 DEF Path!Put, Path!Cut, Item, x
  <2>11. QED  BY <1>3, <2>7, <2>10 DEF Path!PNext
<1>7. QED  BY <1>5, <1>6 DEF TxPrepares, Prepared

(* What the DMA has read is the first frame of the line.                   *)
LEMMA FetchesStep ==
  ASSUME IInv, DmaFetches
  PROVE  IInv' /\ UNCHANGED Path!pvars
<1> DEFINE s == Waiting(DMATxDscrTab, tx_dma)
           x == Item(DMATxDscrTab[tx_dma].len, DMATxDscrTab[tx_dma].buffer)
           t == Waiting(Sent(DMATxDscrTab, tx_dma), NextTx(tx_dma))
<1>1. PICK n \in 0 .. TXBUFNB : TxLined(DMATxDscrTab, tx_dma, DMATxDescToSet, n)
  BY DEF IInv, TxLines
<1>2. /\ fifo = <<>> /\ DMATxDscrTab[tx_dma].own
      /\ fifo' = <<x>>
      /\ UNCHANGED <<rxRing, rxRest, DMATxDscrTab, tx_dma, DMATxDescToSet, wire, txRest>>
  BY DEF DmaFetches, Item
<1>3. x \in Items /\ s # <<>> /\ Tail(s) = t /\ s = <<x>> \o t
  BY <1>1, <1>2, WaitingSends
<1> HIDE DEF s, x, t
<1>4. Sending'
  <2>1. Sending
    BY DEF IInv
  <2>2. QED  BY <1>2, <1>3, <2>1 DEF Sending, txRest
<1>5. IInv'
  BY <1>2, <1>4 DEF IInv, RxLines, Mails, TxLines, rxRing, rxRest
<1>6. In' = In /\ got' = got /\ wire' = wire /\ heap' = heap
  BY <1>2 DEF In, InRing, Held, rxRing, rxRest
<1>7. Out = s /\ Out' = <<x>> \o Tail(s)
  <2>1. Out' = OutOf(fifo', s)
    BY <1>2 DEF Out, OutOf, Waiting, s
  <2>2. <<x>> # <<>>
    OBVIOUS
  <2>3. QED  BY <1>2, <2>1, <2>2, OutIs DEF OutOf, s
<1>8. Out' = Out
  BY <1>3, <1>7
<1>9. QED  BY <1>5, <1>6, <1>8 DEF Path!pvars

(* It is that one that is sent. *)
LEMMA SendsStep ==
  ASSUME IInv, DmaSends
  PROVE  IInv' /\ Path!Send
<1> DEFINE new == Sent(DMATxDscrTab, tx_dma)
           s == Waiting(DMATxDscrTab, tx_dma)
           t == Waiting(new, NextTx(tx_dma))
<1>1. PICK n \in 0 .. TXBUFNB : TxLined(DMATxDscrTab, tx_dma, DMATxDescToSet, n)
  BY DEF IInv, TxLines
<1>2. /\ fifo # <<>> /\ wire' = Head(fifo) /\ fifo' = <<>>
      /\ DMATxDscrTab' = new /\ tx_dma' = NextTx(tx_dma)
      /\ UNCHANGED <<rxRing, rxRest, DMATxDescToSet, txRest>>
  BY DEF DmaSends, Sent
<1>3. Sending
  BY DEF IInv
<1>4. DMATxDscrTab[tx_dma].own
  BY <1>2, <1>3 DEF Sending
<1>5. PICK e \in Items : fifo = <<e>>
  BY <1>2, <1>3 DEF Sending
<1>6. /\ TxLined(new, NextTx(tx_dma), DMATxDescToSet, n - 1) /\ n - 1 \in 0 .. TXBUFNB
      /\ \A i \in TxSlots : new[i].buffer = DMATxDscrTab[i].buffer
      /\ s # <<>> /\ Tail(s) = t
  BY <1>1, <1>4, WaitingSends
<1>7. t \in Seq(Items)
  BY <1>6, WaitingIsLine
<1>8. DMATxDescToSet \in TxSlots
  BY <1>1, TxPlaces
<1> HIDE DEF new, s, t
<1>9. TxLines(DMATxDscrTab, tx_dma, DMATxDescToSet)'
  BY <1>2, <1>6 DEF TxLines
<1>10. Sending'
  BY <1>2, <1>3, <1>6, <1>8 DEF Sending, txRest
<1>11. IInv'
  BY <1>2, <1>9, <1>10 DEF IInv, RxLines, Mails, rxRing, rxRest
<1>12. In' = In /\ got' = got /\ heap' = heap
  BY <1>2 DEF In, InRing, Held, rxRing, rxRest
<1>13. Out = <<e>> \o t /\ Out' = t
  <2>1. Out' = OutOf(fifo', Waiting(DMATxDscrTab', tx_dma'))
    BY DEF Out, OutOf, Waiting
  <2>2. Out = OutOf(fifo, s)
    BY OutIs DEF s
  <2>3. QED  BY <1>2, <1>5, <1>6, <2>1, <2>2 DEF OutOf, t
<1>14. Out # <<>> /\ Head(Out) = e /\ Tail(Out) = t
  BY <1>5, <1>7, <1>13, HeadTailOfConcat
<1>15. Head(fifo) = e
  BY <1>5
<1>16. QED  BY <1>2, <1>11, <1>12, <1>13, <1>14, <1>15 DEF Path!Send
-----------------------------------------------------------------------------
(* Every step keeps the invariant and is one of the lines, or none. *)
LEMMA NextStep ==
  ASSUME IInv, [Next]_vars
  PROVE  IInv' /\ [Path!PNext]_(Path!pvars)
<1>1. CASE \E f \in Frame : DmaReceives(f)
  BY <1>1, ReceivesStep DEF Path!PNext
<1>2. CASE RxGets
  BY <1>2, GetsStep
<1>3. CASE RxInput
  BY <1>3, InputStep
<1>4. CASE TcpipTakes
  BY <1>4, TakesStep DEF Path!PNext
<1>5. CASE RxReleases
  BY <1>5, ReleasesStep
<1>6. CASE RxWakes \/ RxDone \/ RxResumes \/ Interrupt \/ DmaOverruns
  BY <1>6, RxQuietStep
<1>7. CASE (\E f \in Frame \ Bad : TcpipSends(f)) \/ TxAcks \/ DmaStarves
  BY <1>7, TxQuietStep
<1>8. CASE TxCopies
  BY <1>8, CopiesStep
<1>9. CASE TxPrepares
  BY <1>9, PreparesStep
<1>10. CASE DmaFetches
  BY <1>10, FetchesStep
<1>11. CASE DmaSends
  BY <1>11, SendsStep DEF Path!PNext
<1>12. CASE \E t \in Caller : Calls(t)
  BY <1>12, CallsStep DEF Path!PNext
<1>13. CASE \E h \in Heap : HeapChanges(h)
  BY <1>13, HeapStep DEF Path!PNext
<1>14. CASE UNCHANGED vars
  BY <1>14 DEF vars, rxRing, rxRest, txRing, txRest, IInv, RxLines, Mails, TxLines,
               Sending, Path!pvars, In, InRing, Held, Out
<1>15. QED
  BY <1>1, <1>2, <1>3, <1>4, <1>5, <1>6, <1>7, <1>8, <1>9, <1>10, <1>11, <1>12,
     <1>13, <1>14
     DEF Next, RxThread, TxThread

(* Every reachable state satisfies the invariant. *)
LEMMA AlwaysIInv == Spec => []IInv
<1>1. IInv /\ [Next]_vars => IInv'
  BY NextStep
<1>2. QED  BY <1>1, InitInv, PTL DEF Spec

(* The driver is the two lines of frames of FramePath, for any number of   *)
(* descriptors, mails and calling threads: nothing is doubled, reordered   *)
(* or mixed up, a frame is lost only with an error, while the heap is      *)
(* short or behind a full mailbox (tcpip.c:215), and spoilt only by one    *)
(* that finds the send ring full (stm32f4_eth.c:133).                      *)
THEOREM ImplementsFramePath == Spec => FramePathSpec
<1>1. IInv /\ [Next]_vars => [Path!PNext]_(Path!pvars)
  BY NextStep
<1>2. QED
  BY <1>1, AlwaysIInv, InitImplements, PTL DEF Spec, FramePathSpec, Path!PSpec
=============================================================================
