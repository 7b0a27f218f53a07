--------------------------- MODULE PinRendezvousProofs ---------------------------
(***************************************************************************)
(* What PinRendezvous guarantees for every length of a bucket and of a     *)
(* publish, and for any number of rotations: with room for three PINs in   *)
(* the cache, a PIN that was on the screen reaches its listener.           *)
(*                                                                         *)
(* The argument is about buckets alone: what it needs of the division is   *)
(* that buckets grow with time, by one per BucketTicks.                    *)
(***************************************************************************)
EXTENDS PinRendezvous, SequenceTheorems, TLAPS

PinRecord == [bucket : Int, shown : Int, published : Int, gone : Int]

\* The first tick of a bucket.
Boundary(time) == Bucket(time - 1) = Bucket(time) - 1

Shape ==
    /\ now \in Nat /\ wakeAt \in Nat
    /\ pins \in Seq(PinRecord)
    /\ recent \in Seq(Nat)
    /\ phase \in {"top", "publish", "asleep"}

\* Each PIN is of the bucket in which it was shown, and is replaced on a boundary,
\* one bucket later or, when its publish crossed a boundary, two.
PinInv(i) ==
    /\ pins[i].bucket = Bucket(pins[i].shown)
    /\ 0 <= pins[i].shown /\ pins[i].shown <= now

GoneInv(i) ==
    /\ pins[i].gone = pins[i + 1].shown
    /\ Boundary(pins[i + 1].shown)
    /\ pins[i].bucket < pins[i + 1].bucket
    /\ pins[i + 1].bucket <= pins[i].bucket + 2

PinsInv ==
    /\ \A i \in 1 .. Len(pins) : PinInv(i)
    /\ \A i \in 1 .. Len(pins) - 1 : GoneInv(i)
    /\ pins # <<>> => pins[Len(pins)].gone = NotYet

\* The cache holds the newest PINs, the newest first.
RecentInv ==
    /\ Len(recent) = IF Len(pins) < PinCache THEN Len(pins) ELSE PinCache
    /\ \A k \in 1 .. Len(recent) : recent[k] = Len(pins) + 1 - k

\* The boundary that ends the time of the newest PIN.
Rotation(time) ==
    /\ Boundary(time)
    /\ pins[Len(pins)].bucket < Bucket(time)
    /\ Bucket(time) <= pins[Len(pins)].bucket + 2

PhaseInv ==
    /\ phase = "top" /\ pins # <<>> => Rotation(now)
    /\ phase = "publish" => pins # <<>> /\ now - pins[Len(pins)].shown < MaxPublish
    /\ phase = "asleep" => pins # <<>> /\ now <= wakeAt /\ Rotation(wakeAt)

IInv == Shape /\ PinsInv /\ RecentInv /\ PhaseInv

------------------------------------------------------------------------------
(* Buckets. *)

LEMMA BucketBounds ==
    ASSUME TicksAssumption, NEW t \in Int
    PROVE  /\ Bucket(t) \in Int
           /\ BucketTicks * Bucket(t) <= t /\ t < BucketTicks * Bucket(t) + BucketTicks
BY DEF Bucket, TicksAssumption

LEMMA BoundaryAhead ==
    ASSUME TicksAssumption, NEW t \in Int
    PROVE  /\ UntilNextBucket(t) \in 1 .. BucketTicks
           /\ t + UntilNextBucket(t) = BucketTicks * Bucket(t) + BucketTicks
BY DEF UntilNextBucket, Bucket, TicksAssumption

LEMMA BucketTypes ==
    ASSUME TicksAssumption
    PROVE  /\ BucketTicks \in Int /\ BucketTicks > 0
           /\ \A q \in Int : BucketTicks * q \in Int
           /\ \A q \in Int : BucketTicks * (q + 1) = BucketTicks * q + BucketTicks
           /\ \A q \in Int : BucketTicks * (q - 1) = BucketTicks * q - BucketTicks
BY DEF TicksAssumption

LEMMA Multiples ==
    ASSUME TicksAssumption, NEW a \in Int, NEW b \in Int,
           BucketTicks * a < BucketTicks * b + BucketTicks
    PROVE  a <= b
BY DEF TicksAssumption

\* Buckets grow with time.
LEMMA BucketGrows ==
    ASSUME TicksAssumption, NEW s \in Int, NEW t \in Int, s <= t
    PROVE  Bucket(s) <= Bucket(t)
<1>1. /\ Bucket(s) \in Int /\ Bucket(t) \in Int
      /\ BucketTicks * Bucket(s) <= s /\ t < BucketTicks * Bucket(t) + BucketTicks
      /\ BucketTicks * Bucket(s) \in Int /\ BucketTicks * Bucket(t) \in Int /\ BucketTicks \in Int
  BY BucketBounds, BucketTypes
<1>2. BucketTicks * Bucket(s) < BucketTicks * Bucket(t) + BucketTicks
  BY <1>1
<1>3. QED
  BY <1>1, <1>2, Multiples

\* One bucket is over after as many ticks.
LEMMA BucketShift ==
    ASSUME TicksAssumption, NEW t \in Int
    PROVE  Bucket(t + BucketTicks) = Bucket(t) + 1 /\ Bucket(t - BucketTicks) = Bucket(t) - 1
<1>1. ASSUME NEW s \in Int, NEW q \in Int,
             BucketTicks * q <= s, s < BucketTicks * q + BucketTicks
      PROVE  Bucket(s) = q
  <2>1. /\ Bucket(s) \in Int /\ BucketTicks \in Int
        /\ BucketTicks * Bucket(s) <= s /\ s < BucketTicks * Bucket(s) + BucketTicks
        /\ BucketTicks * q \in Int /\ BucketTicks * Bucket(s) \in Int
    BY BucketBounds, BucketTypes
  <2>2. BucketTicks * q < BucketTicks * Bucket(s) + BucketTicks
    BY <1>1, <2>1
  <2>3. BucketTicks * Bucket(s) < BucketTicks * q + BucketTicks
    BY <1>1, <2>1
  <2>4. QED
    BY <2>1, <2>2, <2>3, Multiples
<1>2. /\ Bucket(t) \in Int /\ BucketTicks \in Int
      /\ BucketTicks * Bucket(t) <= t /\ t < BucketTicks * Bucket(t) + BucketTicks
      /\ BucketTicks * (Bucket(t) + 1) = BucketTicks * Bucket(t) + BucketTicks
      /\ BucketTicks * (Bucket(t) - 1) = BucketTicks * Bucket(t) - BucketTicks
      /\ BucketTicks * Bucket(t) \in Int
  BY BucketBounds, BucketTypes
<1>3. Bucket(t + BucketTicks) = Bucket(t) + 1
  BY <1>1, <1>2
<1>4. Bucket(t - BucketTicks) = Bucket(t) - 1
  BY <1>1, <1>2
<1>5. QED
  BY <1>3, <1>4

\* The publisher sleeps to the first tick of the bucket that follows.
LEMMA NextBucket ==
    ASSUME TicksAssumption, NEW t \in Nat
    PROVE  /\ UntilNextBucket(t) \in 1 .. BucketTicks
           /\ Bucket(t + UntilNextBucket(t)) = Bucket(t) + 1
           /\ Boundary(t + UntilNextBucket(t))
<1> DEFINE u == UntilNextBucket(t)
<1>1. t \in Int /\ u \in 1 .. BucketTicks /\ BucketTicks \in Int
  <2>1. t \in Int
    OBVIOUS
  <2>2. u \in 1 .. BucketTicks
    BY <2>1, BoundaryAhead
  <2>3. QED
    BY <2>1, <2>2, BucketTypes
<1>2. /\ Bucket(t) \in Int
      /\ t + u = BucketTicks * Bucket(t) + BucketTicks
      /\ BucketTicks * Bucket(t) \in Int
  BY <1>1, BoundaryAhead, BucketBounds, BucketTypes
<1> HIDE DEF u
<1>3. Bucket(t + u) = Bucket(t) + 1
  <2>1. Bucket(t + u) >= Bucket(t) + 1
    <3>1. /\ Bucket(t + u) \in Int /\ BucketTicks * Bucket(t + u) \in Int
          /\ t + u < BucketTicks * Bucket(t + u) + BucketTicks
      <4>1. t + u \in Int
        BY <1>1
      <4>2. QED
        BY <4>1, BucketBounds, BucketTypes
    <3>2. BucketTicks * (Bucket(t) + 1) < BucketTicks * Bucket(t + u) + BucketTicks
      BY <1>1, <1>2, <3>1
    <3>3. QED
      BY <1>2, <3>1, <3>2, Multiples
  <2>2. Bucket(t + u) <= Bucket(t + BucketTicks)
    BY <1>1, BucketGrows
  <2>3. QED
    <3>1. Bucket(t + u) \in Int
      BY <1>1, BucketBounds
    <3>2. QED
      BY <1>2, <2>1, <2>2, <3>1, BucketShift
<1>4. Bucket(t + u - 1) = Bucket(t)
  <2>1. Bucket(t) <= Bucket(t + u - 1)
    BY <1>1, BucketGrows
  <2>2. Bucket(t + u - 1) <= Bucket(t)
    <3>1. /\ Bucket(t + u - 1) \in Int /\ BucketTicks * Bucket(t + u - 1) \in Int
          /\ BucketTicks * Bucket(t + u - 1) <= t + u - 1
      <4>1. t + u - 1 \in Int
        BY <1>1
      <4>2. QED
        BY <4>1, BucketBounds, BucketTypes
    <3>2. BucketTicks * Bucket(t + u - 1) < BucketTicks * Bucket(t) + BucketTicks
      BY <1>1, <1>2, <3>1
    <3>3. QED
      BY <1>2, <3>1, <3>2, Multiples
  <2>3. QED
    <3>1. t + u - 1 \in Int
      BY <1>1
    <3>2. Bucket(t + u - 1) \in Int
      BY <3>1, BucketBounds
    <3>3. QED
      BY <1>2, <2>1, <2>2, <3>2
<1>5. QED
  BY <1>1, <1>2, <1>3, <1>4 DEF Boundary, u

------------------------------------------------------------------------------
(* Steps. *)

LEMMA InitIInv ==
    ASSUME TicksAssumption, CacheAssumption, Init
    PROVE  IInv
<1>1. now \in Nat
  BY BucketTypes DEF Init
<1>2. Shape
  BY <1>1, EmptySeq DEF Init, Shape
<1>3. Len(pins) = 0 /\ Len(recent) = 0
  BY EmptySeq DEF Init
<1>4. PinsInv /\ RecentInv /\ PhaseInv
  BY <1>3 DEF Init, PinsInv, RecentInv, PhaseInv, CacheAssumption
<1>5. QED
  BY <1>2, <1>4 DEF IInv

\* The old PINs after a rotation: only the newest of them was still on the screen.
Retired == [i \in DOMAIN pins |->
               IF pins[i].gone = NotYet THEN [pins[i] EXCEPT !.gone = now] ELSE pins[i]]

LEMMA RetiredPins ==
    ASSUME IInv
    PROVE  /\ Retired \in Seq(PinRecord) /\ Len(Retired) = Len(pins) /\ Len(pins) \in Nat
           /\ \A i \in 1 .. Len(pins) :
                 /\ Retired[i].bucket = pins[i].bucket
                 /\ Retired[i].shown = pins[i].shown
                 /\ Retired[i].published = pins[i].published
                 /\ Retired[i].gone = IF i < Len(pins) THEN pins[i].gone ELSE now
<1>1. pins \in Seq(PinRecord) /\ Len(pins) \in Nat /\ DOMAIN pins = 1 .. Len(pins) /\ now \in Int
  BY DEF IInv, Shape
<1>2. ASSUME NEW i \in 1 .. Len(pins)
      PROVE  /\ Retired[i] \in PinRecord
             /\ Retired[i].bucket = pins[i].bucket
             /\ Retired[i].shown = pins[i].shown
             /\ Retired[i].published = pins[i].published
             /\ Retired[i].gone = IF i < Len(pins) THEN pins[i].gone ELSE now
  <2>1. pins[i] \in PinRecord
    BY <1>1, ElementOfSeq
  <2>2. i < Len(pins) => pins[i].gone # NotYet
    <3>1. SUFFICES ASSUME i < Len(pins) PROVE pins[i].gone # NotYet
      OBVIOUS
    <3>2. i \in 1 .. Len(pins) - 1 /\ i + 1 \in 1 .. Len(pins)
      BY <1>1, <3>1
    <3>3. GoneInv(i) /\ PinInv(i + 1)
      BY <3>2 DEF IInv, PinsInv
    <3>4. QED
      BY <3>3 DEF GoneInv, PinInv, NotYet
  <2>3. i = Len(pins) => pins[i].gone = NotYet
    <3>1. i = Len(pins) => pins # <<>>
      BY <1>1, EmptySeq
    <3>2. QED
      BY <3>1 DEF IInv, PinsInv
  <2>4. i < Len(pins) \/ i = Len(pins)
    <3>1. Len(pins) \in Nat
      BY <1>1
    <3>2. QED
      BY <3>1
  <2>5. CASE i < Len(pins)
    <3>1. Retired[i] = pins[i]
      BY <1>1, <2>2, <2>5 DEF Retired
    <3>2. QED
      BY <2>1, <2>5, <3>1
  <2>6. CASE i = Len(pins)
    <3>1. Retired[i] = [pins[i] EXCEPT !.gone = now]
      BY <1>1, <2>3, <2>6 DEF Retired
    <3>2. ~(i < Len(pins))
      BY <1>1, <2>6
    <3>3. QED
      BY <1>1, <2>1, <3>1, <3>2 DEF PinRecord
  <2>7. QED
    BY <2>4, <2>5, <2>6
<1>3. Retired = [i \in 1 .. Len(pins) |-> Retired[i]]
  BY <1>1 DEF Retired
<1>4. Retired \in Seq(PinRecord) /\ Len(Retired) = Len(pins)
  BY <1>1, <1>2, <1>3
<1>5. QED
  BY <1>1, <1>2, <1>4

\* The trim of the cache: the new PIN at its head, and of the old ones the newest.
LEMMA PushKeeps ==
    ASSUME CacheAssumption, IInv, NEW q \in Seq(PinRecord), Len(q) = Len(pins) + 1,
           Push(Len(pins) + 1), pins' = q
    PROVE  RecentInv' /\ recent' \in Seq(Nat)
<1> DEFINE m == Len(pins) + 1
           old == <<m>> \o recent
           n == IF PinCache < Len(old) THEN PinCache ELSE Len(old)
<1>1. /\ PinCache \in Nat /\ PinCache > 0 /\ Len(pins) \in Nat /\ m \in Nat
      /\ recent \in Seq(Nat) /\ Len(recent) \in Nat
  BY DEF CacheAssumption, IInv, Shape
<1>2. /\ Len(recent) = IF Len(pins) < PinCache THEN Len(pins) ELSE PinCache
      /\ \A k \in 1 .. Len(recent) : recent[k] = Len(pins) + 1 - k
  BY DEF IInv, RecentInv
<1>3. /\ old \in Seq(Nat) /\ Len(old) = Len(recent) + 1
      /\ \A k \in 1 .. Len(old) : old[k] = IF k = 1 THEN m ELSE recent[k - 1]
  <2>1. <<m>> \in Seq(Nat) /\ Len(<<m>>) = 1 /\ <<m>>[1] = m
    BY <1>1
  <2> HIDE DEF m
  <2>2. QED
    BY <1>1, <2>1, ConcatProperties
<1>4. recent' = SubSeq(old, 1, n)
  BY DEF Push, First
<1> HIDE DEF old
<1>5. n \in 0 .. Len(old) /\ n = IF m < PinCache THEN m ELSE PinCache
  BY <1>1, <1>2, <1>3
<1> HIDE DEF n
<1>6. /\ recent' \in Seq(Nat) /\ Len(recent') = n
      /\ \A k \in 1 .. n : recent'[k] = old[k]
  <2>1. SubSeq(old, 1, n) \in Seq(Nat) /\ Len(SubSeq(old, 1, n)) = n
    <3>1. \A k \in 1 .. n : old[k] \in Nat
      <4>1. SUFFICES ASSUME NEW k \in 1 .. n PROVE old[k] \in Nat
        OBVIOUS
      <4>2. k \in 1 .. Len(old)
        BY <1>1, <1>3, <1>5
      <4>3. QED
        BY <1>3, <4>2, ElementOfSeq
    <3>2. n \in Nat /\ 1 \in Int /\ n \in Int
      BY <1>1, <1>3, <1>5
    <3>3. /\ SubSeq(old, 1, n) \in Seq(Nat)
          /\ Len(SubSeq(old, 1, n)) = IF 1 <= n THEN n - 1 + 1 ELSE 0
      BY <3>1, <3>2, SubSeqProperties
    <3>4. QED
      BY <3>2, <3>3
  <2>2. \A k \in 1 .. n : SubSeq(old, 1, n)[k] = old[k]
    BY <1>1, <1>3, <1>5
  <2>3. QED
    BY <1>4, <2>1, <2>2
<1>7. ASSUME NEW k \in 1 .. n PROVE recent'[k] = m + 1 - k
  <2>1. k \in 1 .. Len(old)
    BY <1>1, <1>3, <1>5
  <2>2. CASE k = 1
    BY <1>1, <1>3, <1>6, <2>1, <2>2
  <2>3. CASE k # 1
    <3>1. k - 1 \in 1 .. Len(recent)
      BY <1>1, <1>3, <2>1, <2>3
    <3>2. recent[k - 1] = Len(pins) + 1 - (k - 1)
      BY <1>2, <3>1
    <3>3. recent'[k] = recent[k - 1]
      BY <1>3, <1>6, <2>1, <2>3
    <3>4. QED
      BY <1>1, <3>1, <3>2, <3>3
  <2>4. QED
    BY <2>2, <2>3
<1>8. Len(pins') = m
  OBVIOUS
<1> HIDE DEF m
<1>9. QED
  BY <1>5, <1>6, <1>7, <1>8 DEF RecentInv

\* A rotation puts the bucket after the old one's on the screen.
LEMMA MintIInv ==
    ASSUME TicksAssumption, CacheAssumption, IInv, Mint
    PROVE  IInv'
<1> DEFINE m == Len(pins)
           r == Pin(now)
<1>1. /\ Retired \in Seq(PinRecord) /\ Len(Retired) = m /\ m \in Nat
      /\ \A i \in 1 .. m :
            /\ Retired[i].bucket = pins[i].bucket
            /\ Retired[i].shown = pins[i].shown
            /\ Retired[i].gone = IF i < m THEN pins[i].gone ELSE now
  BY RetiredPins
<1>2. /\ now \in Nat /\ now \in Int /\ wakeAt \in Nat /\ phase = "top" /\ phase' = "publish"
      /\ now' = now /\ wakeAt' = wakeAt /\ pins' = Append(Retired, r) /\ Push(m + 1)
  BY DEF IInv, Shape, Mint, Retired
<1>3. /\ r \in PinRecord /\ r.bucket = Bucket(now) /\ r.shown = now /\ r.gone = NotYet
      /\ Bucket(now) \in Int
  <2>1. Bucket(now) \in Int
    BY <1>2, BucketBounds
  <2>2. QED
    BY <1>2, <2>1 DEF Pin, PinRecord, NotYet
<1> HIDE DEF r
<1>4. /\ pins' \in Seq(PinRecord) /\ Len(pins') = m + 1 /\ pins'[m + 1] = r
      /\ \A i \in 1 .. m : pins'[i] = Retired[i]
  BY <1>1, <1>2, <1>3, AppendProperties
<1> HIDE DEF m
<1>5. RecentInv' /\ recent' \in Seq(Nat)
  BY <1>2, <1>4, PushKeeps DEF m
<1>6. \A i \in 1 .. m + 1 : PinInv(i)'
  <2>1. SUFFICES ASSUME NEW i \in 1 .. m + 1 PROVE PinInv(i)'
    OBVIOUS
  <2>2. CASE i \in 1 .. m
    <3>1. PinInv(i)
      BY <2>2 DEF IInv, PinsInv, m
    <3>2. pins'[i].bucket = pins[i].bucket /\ pins'[i].shown = pins[i].shown
      BY <1>1, <1>4, <2>2
    <3>3. QED
      BY <1>2, <3>1, <3>2 DEF PinInv, Bucket
  <2>3. CASE i = m + 1
    <3>1. pins'[i].bucket = Bucket(now) /\ pins'[i].shown = now
      BY <1>3, <1>4, <2>3
    <3>2. QED
      BY <1>2, <3>1 DEF PinInv, Bucket
  <2>4. QED
    BY <1>1, <2>2, <2>3
<1>7. \A i \in 1 .. m : GoneInv(i)'
  <2>1. SUFFICES ASSUME NEW i \in 1 .. m PROVE GoneInv(i)'
    OBVIOUS
  <2>2. CASE i < m
    <3>1. i \in 1 .. m - 1 /\ i + 1 \in 1 .. m
      BY <1>1, <2>2
    <3>2. GoneInv(i)
      BY <3>1 DEF IInv, PinsInv, m
    <3>3. /\ pins'[i].bucket = pins[i].bucket /\ pins'[i].gone = pins[i].gone
          /\ pins'[i + 1].bucket = pins[i + 1].bucket /\ pins'[i + 1].shown = pins[i + 1].shown
      BY <1>1, <1>4, <2>2, <3>1
    <3>4. QED
      BY <3>2, <3>3 DEF GoneInv, Boundary, Bucket
  <2>3. CASE i = m
    <3>1. pins # <<>>
      BY <1>1, <2>3, EmptySeq DEF m
    <3>2. Rotation(now)
      BY <1>2, <3>1 DEF IInv, PhaseInv
    <3>3. /\ pins'[i].bucket = pins[m].bucket /\ pins'[i].gone = now
          /\ pins'[i + 1].bucket = Bucket(now) /\ pins'[i + 1].shown = now
      BY <1>1, <1>3, <1>4, <2>3
    <3>4. QED
      BY <3>2, <3>3 DEF GoneInv, Rotation, Boundary, Bucket, m
  <2>4. QED
    BY <1>1, <2>2, <2>3
<1>8. pins' # <<>> /\ pins'[Len(pins')].gone = NotYet /\ pins'[Len(pins')].shown = now
  BY <1>1, <1>3, <1>4, EmptySeq
<1>9. PinsInv'
  <2>1. Len(pins') - 1 = m
    BY <1>1, <1>4
  <2>2. QED
    BY <1>4, <1>6, <1>7, <1>8, <2>1 DEF PinsInv
<1>10. Shape'
  BY <1>2, <1>4, <1>5 DEF Shape
<1>11. PhaseInv'
  <2>1. now - now < MaxPublish
    BY <1>2 DEF TicksAssumption
  <2>2. QED
    BY <1>2, <1>8, <2>1 DEF PhaseInv
<1>12. QED
  BY <1>5, <1>9, <1>10, <1>11 DEF IInv

\* From its showing to the end of its publish a PIN sees at most one boundary.
LEMMA PublishIsShort ==
    ASSUME TicksAssumption, IInv, phase = "publish"
    PROVE  /\ pins # <<>> /\ Len(pins) \in 1 .. Len(pins) /\ now \in Nat
           /\ Bucket(now) \in Int /\ pins[Len(pins)].bucket \in Int
           /\ pins[Len(pins)].bucket <= Bucket(now)
           /\ Bucket(now) <= pins[Len(pins)].bucket + 1
<1> DEFINE p == pins[Len(pins)]
<1>1. /\ pins # <<>> /\ Len(pins) \in 1 .. Len(pins) /\ now \in Nat /\ now \in Int
      /\ now - p.shown < MaxPublish
  <2>1. pins # <<>> /\ now - p.shown < MaxPublish /\ now \in Nat /\ pins \in Seq(PinRecord)
    BY DEF IInv, Shape, PhaseInv
  <2>2. Len(pins) \in 1 .. Len(pins)
    BY <2>1, EmptySeq
  <2>3. QED
    BY <2>1, <2>2
<1>2. p.bucket = Bucket(p.shown) /\ p.shown <= now
  BY <1>1 DEF IInv, PinsInv, PinInv
<1>3. p \in PinRecord
  BY <1>1, ElementOfSeq DEF IInv, Shape
<1>4. p.shown \in Int /\ p.bucket \in Int
  BY <1>3 DEF PinRecord
<1> HIDE DEF p
<1>5. p.shown + BucketTicks \in Int /\ now <= p.shown + BucketTicks
  BY <1>1, <1>4 DEF TicksAssumption
<1>6. Bucket(now) \in Int
  BY <1>1, BucketBounds
<1>7. Bucket(p.shown) <= Bucket(now)
  BY <1>1, <1>2, <1>4, BucketGrows
<1>8. Bucket(now) <= Bucket(p.shown + BucketTicks)
  BY <1>1, <1>5, BucketGrows
<1>9. Bucket(p.shown + BucketTicks) = p.bucket + 1
  BY <1>2, <1>4, BucketShift
<1>10. QED
  BY <1>1, <1>2, <1>4, <1>6, <1>7, <1>8, <1>9 DEF p

LEMMA PublishIInv ==
    ASSUME TicksAssumption, IInv, Publish
    PROVE  IInv'
<1> DEFINE m == Len(pins)
<1>1. /\ now \in Nat /\ wakeAt \in Nat /\ pins \in Seq(PinRecord) /\ recent \in Seq(Nat)
      /\ phase = "publish" /\ phase' = "asleep" /\ now' = now /\ recent' = recent
      /\ wakeAt' = now + UntilNextBucket(now)
  BY DEF IInv, Shape, Publish
<1>2. /\ pins # <<>> /\ m \in 1 .. m /\ pins[m].bucket \in Int /\ Bucket(now) \in Int
      /\ pins[m].bucket <= Bucket(now) /\ Bucket(now) <= pins[m].bucket + 1
  BY <1>1, PublishIsShort
<1>3. /\ pins' \in Seq(PinRecord) /\ Len(pins') = m
      /\ \A i \in 1 .. m :
            /\ pins'[i].bucket = pins[i].bucket
            /\ pins'[i].shown = pins[i].shown
            /\ pins'[i].gone = pins[i].gone
  <2>1. CASE UNCHANGED pins
    BY <1>1, <2>1
  <2>2. CASE pins' = [pins EXCEPT ![Len(pins)].published = now]
    <3>1. pins[m] \in PinRecord
      BY <1>1, <1>2, ElementOfSeq
    <3> DEFINE r == [pins[m] EXCEPT !.published = now]
    <3>2. /\ r \in PinRecord /\ r.bucket = pins[m].bucket /\ r.shown = pins[m].shown
          /\ r.gone = pins[m].gone
      <4>1. ASSUME NEW q \in PinRecord, NEW t \in Int
            PROVE  LET e == [q EXCEPT !.published = t]
                   IN  e \in PinRecord /\ e.bucket = q.bucket /\ e.shown = q.shown /\ e.gone = q.gone
        BY DEF PinRecord
      <4>2. now \in Int
        BY <1>1
      <4>3. QED
        BY <3>1, <4>1, <4>2
    <3>3. pins' = [pins EXCEPT ![m] = r]
      BY <2>2
    <3> HIDE DEF r
    <3>4. pins' \in Seq(PinRecord) /\ Len(pins') = m
      BY <1>1, <1>2, <3>2, <3>3
    <3>5. \A i \in 1 .. m : pins'[i] = IF i = m THEN r ELSE pins[i]
      BY <1>1, <3>3
    <3>6. QED
      BY <3>2, <3>4, <3>5
  <2>3. QED
    BY <2>1, <2>2 DEF Publish
<1>4. /\ UntilNextBucket(now) \in 1 .. BucketTicks
      /\ Bucket(wakeAt') = Bucket(now) + 1
      /\ Boundary(wakeAt')
  BY <1>1, NextBucket
<1>5. wakeAt' \in Nat /\ now <= wakeAt'
  BY <1>1, <1>4
<1>6. Shape'
  BY <1>1, <1>3, <1>5 DEF Shape
<1>7. pins' # <<>>
  BY <1>2, <1>3, EmptySeq
<1>8. PinsInv'
  <2>1. \A i \in 1 .. m : PinInv(i)'
    BY <1>1, <1>3 DEF IInv, PinsInv, PinInv, Bucket
  <2>2. \A i \in 1 .. m - 1 : GoneInv(i)'
    <3>1. SUFFICES ASSUME NEW i \in 1 .. m - 1 PROVE GoneInv(i)'
      OBVIOUS
    <3>2. i \in 1 .. m /\ i + 1 \in 1 .. m
      BY <1>2
    <3>3. GoneInv(i)
      BY DEF IInv, PinsInv
    <3>4. QED
      BY <1>3, <3>2, <3>3 DEF GoneInv, Boundary, Bucket
  <2>3. pins'[m].gone = NotYet
    BY <1>2, <1>3 DEF IInv, PinsInv
  <2> HIDE DEF m
  <2>4. QED
    BY <1>3, <2>1, <2>2, <2>3 DEF PinsInv
<1>9. RecentInv'
  BY <1>1, <1>3 DEF IInv, RecentInv
<1>10. Rotation(wakeAt)'
  <2>1. /\ pins'[Len(pins')].bucket = pins[m].bucket
    BY <1>2, <1>3
  <2>2. Bucket(wakeAt)' = Bucket(now) + 1 /\ Boundary(wakeAt)'
    BY <1>4 DEF Bucket, Boundary
  <2> HIDE DEF m
  <2>3. pins[m].bucket < Bucket(now) + 1 /\ Bucket(now) + 1 <= pins[m].bucket + 2
    BY <1>2
  <2>4. QED
    BY <2>1, <2>2, <2>3 DEF Rotation
<1>11. PhaseInv'
  BY <1>1, <1>5, <1>7, <1>10 DEF PhaseInv
<1>12. QED
  BY <1>6, <1>8, <1>9, <1>11 DEF IInv

LEMMA WakeIInv ==
    ASSUME IInv, Wake
    PROVE  IInv'
<1>1. /\ phase = "asleep" /\ now = wakeAt /\ phase' = "top"
      /\ now' = now /\ wakeAt' = wakeAt /\ pins' = pins /\ recent' = recent
  BY DEF Wake
<1>2. Shape' /\ PinsInv' /\ RecentInv'
  BY <1>1 DEF IInv, Shape, PinsInv, PinInv, GoneInv, Boundary, Bucket, RecentInv
<1>3. Rotation(now)'
  BY <1>1 DEF IInv, PhaseInv, Rotation, Boundary, Bucket
<1>4. PhaseInv'
  BY <1>1, <1>3 DEF PhaseInv
<1>5. QED
  BY <1>2, <1>4 DEF IInv

LEMMA TickIInv ==
    ASSUME TicksAssumption, IInv, Tick
    PROVE  IInv'
<1>1. /\ now \in Nat /\ wakeAt \in Nat /\ pins \in Seq(PinRecord)
      /\ now' = now + 1 /\ wakeAt' = wakeAt /\ pins' = pins /\ recent' = recent /\ phase' = phase
      /\ \/ phase = "publish" /\ now + 1 - Last(pins).shown < MaxPublish
         \/ phase = "asleep" /\ now < wakeAt
  BY DEF IInv, Shape, Tick
<1>2. \A i \in 1 .. Len(pins) : PinInv(i)'
  <2>1. SUFFICES ASSUME NEW i \in 1 .. Len(pins) PROVE PinInv(i)'
    OBVIOUS
  <2>2. pins[i] \in PinRecord
    BY <1>1, ElementOfSeq
  <2>3. pins[i].shown \in Int
    BY <2>2 DEF PinRecord
  <2>4. PinInv(i)
    BY DEF IInv, PinsInv
  <2>5. pins[i].shown <= now + 1
    BY <1>1, <2>3, <2>4 DEF PinInv
  <2>6. QED
    BY <1>1, <2>4, <2>5 DEF PinInv, Bucket
<1>3. PinsInv'
  BY <1>1, <1>2 DEF IInv, PinsInv, GoneInv, Boundary, Bucket
<1>4. RecentInv' /\ Shape'
  BY <1>1 DEF IInv, RecentInv, Shape
<1>5. Rotation(wakeAt) => Rotation(wakeAt)'
  BY <1>1 DEF Rotation, Boundary, Bucket
<1>6. CASE phase = "publish"
  <2>1. pins # <<>> /\ now' - pins[Len(pins)].shown < MaxPublish
    <3>1. now + 1 - Last(pins).shown < MaxPublish
      BY <1>1, <1>6
    <3>2. Last(pins) = pins[Len(pins)]
      BY DEF Last
    <3>3. pins # <<>>
      BY <1>6 DEF IInv, PhaseInv
    <3>4. now' = now + 1
      BY <1>1
    <3>5. Last(pins).shown \in Int /\ now \in Int /\ MaxPublish \in Int
      <4>1. Len(pins) \in 1 .. Len(pins)
        BY <1>1, <3>3, EmptySeq
      <4>2. pins[Len(pins)] \in PinRecord
        BY <1>1, <4>1, ElementOfSeq
      <4>3. QED
        BY <1>1, <3>2, <4>2 DEF PinRecord, TicksAssumption
    <3>6. now' - Last(pins).shown < MaxPublish
      BY <3>1, <3>4, <3>5
    <3>7. QED
      BY <3>2, <3>3, <3>6
  <2>2. PhaseInv'
    BY <1>1, <1>6, <2>1 DEF PhaseInv
  <2>3. QED
    BY <1>3, <1>4, <2>2 DEF IInv
<1>7. CASE phase = "asleep"
  <2>1. now < wakeAt
    BY <1>1, <1>7
  <2>2. now' <= wakeAt'
    BY <1>1, <2>1
  <2>3. pins # <<>> /\ Rotation(wakeAt)
    BY <1>7 DEF IInv, PhaseInv
  <2>4. PhaseInv'
    BY <1>1, <1>5, <1>7, <2>2, <2>3 DEF PhaseInv
  <2>5. QED
    BY <1>3, <1>4, <2>4 DEF IInv
<1>8. QED
  BY <1>1, <1>6, <1>7

LEMMA NextIInv ==
    ASSUME TicksAssumption, CacheAssumption, IInv, [Next]_vars
    PROVE  IInv'
<1>1. CASE Mint
  BY <1>1, MintIInv
<1>2. CASE Publish
  BY <1>2, PublishIInv
<1>3. CASE Wake
  BY <1>3, WakeIInv
<1>4. CASE Tick
  BY <1>4, TickIInv
<1>5. CASE UNCHANGED vars
  BY <1>5 DEF vars, IInv, Shape, PinsInv, PinInv, GoneInv, RecentInv, PhaseInv, Rotation,
              Boundary, Bucket
<1>6. QED
  BY <1>1, <1>2, <1>3, <1>4, <1>5 DEF Next

------------------------------------------------------------------------------
(* Results. *)

\* Between rotations the clock is at most one bucket past the newest PIN's.
LEMMA NewestIsFresh ==
    ASSUME TicksAssumption, IInv, ~Rotating
    PROVE  /\ pins # <<>> /\ Bucket(now) \in Int
           /\ pins[Len(pins)].bucket <= Bucket(now)
           /\ Bucket(now) <= pins[Len(pins)].bucket + 1
<1> DEFINE p == pins[Len(pins)]
<1>1. phase = "publish" \/ (phase = "asleep" /\ now # wakeAt)
  BY DEF IInv, Shape, Rotating
<1>2. CASE phase = "publish"
  BY <1>2, PublishIsShort
<1>3. CASE phase = "asleep" /\ now # wakeAt
  <2>1. /\ pins # <<>> /\ pins \in Seq(PinRecord) /\ now \in Nat /\ wakeAt \in Nat
        /\ now <= wakeAt /\ Rotation(wakeAt)
    BY <1>3 DEF IInv, Shape, PhaseInv
  <2>2. Len(pins) \in 1 .. Len(pins)
    BY <2>1, EmptySeq
  <2>3. p \in PinRecord
    BY <2>1, <2>2, ElementOfSeq
  <2>4. p.bucket \in Int /\ p.shown \in Int
    BY <2>3 DEF PinRecord
  <2>5. p.bucket = Bucket(p.shown) /\ p.shown <= now
    BY <2>2 DEF IInv, PinsInv, PinInv
  <2>6. /\ Bucket(wakeAt - 1) = Bucket(wakeAt) - 1
        /\ Bucket(wakeAt) <= p.bucket + 2
    BY <2>1 DEF Rotation, Boundary
  <2> HIDE DEF p
  <2>7. now \in Int /\ wakeAt \in Int /\ wakeAt - 1 \in Int /\ now <= wakeAt - 1
    BY <1>3, <2>1
  <2>8. Bucket(now) \in Int /\ Bucket(wakeAt) \in Int
    BY <2>7, BucketBounds
  <2>9. Bucket(now) <= Bucket(wakeAt - 1) /\ Bucket(p.shown) <= Bucket(now)
    BY <2>4, <2>5, <2>7, BucketGrows
  <2>10. QED
    BY <2>1, <2>4, <2>5, <2>6, <2>8, <2>9 DEF p
<1>4. QED
  BY <1>1, <1>2, <1>3

\* The tick at which a PIN was last read from the screen.
LastRead(i) == IF pins[i].gone = NotYet THEN now ELSE pins[i].gone - 1

\* A PIN leaves the screen in its own bucket or in the one that follows.
LEMMA LastReadBucket ==
    ASSUME TicksAssumption, IInv, ~Rotating, NEW i \in 1 .. Len(pins)
    PROVE  /\ LastRead(i) \in Int /\ LastRead(i) <= now
           /\ pins[i].bucket \in Int /\ Bucket(LastRead(i)) \in Int
           /\ pins[i].bucket <= Bucket(LastRead(i))
           /\ Bucket(LastRead(i)) <= pins[i].bucket + 1
           /\ i < Len(pins) => Bucket(LastRead(i)) = pins[i + 1].bucket - 1
<1>1. pins \in Seq(PinRecord) /\ Len(pins) \in Nat /\ now \in Nat /\ now \in Int
  BY DEF IInv, Shape
<1>2. pins[i] \in PinRecord
  BY <1>1, ElementOfSeq
<1>3. pins[i].bucket \in Int
  BY <1>2 DEF PinRecord
<1>4. CASE i = Len(pins)
  <2>1. pins[i].gone = NotYet
    BY <1>1, <1>4, EmptySeq DEF IInv, PinsInv
  <2>2. LastRead(i) = now
    BY <2>1 DEF LastRead
  <2>3. ~(i < Len(pins))
    BY <1>1, <1>4
  <2>4. QED
    BY <1>1, <1>3, <1>4, <2>2, <2>3, NewestIsFresh
<1>5. CASE i # Len(pins)
  <2>1. i \in 1 .. Len(pins) - 1 /\ i + 1 \in 1 .. Len(pins)
    BY <1>1, <1>5
  <2>2. GoneInv(i) /\ PinInv(i + 1)
    BY <2>1 DEF IInv, PinsInv
  <2>3. pins[i + 1] \in PinRecord
    BY <1>1, <2>1, ElementOfSeq
  <2> DEFINE s == pins[i + 1].shown
  <2>4. s \in Int /\ 0 <= s /\ s <= now /\ pins[i].gone = s /\ pins[i + 1].bucket = Bucket(s)
    BY <2>2, <2>3 DEF PinRecord, GoneInv, PinInv
  <2>5. Bucket(s) \in Int
    BY <2>4, BucketBounds
  <2>6. Bucket(s - 1) = Bucket(s) - 1 /\ pins[i].bucket < Bucket(s) /\ Bucket(s) <= pins[i].bucket + 2
    BY <2>2, <2>4 DEF GoneInv, Boundary
  <2> HIDE DEF s
  <2>7. LastRead(i) = s - 1
    BY <2>4 DEF LastRead, NotYet
  <2>8. QED
    BY <1>1, <1>3, <2>4, <2>5, <2>6, <2>7
<1>6. QED
  BY <1>4, <1>5

\* The dialer's clock is never more than a bucket from the PIN's.
LEMMA IsFound ==
    ASSUME TicksAssumption, IInv, ~Rotating, NEW i \in 1 .. Len(pins),
           NEW skew \in -BucketTicks .. BucketTicks,
           pins[i].published # NotYet,
           now - LastRead(i) + skew
               <= (IF Bucket(LastRead(i)) # pins[i].bucket THEN 0 ELSE BucketTicks)
    PROVE  Found(pins[i], now + skew)
<1> DEFINE r == LastRead(i)
           b == pins[i].bucket
           c == now + skew
<1>1. BucketTicks \in Int /\ now \in Int /\ skew \in Int /\ -BucketTicks <= skew
  BY BucketTypes DEF IInv, Shape
<1>2. /\ r \in Int /\ r <= now /\ b \in Int /\ Bucket(r) \in Int
      /\ b <= Bucket(r) /\ Bucket(r) <= b + 1
  BY LastReadBucket
<1>3. now - r + skew <= (IF Bucket(r) # b THEN 0 ELSE BucketTicks)
  OBVIOUS
<1> HIDE DEF r, b
<1>4. c \in Int /\ r - BucketTicks \in Int /\ r - BucketTicks <= c
  BY <1>1, <1>2
<1>5. Bucket(c) \in Int
  BY <1>4, BucketBounds
<1>6. Bucket(r - BucketTicks) <= Bucket(c)
  BY <1>4, BucketGrows
<1>7. b - 1 <= Bucket(c)
  BY <1>2, <1>5, <1>6, BucketShift
<1>8. Bucket(c) <= b + 1
  <2>1. CASE Bucket(r) # b
    <3>1. c <= r
      BY <1>1, <1>2, <1>3, <2>1
    <3>2. Bucket(c) <= Bucket(r)
      BY <1>2, <1>4, <3>1, BucketGrows
    <3>3. QED
      BY <1>2, <1>5, <3>2
  <2>2. CASE Bucket(r) = b
    <3>1. r + BucketTicks \in Int /\ c <= r + BucketTicks
      BY <1>1, <1>2, <1>3, <2>2
    <3>2. Bucket(c) <= Bucket(r + BucketTicks)
      BY <1>4, <3>1, BucketGrows
    <3>3. Bucket(r + BucketTicks) = Bucket(r) + 1
      BY <1>2, BucketShift
    <3>4. QED
      BY <1>2, <1>5, <2>2, <3>2, <3>3
  <2>3. QED
    BY <2>1, <2>2
<1> HIDE DEF c
<1>9. b = Bucket(c) \/ b = Bucket(c) - 1 \/ b = Bucket(c) + 1
  BY <1>2, <1>5, <1>7, <1>8
<1>10. b \in Searched(c)
  BY <1>9 DEF Searched
<1>11. QED
  BY <1>10 DEF Found, b, c

\* Three rotations take more than the two buckets that a slow clock allows.
LEMMA IsCached ==
    ASSUME TicksAssumption, CacheAssumption, PinCache >= 3, IInv, ~Rotating,
           NEW i \in 1 .. Len(pins), NEW skew \in -BucketTicks .. BucketTicks,
           now - LastRead(i) + skew <= BucketTicks
    PROVE  AcceptedPin(i)
<1> DEFINE m == Len(pins)
           r == LastRead(i)
<1>1. /\ BucketTicks \in Int /\ now \in Int /\ skew \in Int /\ -BucketTicks <= skew
      /\ m \in Nat /\ PinCache \in Nat /\ pins \in Seq(PinRecord) /\ i \in Int
      /\ recent \in Seq(Nat)
  BY BucketTypes DEF IInv, Shape, CacheAssumption
<1>2. /\ r \in Int /\ Bucket(r) \in Int
      /\ i < m => Bucket(r) = pins[i + 1].bucket - 1
  BY LastReadBucket
<1> HIDE DEF r
<1>3. now <= r + BucketTicks + BucketTicks
  BY <1>1, <1>2 DEF r
<1>4. Bucket(now) <= Bucket(r) + 2
  <2>1. r + BucketTicks \in Int /\ r + BucketTicks + BucketTicks \in Int
    BY <1>1, <1>2
  <2>2. Bucket(now) <= Bucket(r + BucketTicks + BucketTicks)
    BY <1>1, <1>3, <2>1, BucketGrows
  <2>3. Bucket(r + BucketTicks + BucketTicks) = Bucket(r + BucketTicks) + 1
    BY <2>1, BucketShift
  <2>4. Bucket(r + BucketTicks) = Bucket(r) + 1
    BY <1>2, BucketShift
  <2>5. Bucket(now) \in Int
    BY <1>1, BucketBounds
  <2>6. QED
    BY <1>2, <2>2, <2>3, <2>4, <2>5
<1>5. ~(i + 3 <= m)
  <2>1. SUFFICES ASSUME i + 3 <= m PROVE FALSE
    OBVIOUS
  <2>2. /\ i + 1 \in 1 .. m - 1 /\ i + 2 \in 1 .. m - 1
        /\ i + 1 \in 1 .. m /\ i + 2 \in 1 .. m /\ i + 3 \in 1 .. m
        /\ i + 1 + 1 = i + 2 /\ i + 2 + 1 = i + 3 /\ i < m
    BY <1>1, <2>1
  <2>3. GoneInv(i + 1) /\ GoneInv(i + 2) /\ PinInv(i + 3)
    BY <2>2 DEF IInv, PinsInv
  <2>4. /\ pins[i + 1] \in PinRecord /\ pins[i + 2] \in PinRecord /\ pins[i + 3] \in PinRecord
    BY <1>1, <2>2, ElementOfSeq
  <2>5. /\ pins[i + 1].bucket \in Int /\ pins[i + 2].bucket \in Int /\ pins[i + 3].bucket \in Int
        /\ pins[i + 3].shown \in Int
    BY <2>4 DEF PinRecord
  <2>6. /\ pins[i + 1].bucket < pins[i + 2].bucket
        /\ pins[i + 2].bucket < pins[i + 3].bucket
    BY <2>2, <2>3 DEF GoneInv
  <2>7. pins[i + 3].bucket = Bucket(pins[i + 3].shown) /\ pins[i + 3].shown <= now
    BY <2>3 DEF PinInv
  <2>8. Bucket(pins[i + 3].shown) <= Bucket(now) /\ Bucket(now) \in Int
    BY <1>1, <2>5, <2>7, BucketGrows, BucketBounds
  <2>9. Bucket(r) = pins[i + 1].bucket - 1
    BY <1>2, <2>2
  <2>10. pins[i + 3].bucket <= Bucket(now)
    BY <2>7, <2>8
  <2> DEFINE x == pins[i + 1].bucket
             y == pins[i + 2].bucket
             z == pins[i + 3].bucket
             now_ == Bucket(now)
  <2>11. /\ x \in Int /\ y \in Int /\ z \in Int /\ now_ \in Int
         /\ x < y /\ y < z /\ z <= now_ /\ now_ <= x - 1 + 2
    BY <1>4, <2>5, <2>6, <2>8, <2>9, <2>10
  <2> HIDE DEF x, y, z, now_
  <2>12. QED
    BY <2>11
<1>6. /\ Len(recent) = IF m < PinCache THEN m ELSE PinCache
      /\ \A k \in 1 .. Len(recent) : recent[k] = m + 1 - k
  BY DEF IInv, RecentInv
<1> HIDE DEF m
<1>7. m + 1 - i \in 1 .. Len(recent)
  <2>1. i \in 1 .. m
    BY DEF m
  <2>2. QED
    BY <1>1, <1>5, <1>6, <2>1
<1>8. recent[m + 1 - i] = i
  <2>1. recent[m + 1 - i] = m + 1 - (m + 1 - i)
    BY <1>6, <1>7
  <2>2. QED
    BY <1>1, <2>1
<1>9. m + 1 - i \in DOMAIN recent
  BY <1>1, <1>7
<1>10. QED
  BY <1>8, <1>9 DEF AcceptedPin, Range

LEMMA ReachImplied ==
    ASSUME TicksAssumption, CacheAssumption, PinCache >= 3, IInv
    PROVE  PinReachesTheListener
<1>1. SUFFICES ASSUME ~Rotating, NEW i \in DOMAIN pins, NEW skew \in -BucketTicks .. BucketTicks,
                      pins[i].published # NotYet,
                      now - LastRead(i) + skew
                          <= (IF Bucket(LastRead(i)) # pins[i].bucket THEN 0 ELSE BucketTicks)
               PROVE  Found(pins[i], now + skew) /\ AcceptedPin(i)
  BY DEF PinReachesTheListener, LastRead
<1>2. i \in 1 .. Len(pins)
  BY DEF IInv, Shape
<1>3. Found(pins[i], now + skew)
  BY <1>1, <1>2, IsFound
<1>4. now - LastRead(i) + skew <= BucketTicks
  <2>1. LastRead(i) \in Int
    BY <1>1, <1>2, LastReadBucket
  <2>2. now \in Int /\ skew \in Int /\ BucketTicks \in Int /\ BucketTicks > 0
    BY BucketTypes DEF IInv, Shape
  <2> DEFINE limit == IF Bucket(LastRead(i)) # pins[i].bucket THEN 0 ELSE BucketTicks
  <2>3. limit \in Int /\ limit <= BucketTicks
    BY <2>2
  <2>4. now - LastRead(i) + skew <= limit
    BY <1>1
  <2> HIDE DEF limit
  <2>5. QED
    BY <2>1, <2>2, <2>3, <2>4
<1>5. AcceptedPin(i)
  BY <1>1, <1>2, <1>4, IsCached
<1>6. QED
  BY <1>3, <1>5

\* The inductive invariant of the rotation.
THEOREM IInvHolds ==
    ASSUME TicksAssumption, CacheAssumption
    PROVE  Spec => []IInv
<1>1. Init => IInv
  BY InitIInv
<1>2. IInv /\ [Next]_vars => IInv'
  BY NextIInv
<1>3. QED
  BY <1>1, <1>2, PTL DEF Spec

\* A PIN read from the screen after its publish is found by a dialer whose clock is
\* off by at most a bucket and accepted by the listener that showed it
\* (lookup_pin_record, RecentPins), given room for three PINs in the cache: the
\* code's RECENT_PIN_CACHE.  Two would not do.
THEOREM PinReaches ==
    ASSUME TicksAssumption, CacheAssumption, PinCache >= 3
    PROVE  Spec => []PinReachesTheListener
<1>1. IInv => PinReachesTheListener
  BY ReachImplied
<1>2. Spec => []IInv
  BY IInvHolds
<1>3. QED
  BY <1>1, <1>2, PTL
==============================================================================
