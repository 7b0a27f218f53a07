---------------------------- MODULE PinRendezvous ----------------------------
(***************************************************************************)
(* The rotating PIN on its way from the listener's screen to the dialer    *)
(* and back: run_pin_publisher mints one per bucket of time, caches its    *)
(* key and publishes a record under (PIN, bucket); the dialer types the    *)
(* PIN, looks under the buckets around its own clock (lookup_pin_record)   *)
(* and then proves to the listener that it holds the PIN.                  *)
(*                                                                         *)
(* Time is counted in ticks of the listener's clock.  Key derivations are  *)
(* identities on (PIN, bucket): a record is found under exactly these.     *)
(***************************************************************************)
EXTENDS Integers, SequencesExt

CONSTANTS
    BucketTicks,  \* BUCKET_SECS, in ticks
    PinCache,     \* RECENT_PIN_CACHE
    MaxPublish,   \* a publish takes fewer ticks than this
    MaxTime       \* bound: ticks

TicksAssumption == BucketTicks \in Nat \ {0} /\ MaxPublish \in 1 .. BucketTicks
CacheAssumption == PinCache \in Nat \ {0}

VARIABLES
    now,     \* the listener's clock
    pins,    \* every PIN minted, the newest last
    recent,  \* RecentPins, newest first
    phase,   \* of the publisher: "top", "publish" or "asleep"
    wakeAt   \* the tick at which it wakes

vars == <<now, pins, recent, phase, wakeAt>>

Bucket(time) == time \div BucketTicks
UntilNextBucket(time) == BucketTicks - (time % BucketTicks)

\* A PIN: the bucket it is published under, the ticks at which it came onto the
\* screen, was published and left the screen (NotYet while it has not).
NotYet == -1
Pin(time) == [bucket |-> Bucket(time), shown |-> time, published |-> NotYet, gone |-> NotYet]

First(n, seq) == SubSeq(seq, 1, IF n < Len(seq) THEN n ELSE Len(seq))

\* The trim keeps one PIN too few.
PushBug(pin) == recent' = First(PinCache - 1, <<pin>> \o recent)

\* RecentPins::push
Push(pin) == recent' = First(PinCache, <<pin>> \o recent)

------------------------------------------------------------------------------
Init ==
    /\ now \in BucketTicks .. 2 * BucketTicks - 1
    /\ pins = <<>>
    /\ recent = <<>>
    /\ phase = "top"
    /\ wakeAt = now

\* The new PIN replaces the old one on the screen, and its key is cached.
Mint ==
    /\ phase = "top"
    /\ pins' = Append([i \in DOMAIN pins |->
                  IF pins[i].gone = NotYet THEN [pins[i] EXCEPT !.gone = now] ELSE pins[i]],
                Pin(now))
    /\ Push(Len(pins) + 1)
    /\ phase' = "publish"
    /\ UNCHANGED <<now, wakeAt>>

\* A publish that fails is only logged: the PIN is shown but never found.  Either
\* way the publisher sleeps to the boundary that follows.
Publish ==
    /\ phase = "publish"
    /\ \/ pins' = [pins EXCEPT ![Len(pins)].published = now]
       \/ UNCHANGED pins
    /\ phase' = "asleep"
    /\ wakeAt' = now + UntilNextBucket(now)
    /\ UNCHANGED <<now, recent>>

Wake ==
    /\ phase = "asleep" /\ now = wakeAt
    /\ phase' = "top"
    /\ UNCHANGED <<now, pins, recent, wakeAt>>

\* Time passes while the publisher sleeps or publishes.
Tick ==
    /\ now < MaxTime
    /\ \/ phase = "publish" /\ now + 1 - Last(pins).shown < MaxPublish
       \/ phase = "asleep" /\ now < wakeAt
    /\ now' = now + 1
    /\ UNCHANGED <<pins, recent, phase, wakeAt>>

Next == Mint \/ Publish \/ Wake \/ Tick

Spec == Init /\ [][Next]_vars

------------------------------------------------------------------------------
(* The dialer. *)

\* The buckets lookup_pin_record searches.
Searched(clock) == {Bucket(clock), Bucket(clock) - 1, Bucket(clock) + 1}

\* lookup_pin_record finds the record of a PIN that was published.
Found(pin, clock) == pin.published # NotYet /\ pin.bucket \in Searched(clock)

\* The listener accepts a proof made with any PIN of its cache.
AcceptedPin(i) == i \in Range(recent)

\* The instant at a boundary in which the old PIN gives way to the new one.
Rotating == phase = "top" \/ (phase = "asleep" /\ now = wakeAt)

\* A PIN reaches its listener.  A user who read it from the screen after it was
\* published, and a dialer whose clock is off by at most a bucket, find the
\* record and pass the handshake as long as lateness and a fast clock together do
\* not exceed a bucket.  A PIN whose publish crossed the boundary stays on the
\* screen for the next bucket: there only a clock that is not ahead is covered.
PinReachesTheListener ==
    ~Rotating => \A i \in DOMAIN pins, skew \in -BucketTicks .. BucketTicks :
        LET pin == pins[i]
            lastRead == IF pin.gone = NotYet THEN now ELSE pin.gone - 1
            late == now - lastRead
            crossed == Bucket(lastRead) # pin.bucket
        IN  /\ pin.published # NotYet
            /\ late + skew <= (IF crossed THEN 0 ELSE BucketTicks)
            => Found(pin, now + skew) /\ AcceptedPin(i)
==============================================================================
