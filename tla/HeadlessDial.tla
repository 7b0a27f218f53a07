---------------------------- MODULE HeadlessDial ----------------------------
(***************************************************************************)
(* The dial loop of a headless run (run_dial) against one listener, with   *)
(* the dialer's half of the token handshake (auth_as_dialer).              *)
(*                                                                         *)
(* A headless run is given the node id of its peer: it never looks a name  *)
(* up, and its own id, drawn when the loop starts, is never the one it was *)
(* given.  Whether the peer answers, takes the claim, stalls or goes away  *)
(* is the environment's choice at every step.                              *)
(***************************************************************************)
EXTENDS Naturals

CONSTANTS
    MaxInitialAttempts,  \* MAX_INITIAL_CONNECT_ATTEMPTS
    MaxBackoff           \* MAX_RECONNECT_BACKOFF, in seconds

AttemptsAssumption == MaxInitialAttempts \in Nat \ {0}
BackoffAssumption == MaxBackoff \in Nat \ {0}

VARIABLES
    pc,           \* where run_dial is
    goodToken,    \* the listener accepts the token of this run
    claimed,      \* the listener's claim: nobody's, this dialer's or another's
    established,  \* `established`
    attempts,     \* `attempts`
    backoff,      \* `backoff`
    quit,         \* the shutdown token is cancelled
    outcome,      \* how the loop ended
    tries,        \* history: attempts made until the first session was served
    waits         \* history: back-offs since the last served session

counters == <<established, attempts, backoff>>
history == <<tries, waits>>
vars == <<pc, goodToken, claimed, counters, quit, outcome, history>>

------------------------------------------------------------------------------
Lesser(a, b) == IF a < b THEN a ELSE b

End(how) == pc' = "over" /\ outcome' = how

\* An attempt begins; the history counts the ones before the first session.
Attempt ==
    /\ pc = "resolve"
    /\ pc' = "connect"
    /\ tries' = IF established THEN tries ELSE tries + 1
    /\ UNCHANGED <<goodToken, claimed, counters, quit, outcome, waits>>

\* connect_to_server: a connection, a failure, or the shutdown.
Connect ==
    /\ pc = "connect"
    /\ \/ pc' \in {"auth", "count"} /\ UNCHANGED outcome
       \/ quit /\ End("shutdown")
    /\ UNCHANGED <<goodToken, claimed, counters, quit, history>>

\* The listener decides on the token and, behind it, on the claim.
Admits == goodToken /\ claimed # "other"

\* auth_as_dialer: the acceptance arrives.
AuthAccepted ==
    /\ pc = "auth"
    /\ Admits
    /\ claimed' = "own"
    /\ pc' = "serve"
    /\ UNCHANGED <<goodToken, counters, quit, outcome, history>>

\* The rejection arrives: the loop ends.
AuthRejected ==
    /\ pc = "auth"
    /\ ~Admits
    /\ End("auth")
    /\ UNCHANGED <<goodToken, claimed, counters, quit, history>>

\* No answer within AUTH_TIMEOUT is an error of the same category.
AuthTimesOut ==
    /\ pc = "auth"
    /\ End("auth")
    /\ UNCHANGED <<goodToken, claimed, counters, quit, history>>

\* The connection breaks, also when the close behind a rejection overtakes it: an
\* error of no category.  An acceptance may be lost so too, after its commit.
AuthBreaks ==
    /\ pc = "auth"
    /\ pc' = "count"
    /\ claimed' \in {claimed} \cup (IF Admits THEN {"own"} ELSE {})
    /\ UNCHANGED <<goodToken, counters, quit, outcome, history>>

\* The served session ends only with the connection.
ServeEndsDeaf ==
    /\ pc = "serve"
    /\ pc' = "count"
    /\ ~quit
    /\ established' = TRUE /\ attempts' = 0 /\ backoff' = 1
    /\ waits' = 0
    /\ UNCHANGED <<goodToken, claimed, quit, outcome, tries>>

\* A served session does not reset the back-off.
ServeEndsBug ==
    /\ pc = "serve"
    /\ pc' = "count"
    /\ established' = TRUE /\ attempts' = 0
    /\ waits' = 0
    /\ UNCHANGED <<goodToken, claimed, backoff, quit, outcome, tries>>

\* handle_connection returns Ok whatever ended the session: the connection, which
\* may break at any time, or the shutdown.  The counters start over.
ServeEnds ==
    /\ pc = "serve"
    /\ pc' = "count"
    /\ established' = TRUE /\ attempts' = 0 /\ backoff' = 1
    /\ waits' = 0
    /\ UNCHANGED <<goodToken, claimed, quit, outcome, tries>>

\* The cap counts the attempts after the first session as well.
CountBug ==
    /\ pc = "count"
    /\ attempts' = attempts + 1
    /\ IF attempts + 1 >= MaxInitialAttempts
       THEN End("connection") /\ UNCHANGED waits
       ELSE pc' = "sleep" /\ waits' = waits + 1 /\ UNCHANGED outcome
    /\ UNCHANGED <<goodToken, claimed, established, backoff, quit, tries>>

\* Until a session was served the attempts are counted and capped.
Count ==
    /\ pc = "count"
    /\ attempts' = IF established THEN attempts ELSE attempts + 1
    /\ IF ~established /\ attempts + 1 >= MaxInitialAttempts
       THEN End("connection") /\ UNCHANGED waits
       ELSE pc' = "sleep" /\ waits' = Lesser(waits + 1, MaxBackoff) /\ UNCHANGED outcome
    /\ UNCHANGED <<goodToken, claimed, established, backoff, quit, tries>>

\* The wait is over, or the shutdown ends it.
Sleep ==
    /\ pc = "sleep"
    /\ \/ pc' = "resolve" /\ backoff' = Lesser(backoff * 2, MaxBackoff) /\ UNCHANGED outcome
       \/ quit /\ End("shutdown") /\ UNCHANGED backoff
    /\ UNCHANGED <<goodToken, claimed, established, attempts, quit, history>>

\* Ctrl-C
Quit ==
    /\ ~quit /\ pc # "over"
    /\ quit' = TRUE
    /\ UNCHANGED <<pc, goodToken, claimed, counters, outcome, history>>

------------------------------------------------------------------------------
Init ==
    /\ pc = "resolve"
    /\ goodToken \in BOOLEAN
    /\ claimed \in {"none", "other"}
    /\ established = FALSE /\ attempts = 0 /\ backoff = 1
    /\ quit = FALSE
    /\ outcome = "none"
    /\ tries = 0 /\ waits = 0

Loop ==
    \/ Attempt \/ Connect
    \/ AuthAccepted \/ AuthRejected \/ AuthTimesOut \/ AuthBreaks
    \/ ServeEnds \/ Count \/ Sleep

Next == Loop \/ Quit

Spec == Init /\ [][Next]_vars

\* A select whose shutdown branch is ready takes it in the end: each turn of the
\* loop polls it anew and the order is random.
ShutdownTaken == quit /\ (Connect \/ Sleep) /\ pc' = "over"

\* Each await of the loop is bounded or watches the shutdown.  A served session
\* need not end by itself, so its end is fair only once the run shuts down.
Fairness ==
    /\ WF_vars(Loop /\ pc # "serve")
    /\ WF_vars(quit /\ ServeEnds)
    /\ SF_vars(ShutdownTaken)

FairSpec == Spec /\ Fairness

------------------------------------------------------------------------------
(* Properties. *)

\* The loop gives up on an unreachable peer after exactly MaxInitialAttempts
\* attempts, and never once a session was served, however long the outage.
GivesUpOnTime ==
    outcome = "connection" => ~established /\ tries = MaxInitialAttempts

\* The n-th wait in a row lasts 2^(n-1) seconds, up to the cap, and the first
\* wait after a served session one second again.
BackoffFollowsFailures == pc = "sleep" => backoff = Lesser(2 ^ (waits - 1), MaxBackoff)

\* Ctrl-C ends the loop wherever it is, also in the middle of a session.
ShutdownEndsTheDial == quit ~> pc = "over"
==============================================================================
