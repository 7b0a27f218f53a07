----------------------------- MODULE StartUpProofs -----------------------------
(***************************************************************************)
(* What StartUp guarantees for any number of processes, names and tokens:  *)
(* no two processes publish under one state file, and a run shows, keeps   *)
(* and gives away no more than it may.                                     *)
(*                                                                         *)
(* The lock is taken on the fingerprint that the config declares, and the  *)
(* publisher's file comes from the token: the inductive invariant says     *)
(* that from the lock to the exit the two are the same file.               *)
(***************************************************************************)
EXTENDS StartUp, TLAPS

Stages == {"off", "setup", "running", "headless"}
Buttons == {"Start", "PinStart", "ManualStart", "Exit"}
Wizard == [phase : {"Start", "TokenSetup"}, focus : Buttons,
           typed : Tokens \cup {"unset", "bad"}, error : BOOLEAN]

\* The types of what the proofs look into.
Shape ==
    /\ stage \in [Procs -> Stages]
    /\ launch = [p \in Procs |-> launch[p]]
    /\ wizard \in [Procs -> Wizard]
    /\ peer = [p \in Procs |-> peer[p]]
    /\ lock = [p \in Procs |-> lock[p]]
    /\ revealed = [p \in Procs |-> revealed[p]]

\* A run with a name holds the lock on the file of its config.
Owns(p) ==
    /\ lock[p] = StateFile(launch[p].config.name, LowerCase(launch[p].config.expected))
    /\ lock[p] # NoLock

\* The buttons of the two kinds of start, and the screen that only one of them has.
SetupInv(p) ==
    stage[p] = "setup" =>
        /\ launch[p].discovery \in BOOLEAN
        /\ wizard[p].focus \in IF launch[p].discovery THEN {"Start", "Exit"}
                                                      ELSE {"PinStart", "ManualStart", "Exit"}
        /\ wizard[p].phase = "TokenSetup" => launch[p].discovery /\ launch[p].token = "unset"
        /\ launch[p].discovery =>
               /\ Owns(p)
               /\ launch[p].token # "unset" =>
                      FingerprintMatches(launch[p].token, launch[p].config.expected)

\* The token that the publisher uses is the one that the lock was taken for.
RunningInv(p) ==
    /\ stage[p] = "running" /\ launch[p].discovery =>
           Owns(p) /\ FingerprintMatches(peer[p].token, launch[p].config.expected)
    /\ stage[p] = "headless" => ~launch[p].discovery

\* Tokens get on a screen in a setup with a token field or when the run starts with
\* one of its own, neither of which a run has that was given a token, or a PIN's.
SecretInv(p) ==
    /\ stage[p] = "off" \/ launch[p].token # "unset" => revealed[p] = {}
    /\ stage[p] = "setup" /\ ~launch[p].discovery => revealed[p] = {}
    /\ peer[p].pin => stage[p] = "running" /\ peer[p].token = "unset" /\ revealed[p] = {}
    /\ stage[p] # "off" => ValidRelayOnly(launch[p].config)

ProcInv(p) == SetupInv(p) /\ RunningInv(p) /\ SecretInv(p)

\* A lock has one holder.
LockInv == \A p, q \in Procs : p # q /\ lock[p] = lock[q] => lock[p] = NoLock

IInv == Shape /\ LockInv /\ \A p \in Procs : ProcInv(p)

------------------------------------------------------------------------------
(* Configs. *)

Fields == {"loads", "receive", "send", "acks", "name", "dns", "relays", "nostrRelays",
           "relayOnly", "maxStreams", "tokenFile", "expected"}

Configs == Identities \cup Variants \cup HeadlessConfigs

\* Every config has all of the fields.
LEMMA ConfigFields == \A c \in Configs : DOMAIN c = Fields
<1>1. DOMAIN Plain = Fields
  BY DEF Plain, Fields
<1> HIDE DEF Plain
<1>2. \A c \in Identities : DOMAIN c = Fields
  <2>1. ASSUME NEW name, NEW expected, NEW file PROVE DOMAIN Identity(name, expected, file) = Fields
    BY <1>1 DEF Identity
  <2>2. QED
    BY <2>1, SMT DEF Identities
<1>3. \A c \in Variants : DOMAIN c = Fields
  <2>1. ASSUME NEW v
        PROVE  /\ DOMAIN [Plain EXCEPT !.loads = v] = Fields
               /\ DOMAIN [Plain EXCEPT !.name = v] = Fields
               /\ DOMAIN [Plain EXCEPT !.expected = v] = Fields
               /\ DOMAIN [Plain EXCEPT !.receive = v] = Fields
               /\ DOMAIN [Plain EXCEPT !.send = v] = Fields
               /\ DOMAIN [Plain EXCEPT !.acks = v] = Fields
               /\ DOMAIN [Plain EXCEPT !.dns = v] = Fields
               /\ DOMAIN [Plain EXCEPT !.nostrRelays = v] = Fields
               /\ DOMAIN [Plain EXCEPT !.maxStreams = v] = Fields
    BY <1>1
  <2>2. ASSUME NEW r, NEW b
        PROVE  DOMAIN Relayed(r, b) = Fields
    BY <1>1 DEF Relayed
  <2>3. QED
    BY <2>1, <2>2, SMT DEF Variants
<1>4. DOMAIN DefaultConfig = Fields
  BY <1>1 DEF DefaultConfig
<1>5. QED
  BY <1>1, <1>2, <1>3, <1>4 DEF Configs, HeadlessConfigs

\* A quick run has the options of no config.
LEMMA DefaultIsValid == DefaultConfig \in Configs /\ ValidRelayOnly(DefaultConfig)
<1>1. DefaultConfig \in Configs
  BY DEF Configs, HeadlessConfigs
<1>2. ValidRelayOnly(DefaultConfig)
  BY DEF ValidRelayOnly, DefaultConfig, Plain
<1>3. QED
  BY <1>1, <1>2

------------------------------------------------------------------------------
(* Steps. *)

\* Only one process moves.
Others(p) ==
    \A q \in Procs \ {p} :
        /\ stage'[q] = stage[q] /\ launch'[q] = launch[q] /\ wizard'[q] = wizard[q]
        /\ peer'[q] = peer[q] /\ lock'[q] = lock[q] /\ revealed'[q] = revealed[q]

\* A process takes no lock that another one holds.
LEMMA OneProcess ==
    ASSUME IInv, NEW p \in Procs, Shape', ProcInv(p)', Others(p),
           lock'[p] = lock[p] \/ lock'[p] = NoLock \/ Free(lock'[p])
    PROVE  IInv'
<1>1. ASSUME NEW q \in Procs \ {p} PROVE ProcInv(q)'
  <2>1. ProcInv(q)
    BY DEF IInv
  <2>2. /\ stage'[q] = stage[q] /\ launch'[q] = launch[q] /\ wizard'[q] = wizard[q]
        /\ peer'[q] = peer[q] /\ lock'[q] = lock[q] /\ revealed'[q] = revealed[q]
    BY DEF Others
  <2>3. Owns(q)' <=> Owns(q)
    BY <2>2 DEF Owns
  <2>4. QED
    BY <2>1, <2>2, <2>3 DEF ProcInv, SetupInv, RunningInv, SecretInv
<1>2. LockInv'
  BY DEF IInv, LockInv, Others, Free
<1>3. QED
  BY <1>1, <1>2 DEF IInv

\* A process that ends keeps nothing.
LEMMA ExitIInv ==
    ASSUME IInv, NEW p \in Procs, NEW n, Exit(p, n)
    PROVE  IInv'
<1>1. Shape /\ ProcInv(p)
  BY DEF IInv
<1>2. Closed \in Wizard
  BY DEF Closed, Wizard, Buttons
<1>3. Shape'
  BY <1>1, <1>2 DEF Exit, Shape, Stages, Reveal
<1>4. /\ stage'[p] = "off" /\ peer'[p] = Unresolved /\ lock'[p] = NoLock
      /\ revealed'[p] = {}
  BY <1>1 DEF Exit, Shape, Reveal
<1>5. ProcInv(p)'
  <2>1. ~Unresolved.pin
    BY DEF Unresolved
  <2>2. QED
    BY <1>1, <1>4, <2>1 DEF ProcInv, SetupInv, RunningInv, SecretInv
<1>6. Others(p)
  BY <1>1 DEF Exit, Shape, Others, Reveal
<1>7. QED
  BY <1>3, <1>4, <1>5, <1>6, OneProcess

\* A process that reports and ends, or that has not begun.
LEMMA RefuseIInv ==
    ASSUME IInv, NEW p \in Procs, UNCHANGED <<stage, launch, wizard, peer, lock, revealed>>
    PROVE  IInv'
<1>1. Shape /\ ProcInv(p)
  BY DEF IInv
<1>2. Shape' /\ Others(p)
  BY <1>1 DEF Shape, Others
<1>3. Owns(p)' <=> Owns(p)
  BY DEF Owns
<1>4. ProcInv(p)'
  BY <1>1, <1>2, <1>3 DEF ProcInv, SetupInv, RunningInv, SecretInv
<1>5. QED
  BY <1>2, <1>4, OneProcess

\* The setup screen opens on checked options.
LEMMA SetupTypes ==
    ASSUME Shape, NEW p \in Procs, NEW c, NEW token, NEW discovery \in BOOLEAN,
           Setup(p, c, token, discovery), lock' = [q \in Procs |-> lock'[q]]
    PROVE  /\ Shape'
           /\ stage'[p] = "setup" /\ launch'[p] = Kept(c, token, discovery)
           /\ wizard'[p].phase = "Start"
           /\ wizard'[p].focus = IF discovery THEN "Start" ELSE "PinStart"
           /\ peer' = peer /\ revealed' = revealed
           /\ \A q \in Procs \ {p} :
                 /\ stage'[q] = stage[q] /\ launch'[q] = launch[q] /\ wizard'[q] = wizard[q]
<1>1. /\ NewWizard(discovery) \in Wizard
      /\ NewWizard(discovery).phase = "Start"
      /\ NewWizard(discovery).focus = IF discovery THEN "Start" ELSE "PinStart"
  BY DEF NewWizard, Closed, Wizard, Buttons
<1>2. QED
  BY <1>1 DEF Setup, Shape, Stages

\* A quick run has no name to keep.
LEMMA QuickIInv ==
    ASSUME IInv, NEW p \in Procs, Quick(p)
    PROVE  IInv'
<1>1. Shape /\ ProcInv(p)
  BY DEF IInv
<1>2. Setup(p, DefaultConfig, "unset", FALSE) /\ lock' = lock
  BY DEF Quick
<1>3. /\ Shape'
      /\ stage'[p] = "setup" /\ launch'[p] = Kept(DefaultConfig, "unset", FALSE)
      /\ wizard'[p].phase = "Start" /\ wizard'[p].focus = "PinStart"
      /\ peer' = peer /\ revealed' = revealed /\ Others(p)
  <2>1. lock' = [q \in Procs |-> lock'[q]] /\ FALSE \in BOOLEAN
    BY <1>1, <1>2 DEF Shape
  <2>2. /\ Shape'
        /\ stage'[p] = "setup" /\ launch'[p] = Kept(DefaultConfig, "unset", FALSE)
        /\ wizard'[p].phase = "Start"
        /\ wizard'[p].focus = IF FALSE THEN "Start" ELSE "PinStart"
        /\ peer' = peer /\ revealed' = revealed
        /\ \A q \in Procs \ {p} :
              /\ stage'[q] = stage[q] /\ launch'[q] = launch[q] /\ wizard'[q] = wizard[q]
    BY <1>1, <1>2, <2>1, SetupTypes, Zenon
  <2>3. QED
    BY <1>2, <2>2 DEF Others
<1>4. /\ launch'[p].discovery = FALSE /\ launch'[p].token = "unset"
      /\ ValidRelayOnly(launch'[p].config)
  <2> DEFINE k == Kept(DefaultConfig, "unset", FALSE)
  <2>1. /\ k.token = "unset" /\ k.discovery = FALSE
       /\ k.config.name = DefaultConfig.name /\ k.config.expected = DefaultConfig.expected
       /\ ValidRelayOnly(k.config) <=> ValidRelayOnly(DefaultConfig)
    BY ConfigFields, DefaultIsValid DEF Kept, Fields, ValidRelayOnly
  <2> HIDE DEF k
  <2>2. QED
    BY <1>3, <2>1, DefaultIsValid DEF k
<1>5. ProcInv(p)'
  <2>1. stage[p] = "off"
    BY <1>2 DEF Quick
  <2>2. revealed[p] = {} /\ ~peer[p].pin
    BY <1>1, <2>1 DEF ProcInv, SecretInv
  <2>3. QED
    BY <1>3, <1>4, <2>2 DEF ProcInv, SetupInv, RunningInv, SecretInv
<1>6. QED
  BY <1>2, <1>3, <1>5, OneProcess

\* A run with a name has the lock before it has a screen.
LEMMA RunIInv ==
    ASSUME IInv, NEW p \in Procs, NEW c \in Configs, NEW env, Run(p, c, env)
    PROVE  IInv'
<1> DEFINE token == ConfigToken(c, env)
           file == StateFile(c.name, LowerCase(c.expected))
<1>1. Shape /\ ProcInv(p)
  BY DEF IInv
<1>2. /\ Checks(c, token) /\ Declares(c, token) /\ Free(file)
      /\ lock' = [lock EXCEPT ![p] = file] /\ Setup(p, c, token, TRUE)
  BY DEF Run
<1> HIDE DEF token
<1>3. /\ lock' = [q \in Procs |-> lock'[q]] /\ lock'[p] = file
      /\ \A q \in Procs \ {p} : lock'[q] = lock[q]
  BY <1>1, <1>2 DEF Shape
<1>4. /\ Shape'
      /\ stage'[p] = "setup" /\ launch'[p] = Kept(c, token, TRUE)
      /\ wizard'[p].phase = "Start" /\ wizard'[p].focus = "Start"
      /\ peer' = peer /\ revealed' = revealed /\ Others(p)
  <2>1. TRUE \in BOOLEAN
    OBVIOUS
  <2>2. /\ Shape'
        /\ stage'[p] = "setup" /\ launch'[p] = Kept(c, token, TRUE)
        /\ wizard'[p].phase = "Start"
        /\ wizard'[p].focus = IF TRUE THEN "Start" ELSE "PinStart"
        /\ peer' = peer /\ revealed' = revealed
        /\ \A q \in Procs \ {p} :
              /\ stage'[q] = stage[q] /\ launch'[q] = launch[q] /\ wizard'[q] = wizard[q]
    BY <1>1, <1>2, <1>3, <2>1, SetupTypes, Zenon
  <2>3. QED
    BY <1>3, <2>2 DEF Others
<1>5. /\ launch'[p].token = token /\ launch'[p].discovery = TRUE
      /\ launch'[p].config.name = c.name /\ launch'[p].config.expected = c.expected
      /\ ValidRelayOnly(launch'[p].config)
  <2>1. ValidRelayOnly(c)
    BY <1>2 DEF Checks
  <2> DEFINE k == Kept(c, token, TRUE)
  <2>2. /\ k.token = token /\ k.discovery = TRUE
       /\ k.config.name = c.name /\ k.config.expected = c.expected
       /\ ValidRelayOnly(k.config) <=> ValidRelayOnly(c)
    BY ConfigFields, DefaultIsValid DEF Kept, Fields, ValidRelayOnly
  <2> HIDE DEF k
  <2>3. QED
    BY <1>4, <2>1, <2>2 DEF k
<1>6. file # NoLock
  BY <1>2 DEF Declares, StateFile, NoLock
<1>7. Owns(p)'
  BY <1>3, <1>5, <1>6 DEF Owns
<1>8. launch'[p].token # "unset" => FingerprintMatches(launch'[p].token, launch'[p].config.expected)
  BY <1>2, <1>5 DEF Declares
<1>9. ProcInv(p)'
  <2>1. stage[p] = "off"
    BY DEF Run
  <2>2. revealed[p] = {} /\ ~peer[p].pin
    BY <1>1, <2>1 DEF ProcInv, SecretInv
  <2>3. QED
    BY <1>4, <1>5, <1>7, <1>8, <2>2 DEF ProcInv, SetupInv, RunningInv, SecretInv
<1>10. QED
  BY <1>2, <1>3, <1>4, <1>9, OneProcess

\* A run without a screen prints no token but one that it had to make.
LEMMA HeadlessIInv ==
    ASSUME IInv, NEW p \in Procs, NEW c \in Configs, NEW env, NEW node, NEW needsPort,
           Headless(p, c, env, node, needsPort)
    PROVE  IInv'
<1> DEFINE token == ConfigToken(c, env)
           r == Preset(node, token)
<1>1. Shape /\ ProcInv(p) /\ stage[p] = "off"
  BY DEF IInv, Headless
<1>2. /\ Checks(c, token) /\ UNCHANGED <<wizard, lock>>
      /\ \/ UNCHANGED <<stage, launch, peer, revealed>>
         \/ /\ stage' = [stage EXCEPT ![p] = "headless"]
            /\ launch' = [launch EXCEPT ![p] = Kept(c, token, FALSE)]
            /\ peer' = [peer EXCEPT ![p] = r]
            /\ Reveal(p, Printed(r))
  BY DEF Headless
<1>3. token # "unset" => Printed(r) = {}
  BY DEF Printed, Preset
<1>4. r.pin = FALSE
  BY DEF Preset
<1> HIDE DEF token, r
<1>5. CASE UNCHANGED <<stage, launch, peer, revealed>>
  BY <1>2, <1>5, RefuseIInv
<1>6. CASE /\ stage' = [stage EXCEPT ![p] = "headless"]
           /\ launch' = [launch EXCEPT ![p] = Kept(c, token, FALSE)]
           /\ peer' = [peer EXCEPT ![p] = r]
           /\ Reveal(p, Printed(r))
  <2>1. Shape' /\ Others(p) /\ lock' = lock
    BY <1>1, <1>2, <1>6 DEF Shape, Others, Reveal, Stages
  <2>2. /\ stage'[p] = "headless" /\ launch'[p] = Kept(c, token, FALSE) /\ peer'[p] = r
        /\ revealed'[p] = Printed(r)
    BY <1>1, <1>6 DEF Shape, Reveal
  <2>3. /\ launch'[p].discovery = FALSE /\ launch'[p].token = token
        /\ ValidRelayOnly(launch'[p].config)
    <3>1. ValidRelayOnly(c)
      BY <1>2 DEF Checks
    <3> DEFINE k == Kept(c, token, FALSE)
    <3>2. /\ k.token = token /\ k.discovery = FALSE
         /\ k.config.name = c.name /\ k.config.expected = c.expected
         /\ ValidRelayOnly(k.config) <=> ValidRelayOnly(c)
      BY ConfigFields, DefaultIsValid DEF Kept, Fields, ValidRelayOnly
    <3> HIDE DEF k
    <3>3. QED
      BY <2>2, <3>1, <3>2 DEF k
  <2>4. ProcInv(p)'
    BY <1>3, <1>4, <2>2, <2>3 DEF ProcInv, SetupInv, RunningInv, SecretInv
  <2>5. QED
    BY <2>1, <2>4, OneProcess
<1>7. QED
  BY <1>2, <1>5, <1>6

------------------------------------------------------------------------------
(* The setup screen. *)

\* What the screen shows changes, and what was checked does not; a token on it was
\* typed into a field that only a run without a token has.
LEMMA WizardIInv ==
    ASSUME IInv, NEW p \in Procs, stage[p] = "setup", NEW w \in Wizard,
           SetWizard(p, w), UNCHANGED <<stage, launch, peer, lock>>,
           NEW tokens, Reveal(p, tokens),
           tokens = revealed[p] \/ (launch[p].discovery /\ launch[p].token = "unset"),
           w.focus \in IF launch[p].discovery THEN {"Start", "Exit"}
                                              ELSE {"PinStart", "ManualStart", "Exit"},
           w.phase = "TokenSetup" => launch[p].discovery /\ launch[p].token = "unset"
    PROVE  IInv'
<1>1. Shape /\ ProcInv(p)
  BY DEF IInv
<1>2. Shape' /\ wizard'[p] = w /\ revealed'[p] = tokens /\ Others(p)
  BY <1>1 DEF Shape, SetWizard, Reveal, Others
<1>3. ~peer[p].pin
  BY <1>1 DEF ProcInv, SecretInv
<1>4. Owns(p)' <=> Owns(p)
  BY DEF Owns
<1>5. ProcInv(p)'
  BY <1>1, <1>2, <1>3, <1>4 DEF ProcInv, SetupInv, RunningInv, SecretInv
<1>6. QED
  BY <1>2, <1>5, OneProcess

\* A screen that puts no token up.
LEMMA StaysIInv ==
    ASSUME IInv, NEW p \in Procs, stage[p] = "setup", NEW w \in Wizard,
           SetWizard(p, w), StaysInSetup,
           w.focus \in IF launch[p].discovery THEN {"Start", "Exit"}
                                              ELSE {"PinStart", "ManualStart", "Exit"},
           w.phase = "TokenSetup" => launch[p].discovery /\ launch[p].token = "unset"
    PROVE  IInv'
<1>1. Reveal(p, revealed[p])
  BY DEF StaysInSetup, Reveal, IInv, Shape
<1>2. UNCHANGED <<stage, launch, peer, lock>>
  BY DEF StaysInSetup
<1>3. QED
  BY <1>1, <1>2, WizardIInv

\* A run starts with the token that its lock stands for, and shows one that it made.
LEMMA FinalizeIInv ==
    ASSUME IInv, NEW p \in Procs, stage[p] = "setup",
           NEW token, NEW generated \in BOOLEAN, NEW pin \in BOOLEAN,
           Finalize(p, token, generated, pin),
           generated => launch[p].token = "unset",
           launch[p].discovery => FingerprintMatches(token, launch[p].config.expected),
           ~launch[p].discovery /\ pin => token = "unset"
    PROVE  IInv'
<1>1. Shape /\ ProcInv(p)
  BY DEF IInv
<1>2. Closed \in Wizard
  BY DEF Closed, Wizard, Buttons
<1>3. Shape' /\ Others(p)
  BY <1>1, <1>2 DEF Shape, Finalize, SetWizard, Reveal, Others, Stages
<1>4. /\ stage'[p] = "running" /\ launch' = launch /\ lock' = lock
      /\ revealed'[p] = revealed[p] \cup IF generated /\ token # "unset" THEN {token} ELSE {}
  BY <1>1 DEF Finalize, Shape, Reveal
<1>5. /\ peer'[p].token = token
      /\ peer'[p].pin => ~launch[p].discovery /\ token = "unset"
  <2>1. peer'[p] = [role |-> "both", token |-> token, generated |-> generated,
                    pin |-> ~launch[p].discovery /\ pin]
    BY <1>1 DEF Finalize, Shape
  <2>2. peer'[p].token = token /\ peer'[p].pin = (~launch[p].discovery /\ pin)
    BY <2>1
  <2>3. QED
    BY <2>2
<1>6. Owns(p)' <=> Owns(p)
  BY <1>4 DEF Owns
<1>7. launch[p].token # "unset" \/ peer'[p].pin => revealed'[p] = {}
  <2>1. peer'[p].pin => ~launch[p].discovery /\ token = "unset"
    BY <1>5
  <2>2. launch[p].token # "unset" => revealed[p] = {} /\ ~generated
    BY <1>1 DEF ProcInv, SecretInv
  <2>3. ~launch[p].discovery => revealed[p] = {}
    BY <1>1 DEF ProcInv, SecretInv
  <2>4. QED
    BY <1>4, <2>1, <2>2, <2>3
<1>8. ProcInv(p)'
  BY <1>1, <1>4, <1>5, <1>6, <1>7 DEF ProcInv, SetupInv, RunningInv, SecretInv
<1>9. QED
  BY <1>3, <1>4, <1>8, OneProcess

\* The arrow keys stay among the buttons there are.
LEMMA MoveFocusIInv ==
    ASSUME IInv, NEW p \in Procs, MoveFocus(p)
    PROVE  IInv'
<1> DEFINE ring == StartRing(launch[p].discovery)
           n == IF launch[p].discovery THEN 2 ELSE 3
           i == CHOOSE k \in 1 .. n : ring[k] = wizard[p].focus
<1>1. Shape /\ ProcInv(p) /\ stage[p] = "setup"
  BY DEF IInv, MoveFocus, Phase
<1>2. PICK step \in {1, n - 1} :
        SetWizard(p, [wizard[p] EXCEPT !.focus = ring[((i - 1 + step) % n) + 1], !.error = FALSE])
  BY DEF MoveFocus
<1>3. i \in 1 .. n
  <2>1. \E k \in 1 .. n : ring[k] = wizard[p].focus
    <3>1. CASE launch[p].discovery
      <4>1. wizard[p].focus = ring[1] \/ wizard[p].focus = ring[2]
        BY <1>1, <3>1 DEF ProcInv, SetupInv, StartRing
      <4>2. n = 2
        BY <3>1
      <4> HIDE DEF n, ring
      <4>3. QED
        BY <4>1, <4>2
    <3>2. CASE ~launch[p].discovery
      <4>1. wizard[p].focus = ring[1] \/ wizard[p].focus = ring[2] \/ wizard[p].focus = ring[3]
        BY <1>1, <3>2 DEF ProcInv, SetupInv, StartRing
      <4>2. QED
        BY <3>2, <4>1
    <3>3. QED
      BY <3>1, <3>2
  <2>2. QED
    BY <2>1
<1> DEFINE button == ring[((i - 1 + step) % n) + 1]
<1>4. button \in IF launch[p].discovery THEN {"Start", "Exit"}
                                        ELSE {"PinStart", "ManualStart", "Exit"}
  <2> HIDE DEF i
  <2>1. CASE launch[p].discovery
    <3>1. ((i - 1 + step) % n) + 1 \in 1 .. 2
      BY <1>2, <1>3, <2>1
    <3>2. ring = <<"Start", "Exit">>
      BY <2>1 DEF StartRing
    <3> HIDE DEF n, ring
    <3>3. button \in {"Start", "Exit"}
      BY <3>1, <3>2
    <3>4. QED
      BY <2>1, <3>3
  <2>2. CASE ~launch[p].discovery
    <3>1. ((i - 1 + step) % n) + 1 \in 1 .. 3
      BY <1>2, <1>3, <2>2
    <3>2. ring = <<"PinStart", "ManualStart", "Exit">>
      BY <2>2 DEF StartRing
    <3>3. QED
      BY <2>2, <3>1, <3>2
  <2>3. QED
    BY <2>1, <2>2
<1> HIDE DEF button
<1>5. button \in Buttons
  BY <1>4 DEF Buttons
<1>6. /\ [wizard[p] EXCEPT !.focus = button, !.error = FALSE] \in Wizard
      /\ [wizard[p] EXCEPT !.focus = button, !.error = FALSE].focus = button
      /\ [wizard[p] EXCEPT !.focus = button, !.error = FALSE].phase = wizard[p].phase
      /\ wizard[p].phase = "Start"
  <2>1. wizard[p] \in Wizard /\ wizard[p].phase = "Start"
    BY <1>1 DEF Shape, MoveFocus, Phase
  <2>2. QED
    BY <1>5, <2>1 DEF Wizard
<1>7. StaysInSetup
  BY DEF MoveFocus
<1>8. SetWizard(p, [wizard[p] EXCEPT !.focus = button, !.error = FALSE])
  BY <1>2 DEF button
<1>9. QED
  BY <1>1, <1>4, <1>6, <1>7, <1>8, StaysIInv

\* Enter on the first screen.
LEMMA StartIInv ==
    ASSUME IInv, NEW p \in Procs, StartQuick(p) \/ SubmitStart(p)
    PROVE  IInv'
<1>1. /\ Shape /\ ProcInv(p) /\ stage[p] = "setup" /\ wizard[p].phase = "Start"
  BY DEF IInv, StartQuick, SubmitStart, Phase
<1>2. CASE StartQuick(p)
  <2>1. ~launch[p].discovery
    BY <1>1, <1>2 DEF StartQuick, ProcInv, SetupInv
  <2>2. \/ Finalize(p, "unset", FALSE, TRUE)
        \/ Finalize(p, launch[p].token, FALSE, FALSE)
        \/ launch[p].token = "unset" /\ Finalize(p, "minted", TRUE, FALSE)
    BY <1>2 DEF StartQuick
  <2>3. TRUE \in BOOLEAN /\ FALSE \in BOOLEAN
    OBVIOUS
  <2>4. ASSUME NEW token, NEW generated \in BOOLEAN, NEW pin \in BOOLEAN,
               Finalize(p, token, generated, pin),
               generated => launch[p].token = "unset", pin => token = "unset"
        PROVE  IInv'
    BY <1>1, <2>1, <2>4, FinalizeIInv
  <2>5. QED
    BY <2>2, <2>3, <2>4
<1>3. CASE SubmitStart(p)
  <2>1. launch[p].discovery
    BY <1>1, <1>3 DEF SubmitStart, ProcInv, SetupInv
  <2>2. CASE launch[p].token # "unset"
    <3>1. Finalize(p, launch[p].token, FALSE, TRUE)
      BY <1>3, <2>2 DEF SubmitStart
    <3>2. FingerprintMatches(launch[p].token, launch[p].config.expected)
      BY <1>1, <2>1, <2>2 DEF ProcInv, SetupInv
    <3>3. QED
      BY <1>1, <2>1, <3>1, <3>2, FinalizeIInv
  <2>3. CASE launch[p].token = "unset"
    <3> DEFINE w == [wizard[p] EXCEPT !.phase = "TokenSetup", !.error = FALSE]
    <3>1. SetWizard(p, w) /\ StaysInSetup
      BY <1>3, <2>3 DEF SubmitStart
    <3>2. wizard[p] \in Wizard
      BY <1>1 DEF Shape
    <3>3. w \in Wizard /\ w.focus = wizard[p].focus
      BY <3>2 DEF Wizard
    <3> HIDE DEF w
    <3>4. w.focus \in IF launch[p].discovery THEN {"Start", "Exit"}
                                             ELSE {"PinStart", "ManualStart", "Exit"}
      BY <1>1, <3>3 DEF ProcInv, SetupInv
    <3>5. QED
      BY <1>1, <2>1, <2>3, <3>1, <3>3, <3>4, StaysIInv
  <2>4. QED
    BY <2>2, <2>3
<1>4. QED
  BY <1>2, <1>3

\* The token screen, which only a run with a name has.
LEMMA TokenIInv ==
    ASSUME IInv, NEW p \in Procs, EditToken(p) \/ LeaveToken(p) \/ SubmitToken(p)
    PROVE  IInv'
<1>1. /\ Shape /\ ProcInv(p) /\ stage[p] = "setup" /\ wizard[p].phase = "TokenSetup"
      /\ wizard[p] \in Wizard
  BY DEF IInv, Shape, EditToken, LeaveToken, SubmitToken, Phase
<1>2. /\ launch[p].discovery /\ launch[p].token = "unset"
      /\ wizard[p].focus \in IF launch[p].discovery THEN {"Start", "Exit"}
                                                    ELSE {"PinStart", "ManualStart", "Exit"}
  BY <1>1 DEF ProcInv, SetupInv
<1>3. CASE \/ EditToken(p) \/ LeaveToken(p)
           \/ SubmitToken(p) /\ ~Acceptable(p)
  <2>1. CASE EditToken(p)
    <3>1. PICK text \in Tokens \cup {"unset", "bad"} :
            /\ SetWizard(p, [wizard[p] EXCEPT !.typed = text, !.error = FALSE])
            /\ Reveal(p, revealed[p] \cup ({text} \cap Tokens))
      BY <2>1 DEF EditToken
    <3> DEFINE w == [wizard[p] EXCEPT !.typed = text, !.error = FALSE]
    <3>2. w \in Wizard /\ w.focus = wizard[p].focus
      BY <1>1 DEF Wizard
    <3>3. SetWizard(p, w) /\ UNCHANGED <<stage, launch, peer, lock>>
      BY <2>1, <3>1 DEF EditToken
    <3> HIDE DEF w
    <3>4. QED
      BY <1>1, <1>2, <3>1, <3>2, <3>3, WizardIInv
  <2>2. CASE LeaveToken(p)
    <3> DEFINE w == [wizard[p] EXCEPT !.phase = "Start", !.error = FALSE]
    <3>1. w \in Wizard /\ w.focus = wizard[p].focus
      BY <1>1 DEF Wizard
    <3>2. SetWizard(p, w) /\ StaysInSetup
      BY <2>2 DEF LeaveToken
    <3> HIDE DEF w
    <3>3. QED
      BY <1>1, <1>2, <3>1, <3>2, StaysIInv
  <2>3. CASE SubmitToken(p) /\ ~Acceptable(p)
    <3> DEFINE w == [wizard[p] EXCEPT !.error = TRUE]
    <3>1. w \in Wizard /\ w.focus = wizard[p].focus
      BY <1>1 DEF Wizard
    <3>2. SetWizard(p, w) /\ StaysInSetup
      BY <2>3 DEF SubmitToken
    <3> HIDE DEF w
    <3>3. QED
      BY <1>1, <1>2, <3>1, <3>2, StaysIInv
  <2>4. QED
    BY <1>3, <2>1, <2>2, <2>3
<1>4. CASE SubmitToken(p) /\ Acceptable(p)
  <2>1. Finalize(p, wizard[p].typed, FALSE, TRUE)
    BY <1>4 DEF SubmitToken
  <2>2. FingerprintMatches(wizard[p].typed, launch[p].config.expected)
    BY <1>4 DEF Acceptable
  <2>3. QED
    BY <1>1, <1>2, <2>1, <2>2, FinalizeIInv
<1>5. QED
  BY <1>3, <1>4

------------------------------------------------------------------------------
(* The specification. *)

LEMMA InitIInv ==
    ASSUME Init
    PROVE  IInv
<1>1. Closed \in Wizard /\ ~Unresolved.pin
  BY DEF Closed, Wizard, Buttons, Unresolved
<1>2. Shape
  BY <1>1 DEF Init, Shape, Stages
<1>3. \A p \in Procs : ProcInv(p)
  BY <1>1 DEF Init, ProcInv, SetupInv, RunningInv, SecretInv
<1>4. LockInv
  BY DEF Init, LockInv
<1>5. QED
  BY <1>2, <1>3, <1>4 DEF IInv

LEMMA NextIInv ==
    ASSUME IInv, [Next]_vars
    PROVE  IInv'
<1>1. CASE Next
  <2>1. PICK p \in Procs :
          \/ Quick(p)
          \/ CannotStart(p)
          \/ GenerateAuthToken(p)
          \/ \E c \in Configs : \E env : Run(p, c, env) \/ RunRefused(p, c, env)
          \/ \E c \in Configs : \E env, node :
                 \/ \E needsPort : Headless(p, c, env, node, needsPort)
                 \/ HeadlessRefused(p, c, env, node)
          \/ MoveFocus(p)
          \/ StartQuick(p) \/ SubmitStart(p)
          \/ EditToken(p) \/ LeaveToken(p) \/ SubmitToken(p)
          \/ \E n : Exit(p, n)
    BY <1>1 DEF Next, Configs, HeadlessEnds, QuitSetup, PressExit, DashboardEnds, Killed
  <2>2. CASE CannotStart(p) \/ (\E c \in Configs : \E env : RunRefused(p, c, env))
             \/ (\E c \in Configs : \E env, node : HeadlessRefused(p, c, env, node))
    <3>1. Refuse(p)
      BY <2>2 DEF CannotStart, RunRefused, HeadlessRefused
    <3>2. QED
      BY <3>1, RefuseIInv DEF Refuse
  <2>3. CASE GenerateAuthToken(p)
    BY <2>3, RefuseIInv DEF GenerateAuthToken
  <2>4. QED
    BY <2>1, <2>2, <2>3, QuickIInv, RunIInv, HeadlessIInv, MoveFocusIInv, StartIInv, TokenIInv,
       ExitIInv
<1>2. CASE UNCHANGED vars
  <2>1. \A p \in Procs : ProcInv(p) => ProcInv(p)'
    BY <1>2 DEF vars, ProcInv, SetupInv, RunningInv, SecretInv, Owns
  <2>2. QED
    BY <1>2, <2>1 DEF vars, IInv, Shape, LockInv
<1>3. QED
  BY <1>1, <1>2

\* The inductive invariant holds.
THEOREM IInvHolds == Spec => []IInv
<1>1. Init => IInv
  BY InitIInv
<1>2. IInv /\ [Next]_vars => IInv'
  BY NextIInv
<1>3. QED
  BY <1>1, <1>2, PTL DEF Spec

\* The file of a publisher is the one that its process has locked.
LEMMA OwnerImplied ==
    ASSUME IInv
    PROVE  OneOwnerPerStateFile
<1>1. ASSUME NEW p \in Procs, Publishes(p) PROVE PublisherFile(p) = lock[p] /\ lock[p] # NoLock
  <2>1. Owns(p) /\ FingerprintMatches(peer[p].token, launch[p].config.expected)
    BY <1>1 DEF IInv, ProcInv, RunningInv, Publishes
  <2>2. LowerCase(LowerCase(launch[p].config.expected)) = LowerCase(launch[p].config.expected)
    BY DEF LowerCase
  <2>3. LowerCase(Fingerprint(peer[p].token)) = LowerCase(launch[p].config.expected)
    BY <2>1 DEF FingerprintMatches, Fingerprint, LowerCase
  <2>4. QED
    BY <2>1, <2>2, <2>3 DEF Owns, PublisherFile, StateFile
<1>2. QED
  BY <1>1 DEF IInv, LockInv, OneOwnerPerStateFile

\* What is shown, kept and used was checked before the run began.
LEMMA SecretsImplied ==
    ASSUME IInv
    PROVE  SecretsStayPrivate
<1>1. SUFFICES ASSUME NEW p \in Procs
               PROVE  /\ stage[p] # "off" /\ launch[p].token # "unset" => revealed[p] = {}
                      /\ peer[p].pin => peer[p].token = "unset" /\ revealed[p] = {}
                      /\ stage[p] \in {"running", "headless"} /\ launch[p].config.relayOnly =>
                             /\ Lookups(launch[p].config) = {}
                             /\ Transports(launch[p].config) = {"relay"}
                             /\ RelayMode(launch[p].config) = "custom"
  BY DEF SecretsStayPrivate
<1>2. SecretInv(p)
  BY DEF IInv, ProcInv
<1>3. QED
  BY <1>2 DEF SecretInv, ValidRelayOnly, Lookups, Transports, RelayMode

\* No two processes publish under one name of one pairing.
THEOREM OneOwner == Spec => []OneOwnerPerStateFile
<1>1. IInv => OneOwnerPerStateFile
  BY OwnerImplied
<1>2. QED
  BY <1>1, IInvHolds, PTL

\* A run never shows the token that it was given, and one that pairs by PIN has and
\* shows no token; a relay-only run gives its addresses away to nobody.
THEOREM SecretsPrivate == Spec => []SecretsStayPrivate
<1>1. IInv => SecretsStayPrivate
  BY SecretsImplied
<1>2. QED
  BY <1>1, IInvHolds, PTL
==============================================================================
