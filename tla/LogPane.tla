------------------------------- MODULE LogPane -------------------------------
(***************************************************************************)
(* The log of the dashboard: two bounded rings behind the logger           *)
(* (logging.rs) and the offset by which the logs screen is scrolled up     *)
(* over them (tui/mod.rs).  How many rows a line takes is up to the        *)
(* terminal, and what fits on the screen is not modelled.                  *)
(***************************************************************************)
EXTENDS Naturals, SequencesExt

CONSTANTS
    Cap,      \* capacity of each ring
    Page,     \* lines per PageUp and PageDown
    MaxPush   \* bound: records pushed

PaneAssumption == Cap \in Nat /\ Page \in Nat \ {0}

VARIABLES
    concise,  \* the ring of the default view: time stamps, oldest first
    churn,    \* the ring of the verbose-only records
    pushed,   \* history: the time stamps of all records of each ring
    onLogs,   \* the logs screen is up
    scroll,   \* log_scroll
    verbose   \* verbose

vars == <<concise, churn, pushed, onLogs, scroll, verbose>>

Lesser(a, b) == IF a < b THEN a ELSE b
Less(a, b) == IF a > b THEN a - b ELSE 0
Latest(n, seq) == SubSeq(seq, Less(Len(seq), n) + 1, Len(seq))

\* concise_len, and verbose_len, which counts both rings.
Lines == Len(concise) + IF verbose THEN Len(churn) ELSE 0

Init ==
    /\ concise = <<>> /\ churn = <<>>
    /\ pushed = [ring \in {"concise", "churn"} |-> <<>>]
    /\ onLogs = FALSE /\ scroll = 0 /\ verbose = FALSE

\* The ring keeps one line more than it has room for.
PutBug(ring, stamp) ==
    IF Cap = 0 THEN ring
    ELSE Append(IF Len(ring) > Cap THEN Tail(ring) ELSE ring, stamp)

\* LogBuffer::push of one ring: nothing with no capacity, else the oldest line goes.
Put(ring, stamp) ==
    IF Cap = 0 THEN ring
    ELSE Append(IF Len(ring) >= Cap THEN Tail(ring) ELSE ring, stamp)

Pushed == Len(pushed["concise"]) + Len(pushed["churn"])

Push ==
    /\ Pushed < MaxPush
    /\ LET stamp == Pushed + 1
       IN  \/ /\ concise' = Put(concise, stamp)
              /\ pushed' = [pushed EXCEPT !["concise"] = Append(@, stamp)]
              /\ UNCHANGED churn
           \/ /\ churn' = Put(churn, stamp)
              /\ pushed' = [pushed EXCEPT !["churn"] = Append(@, stamp)]
              /\ UNCHANGED concise
    /\ UNCHANGED <<onLogs, scroll, verbose>>

rings == <<concise, churn, pushed>>

\* `l` on either screen
Switch == onLogs' = ~onLogs /\ UNCHANGED <<rings, scroll, verbose>>

\* Esc: to the tail, then home
Esc == /\ onLogs
       /\ IF scroll > 0 THEN scroll' = 0 /\ UNCHANGED onLogs
                        ELSE onLogs' = FALSE /\ UNCHANGED scroll
       /\ UNCHANGED <<rings, verbose>>

\* handle_logs_key: one line or a page, to the top or the tail
ScrollKey ==
    /\ onLogs
    /\ \E n \in {1, Page} : \/ scroll' = Lesser(scroll + n, Lines)
                            \/ scroll' = Less(scroll, n)
                            \/ scroll' \in {0, Lines}
    /\ UNCHANGED <<rings, onLogs, verbose>>

\* `v`: the other view has another length, so it starts at its tail
ToggleVerbose ==
    /\ onLogs
    /\ verbose' = ~verbose
    /\ scroll' = 0
    /\ UNCHANGED <<rings, onLogs>>

Next == Push \/ Switch \/ Esc \/ ScrollKey \/ ToggleVerbose

Spec == Init /\ [][Next]_vars

------------------------------------------------------------------------------
\* A burst of churn costs no concise line: each ring holds the latest records of its
\* own kind.  And the screen is never scrolled up by more lines than there are, though
\* they come and go while it is up and the two views differ in length: from any offset
\* as many steps as lines lead back to the tail.
LogsKeepTheLatest ==
    /\ concise = Latest(Cap, pushed["concise"])
    /\ churn = Latest(Cap, pushed["churn"])
    /\ scroll <= Lines
==============================================================================
