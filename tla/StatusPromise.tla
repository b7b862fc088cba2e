---------------------------- MODULE StatusPromise ----------------------------
(***************************************************************************)
(* What a Deployment promises about the status it keeps for each NF, with *)
(* the graph, the events in flight and the aggregate left out.  The        *)
(* deployment tracks a set of NFs (each under one NF type); a topology    *)
(* update changes that set, keeping the status of every NF it retains and *)
(* starting every new one at the zero status; an NF's status only ever    *)
(* moves to the status derived from an unambiguous report whose timestamp *)
(* is strictly later than that of the report it shows now (spec 4.2).      *)
(***************************************************************************)
EXTENDS NFStatus, Naturals

CONSTANTS
    NFs,        \* the possible tracked NFs: <<type, id>> pairs
    NFReports,  \* the reports an NF may send
    MaxTime     \* bound on report timestamps

VARIABLES
    view,  \* view[nf]: [status, ts] of every tracked NF
    now    \* the latest timestamp any report carries

Fresh == [status |-> ZeroStatus, ts |-> 0]

Init == view = [nf \in {} |-> Fresh] /\ now = 0

\* Time passes for the NFs on the edge.
Tick == now < MaxTime /\ now' = now + 1 /\ UNCHANGED view

\* A topology update: a new set of tracked NFs, the NFs it keeps unchanged.
Retrack ==
    /\ DOMAIN view' \subseteq NFs
    /\ view' = [nf \in DOMAIN view' |-> IF nf \in DOMAIN view THEN view[nf] ELSE Fresh]
    /\ UNCHANGED now

\* An NF adopts a newer unambiguous report.
Adopt(nf, r, ts) ==
    LET c == calculateNFConditionSet(r) IN
    /\ nf \in DOMAIN view
    /\ ~isAmbiguousConditionSet(c)
    /\ view[nf].ts < ts /\ ts <= now
    /\ view' = [view EXCEPT ![nf] = [status |-> updateCurrentNFStatus(c), ts |-> ts]]
    /\ UNCHANGED now

Next ==
    \/ Tick
    \/ Retrack
    \/ \E nf \in NFs, r \in NFReports, ts \in 1..MaxTime : Adopt(nf, r, ts)

Spec == Init /\ [][Next]_<<view, now>>

=============================================================================
