------------------------------ MODULE NFStatus ------------------------------
(***************************************************************************)
(* The per-NF status state machine of deployment/status.go: how one NF's   *)
(* reported condition list is normalised, checked for ambiguity and for    *)
(* consistency, and turned into the NF's state and its active conditions. *)
(* Pure operators; Deployment uses them inside its event handler.          *)
(*                                                                         *)
(* Messages are abstracted to tags: "Reported" is the message the NF sent *)
(* with a condition, the other tags name the fixed texts the code writes. *)
(***************************************************************************)
EXTENDS FiniteSetsExt, Sequences, TLC

\* types.NFConditionType and corev1.ConditionStatus
CondTypes == {"Available", "Ready", "Peering", "Reconciling", "Stalled"}
CondStatus == {"True", "False", "Unknown"}

\* A status document as received: the conditions it lists, by type.
Reports == UNION {[S -> CondStatus] : S \in SUBSET CondTypes}

\* Diagnostic texts of validateNFConditionSet, in the order it checks them.
Rules == <<"ReadyAndStalled", "NotAvailable", "PeeringNotReconciling", "ReadyWhileBusy">>

MsgTags == {"Reported", "Neither", "ImpliedReady", "ImpliedPeering"} \cup
           {Rules[i] : i \in 1..Len(Rules)}

States == {"None", "Available", "Ready", "Peering", "Reconciling", "Stalled"}

\* NFStatus without lastEventTimestamp: state and activeConditions.
NFStatusRecs == [state : States,
                 active : UNION {[S -> MsgTags] : S \in SUBSET CondTypes}]

\* The zero NFStatus of a freshly created node.
ZeroStatus == [state |-> "None", active |-> [t \in {} |-> "Reported"]]

\* calculateNFConditionSet: absent conditions default to Unknown.
calculateNFConditionSet(report) ==
    [t \in CondTypes |-> IF t \in DOMAIN report THEN report[t] ELSE "Unknown"]

\* isAmbiguousConditionSet: nothing is True, and it is not the
\* "neither available nor reconciling" combination.
isAmbiguousConditionSet(c) ==
    /\ ~\E t \in CondTypes : c[t] = "True"
    /\ ~(c["Available"] = "False" /\ c["Reconciling"] = "False")

\* The four checks of validateNFConditionSet.
Violates(c, rule) ==
    CASE rule = "ReadyAndStalled" ->
            c["Ready"] = "True" /\ c["Stalled"] = "True"
      [] rule = "NotAvailable" ->
            (c["Ready"] = "True" \/ c["Peering"] = "True") /\ c["Available"] = "False"
      [] rule = "PeeringNotReconciling" ->
            c["Reconciling"] = "False" /\ c["Peering"] = "True"
      [] rule = "ReadyWhileBusy" ->
            (c["Peering"] = "True" \/ c["Reconciling"] = "True") /\ c["Ready"] = "True"

\* Mutant: the last check (Ready with Peering or Reconciling) left out.
validateNFConditionSetNoBusyCheck(c) ==
    LET hits == {i \in 1..3 : Violates(c, Rules[i])}
    IN  IF hits = {} THEN [isSet |-> FALSE, status |-> ZeroStatus]
        ELSE [isSet |-> TRUE,
              status |-> [state |-> "Stalled",
                          active |-> "Stalled" :> Rules[Min(hits)]]]

\* validateNFConditionSet: the first violated check forces Stalled.
validateNFConditionSet(c) ==
    LET hits == {i \in 1..Len(Rules) : Violates(c, Rules[i])}
    IN  IF hits = {} THEN [isSet |-> FALSE, status |-> ZeroStatus]
        ELSE [isSet |-> TRUE,
              status |-> [state |-> "Stalled",
                          active |-> "Stalled" :> Rules[Min(hits)]]]

\* Mutant: the condition's status stored where its message belongs.
ReportedActiveStatus(c) == [t \in {u \in CondTypes : c[u] = "True"} |-> c[t]]

\* The conditions reported True, each with the NF's message.
ReportedActive(c) == [t \in {u \in CondTypes : c[u] = "True"} |-> "Reported"]

\* Mutant: a Ready NF without the implied Available condition.
DeriveStatusNoImpliedAvailable(c) ==
    LET act == ReportedActive(c) IN
    IF c["Available"] = "False" /\ c["Reconciling"] = "False"
    THEN [state |-> "Stalled", active |-> "Stalled" :> "Neither"]
    ELSE IF c["Stalled"] = "True" THEN [state |-> "Stalled", active |-> act]
    ELSE IF c["Ready"] = "True" THEN [state |-> "Ready", active |-> act]
    ELSE IF c["Peering"] = "True"
    THEN [state |-> "Peering",
          active |-> act @@ ("Reconciling" :> "ImpliedPeering")
                         @@ ("Available" :> "ImpliedPeering")]
    ELSE IF c["Reconciling"] = "True" THEN [state |-> "Reconciling", active |-> act]
    ELSE [state |-> "Available", active |-> act]

\* The state derivation of updateCurrentNFStatus for a consistent set;
\* @@ keeps an asserted condition and adds the implied one only if absent.
DeriveStatus(c) ==
    LET act == ReportedActive(c) IN
    IF c["Available"] = "False" /\ c["Reconciling"] = "False"
    THEN [state |-> "Stalled", active |-> "Stalled" :> "Neither"]
    ELSE IF c["Stalled"] = "True" THEN [state |-> "Stalled", active |-> act]
    ELSE IF c["Ready"] = "True"
    THEN [state |-> "Ready", active |-> act @@ ("Available" :> "ImpliedReady")]
    ELSE IF c["Peering"] = "True"
    THEN [state |-> "Peering",
          active |-> act @@ ("Reconciling" :> "ImpliedPeering")
                         @@ ("Available" :> "ImpliedPeering")]
    ELSE IF c["Reconciling"] = "True" THEN [state |-> "Reconciling", active |-> act]
    ELSE [state |-> "Available", active |-> act]

\* updateCurrentNFStatus without the store into the node (Deployment does it).
updateCurrentNFStatus(c) ==
    LET v == validateNFConditionSet(c)
    IN  IF v.isSet THEN v.status ELSE DeriveStatus(c)

=============================================================================
