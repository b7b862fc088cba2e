----------------------------- MODULE Aggregate -----------------------------
(***************************************************************************)
(* The deployment-wide aggregation of deployment/status.go: the counts of *)
(* calculateNFCount and the four NFDeployConditions computed from them and *)
(* from a scan of every node's active conditions.                          *)
(*                                                                         *)
(* `nodes` is the graph's node store, one map per NF-type partition:      *)
(* nodes[p][id] is a record whose field `status.active` holds the node's  *)
(* active conditions.  The Go loops visit the partitions upf, smf, ausf,  *)
(* udm; amfNodes is never filled, so it is left out.  A message that lists *)
(* NF ids is modelled by the set of ids it lists (its order is Go map     *)
(* iteration order), a fixed message by a tag.                             *)
(***************************************************************************)
EXTENDS Naturals, FiniteSets

Partitions == {"upf", "smf", "ausf", "udm"}

AggTypes == {"Stalled", "Ready", "Peering", "Reconciling"}

\* Every (partition, id) entry of the node store.
Entries(nodes) == UNION {{<<p, id>> : id \in DOMAIN nodes[p]} : p \in Partitions}

\* Entries whose active conditions include / exclude condition type t.
WithActive(nodes, t) ==
    {e \in Entries(nodes) : t \in DOMAIN nodes[e[1]][e[2]].status.active}
WithoutActive(nodes, t) == Entries(nodes) \ WithActive(nodes, t)

IdsOf(es) == {e[2] : e \in es}

Msg(text, ids) == [text |-> text, ids |-> ids]

Cond(status, reason, msg) == [status |-> status, reason |-> reason, msg |-> msg]

\* calculateNFCount
calculateNFCount(nodes) ==
    [available |-> Cardinality(WithActive(nodes, "Available")),
     ready     |-> Cardinality(WithActive(nodes, "Ready")),
     stalled   |-> Cardinality(WithActive(nodes, "Stalled")),
     targeted  |-> Cardinality(Entries(nodes))]

\* computeStalledCondition: the message pairs each stalled id with the
\* message of its Stalled condition.
computeStalledCondition(nodes, stalledNFs, targetedNFs) ==
    Cond(IF stalledNFs # 0 THEN "True" ELSE "False",
         IF stalledNFs = targetedNFs THEN "AllNFsStalled"
         ELSE IF stalledNFs = 0 THEN "NoNFsStalled" ELSE "SomeNFsStalled",
         IF stalledNFs = 0 THEN Msg("NoneStalled", {})
         ELSE Msg("Stalled", {<<e[2], nodes[e[1]][e[2]].status.active["Stalled"]>> :
                              e \in WithActive(nodes, "Stalled")}))

\* computeReadyCondition: the message lists the ids that are not Ready.
computeReadyCondition(nodes, readyNFs, targetedNFs) ==
    Cond(IF readyNFs = targetedNFs THEN "True" ELSE "False",
         IF readyNFs = 0 THEN "NoNFsReady"
         ELSE IF readyNFs = targetedNFs THEN "AllNFsReady" ELSE "SomeNFsReady",
         IF readyNFs = targetedNFs THEN Msg("AllReady", {})
         ELSE Msg("NotReady", IdsOf(WithoutActive(nodes, "Ready"))))

\* The shared shape of computePeeringCondition and
\* computeReconcilingCondition for work-in-progress condition t; done, all
\* and some are the reasons the code uses for t.
ComputeWorkCondition(nodes, readyNFs, targetedNFs, t, done, all, some, none) ==
    LET working == WithActive(nodes, t)
        n == Cardinality(working)
    IN  IF targetedNFs = readyNFs THEN Cond("False", done, Msg(done, {}))
        ELSE IF readyNFs + n = targetedNFs
             THEN Cond("True", all, Msg(t, IdsOf(working)))
        ELSE IF n # 0 THEN Cond("True", some, Msg(t, IdsOf(working)))
        ELSE Cond("False", none, Msg(none, {}))

computePeeringCondition(nodes, readyNFs, targetedNFs) ==
    ComputeWorkCondition(nodes, readyNFs, targetedNFs, "Peering",
        "AllNFsPeered", "AllUnPeeredNFsPeering", "SomeNFsPeering", "NoNFsPeering")

computeReconcilingCondition(nodes, readyNFs, targetedNFs) ==
    ComputeWorkCondition(nodes, readyNFs, targetedNFs, "Reconciling",
        "AllNFsReconciled", "AllUnReconciledNFsReconciling",
        "SomeNFsReconciling", "NoNFsReconciling")

\* The status processNFEdgeEvent hands to updateNFDeployStatus: the counts
\* and the four conditions, computed from one snapshot of the graph.
AggregateStatus(nodes) ==
    LET k == calculateNFCount(nodes) IN
    [targeted |-> k.targeted, ready |-> k.ready, available |-> k.available,
     stalled |-> k.stalled,
     conds |-> [Stalled |-> computeStalledCondition(nodes, k.stalled, k.targeted),
                Ready |-> computeReadyCondition(nodes, k.ready, k.targeted),
                Peering |-> computePeeringCondition(nodes, k.ready, k.targeted),
                Reconciling |-> computeReconcilingCondition(nodes, k.ready, k.targeted)]]

=============================================================================
