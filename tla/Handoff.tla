------------------------------ MODULE Handoff ------------------------------
(***************************************************************************)
(* The reconciler handing topologies to the Deployment.  Each successful   *)
(* Reconcile ends with `go ReportNFDeployEvent(nfDeploy, ...)' on the copy  *)
(* of the NfDeploy it read, and returns without waiting; the goroutines of *)
(* successive generations then contend for deploymentMu, and whichever     *)
(* takes it last decides the graph.  The Deployment's own steps (the NF    *)
(* reports and edge events) interleave with them as in Deployment.         *)
(*                                                                         *)
(* Reconciles are serialised per NfDeploy by controller-runtime and are    *)
(* one step here: the topology a goroutine carries is the copy read at the *)
(* top of Reconcile, and an edit after that read queues another reconcile, *)
(* which is the same as the edit coming after the step.  A failing         *)
(* reconcile starts no goroutine and is retried; that retry is a stutter   *)
(* here (Hydration models the failures).                                   *)
(***************************************************************************)
EXTENDS Deployment

CONSTANT MaxGen      \* bound on the generations the user creates

ASSUME MaxGen \in Nat \ {0}

VARIABLES
    declared,   \* NfDeploy.Spec.Sites on the API server
    gen,        \* NfDeploy.Generation
    handled,    \* the generation of the last reconcile request taken
    inflight    \* goroutines started and not yet past deploymentMu

hvars == <<vars, declared, gen, handled, inflight>>

Goroutines == [gen : 1..MaxGen, topo : Topologies]

HandoffInit ==
    /\ Init
    /\ declared \in Topologies
    /\ gen = 1
    /\ handled = 0
    /\ inflight = {}

\* The user changes the spec: a new generation, which passes
\* GenerationChangedPredicate and queues a reconcile request.
UserEdit(t) ==
    /\ gen < MaxGen
    /\ declared' = t
    /\ gen' = gen + 1
    /\ UNCHANGED <<vars, handled, inflight>>

\* Reconcile of the queued request, hydration and status write succeeding:
\* the goroutine started at its end carries the topology read at its top.
Reconcile ==
    /\ handled < gen
    /\ handled' = gen
    /\ inflight' = inflight \cup {[gen |-> gen, topo |-> declared]}
    /\ UNCHANGED <<vars, declared, gen>>

\* One goroutine takes deploymentMu and applies its topology.
RunReport(g) ==
    /\ g \in inflight
    /\ ReportNFDeployEvent(g.topo)
    /\ inflight' = inflight \ {g}
    /\ UNCHANGED <<declared, gen, handled>>

\* The Deployment's steps other than topology updates.
DeploymentStep ==
    /\ \/ \E i \in DOMAIN spec, r \in EventReports : NFReport(spec[i], r)
       \/ \E e \in pending : \/ DropUntracked(e) \/ DropStale(e)
                             \/ DropAmbiguous(e) \/ ApplyEvent(e)
    /\ UNCHANGED <<declared, gen, handled, inflight>>

HandoffNext ==
    \/ \E t \in Topologies : UserEdit(t)
    \/ Reconcile
    \/ \E g \in inflight : RunReport(g)
    \/ DeploymentStep

HandoffSpec == HandoffInit /\ [][HandoffNext]_hvars

-----------------------------------------------------------------------------

HandoffTypeOK ==
    /\ TypeOK
    /\ declared \in Topologies
    /\ gen \in 1..MaxGen
    /\ handled \in 0..gen
    /\ inflight \subseteq Goroutines

\* Once the newest generation has been reconciled and every goroutine has
\* run, the graph tracks exactly the NFs of that generation's topology
\* (spec: the node-id set equals the ids declared in the most recent
\* topology).  The goroutines started by successive reconciles are not
\* ordered, so this is about the `go' statement of Reconcile.
GraphTracksLatestGeneration ==
    (handled = gen /\ inflight = {}) =>
      \A p \in Partitions :
        DOMAIN nodes[p] = {declared[i].id : i \in {j \in DOMAIN declared : declared[j].type = p}}

=============================================================================
