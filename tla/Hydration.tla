----------------------------- MODULE Hydration -----------------------------
(***************************************************************************)
(* The package side of the NfDeploy reconciler (nfdeploy_controller.go):  *)
(* Reconcile's finalizer handling (manageNfDeployFinalizer,               *)
(* handleResourceDeletion) and its hydration pipeline (Hydrate, then      *)
(* CreateNFDeployActuators, in hydration/hydration.go), for one NfDeploy. *)
(*                                                                         *)
(* The package service (porch) is the external store: the deploy package  *)
(* of each cluster (one per cluster and NfDeploy name, NewNamingContext)  *)
(* and the actuator package of each cluster and vendor NF key, shared by  *)
(* every NfDeploy.  Each of its calls may fail; a failure ends the loop   *)
(* that made it, after the calls before it took effect.  Reconcile runs   *)
(* one request at a time for an object and is requeued when it returns an *)
(* error; the user edits or deletes the NfDeploy at any time.  Status     *)
(* writes are the subject of StatusWriter; here they succeed and only the *)
(* reason and observed generation are kept.                               *)
(***************************************************************************)
EXTENDS Naturals, FiniteSets, Profiles

CONSTANTS
    Clusters,   \* edge cluster names
    Specs,      \* the site sets (NfDeploy.Spec.Sites) the user may declare
    MaxGen,     \* bound on generations
    MaxRestarts \* bound on restarts of the controller process

\* processSite's switch: the NF types with a hydration; any other is an error.
HandledTypes == {"upf", "smf", "ausf", "udm"}
SiteRecs == [cluster : Clusters, type : HandledTypes \cup {"amf"}]

ASSUME /\ Specs \subseteq SUBSET SiteRecs
       /\ MaxGen \in Nat \ {0}
       /\ MaxRestarts \in Nat

VARIABLES
    obj,       \* the NfDeploy in the API server: gen, sites, finalizer, deleting
    exists,    \* the NfDeploy has not been removed
    queued,    \* a reconcile request is pending
    pc,        \* the reconciler: "idle", "fin", "hydrate", "actuate"
    cp,        \* Reconcile's copy of the sites (r.Get at the top of Reconcile)
    cgen,      \* ... and of the generation
    pkgs,      \* clusters holding this NfDeploy's deploy package
    acts,      \* actuator packages, <<cluster, NF type>>
    status,    \* reason of the Reconciling condition last written
    observed,  \* Status.ObservedGeneration last written
    restarts   \* restarts of the controller process so far

vars == <<obj, exists, queued, pc, cp, cgen, pkgs, acts, status, observed, restarts>>

Statuses == {"None", "NewVersionAvailable", "AwaitingApproval", "Stalled"}

\* The clusters of a site list (the cluster set of Hydrate's packageContents
\* and of handleResourceDeletion's clusterMap).
ClustersOf(sites) == {s.cluster : s \in sites}

\* clusterVendorNFsMap of CreateNFDeployActuators, flattened: one key per
\* cluster and NF type (vendor and version are fixed in the model).
VendorNFKeys(sites) == {<<s.cluster, s.type>> : s \in sites}

\* A loop over xs that stops at a failing call leaves a part that does not
\* contain the failing element: any proper subset of xs.
FailedPart(xs) == (SUBSET xs) \ {xs}

Init ==
    /\ \E s \in Specs :
         obj = [gen |-> 1, sites |-> s, finalizer |-> FALSE, deleting |-> FALSE]
    /\ exists = TRUE
    /\ queued = TRUE
    /\ pc = "idle" /\ cp = {} /\ cgen = 0
    /\ pkgs = {} /\ acts = {}
    /\ status = "None" /\ observed = 0
    /\ restarts = 0

-----------------------------------------------------------------------------
(* The reconciler *)

\* Mutant: the error swallowed (ctrl.Result{} and a nil error), no requeue.
RequeueLost == pc' = "idle" /\ UNCHANGED queued

\* Reconcile: the reconciler fails with a requeue.
Requeue == pc' = "idle" /\ queued' = TRUE

\* Reconcile, r.Get: NotFound is ignored; otherwise the object is copied.
CStart ==
    /\ pc = "idle" /\ queued
    /\ queued' = FALSE
    /\ IF exists THEN pc' = "fin" /\ cp' = obj.sites /\ cgen' = obj.gen
                 ELSE UNCHANGED <<pc, cp, cgen>>
    /\ UNCHANGED <<obj, exists, pkgs, acts, status, observed, restarts>>

\* manageNfDeployFinalizer's Get finds the object gone: an error.
CFinGone ==
    /\ pc = "fin" /\ ~exists
    /\ Requeue
    /\ UNCHANGED <<obj, exists, cp, cgen, pkgs, acts, status, observed, restarts>>

\* Mutant: AddFinalizer applied to the fetched copy, and r.Update not called.
CAddFinalizerNotSaved ==
    /\ pc = "fin" /\ exists /\ ~obj.deleting
    /\ status' = "NewVersionAvailable" /\ observed' = cgen
    /\ pc' = "hydrate"
    /\ UNCHANGED <<obj, exists, queued, cp, cgen, pkgs, acts, restarts>>

\* manageNfDeployFinalizer, object not being deleted: the finalizer is
\* added if missing; then Reconcile writes setInitialStatus.
CAddFinalizer ==
    /\ pc = "fin" /\ exists /\ ~obj.deleting
    /\ obj' = [obj EXCEPT !.finalizer = TRUE]
    /\ status' = "NewVersionAvailable" /\ observed' = cgen
    /\ pc' = "hydrate"
    /\ UNCHANGED <<exists, queued, cp, cgen, pkgs, acts, restarts>>

\* manageNfDeployFinalizer, object being deleted: handleResourceDeletion
\* deletes the deploy package of every cluster of the fresh object; the
\* finalizer is removed, and the API server removes the object.
CDeleteOk ==
    /\ pc = "fin" /\ exists /\ obj.deleting
    /\ pkgs' = pkgs \ ClustersOf(obj.sites)
    /\ obj' = [obj EXCEPT !.finalizer = FALSE]
    /\ exists' = FALSE
    /\ pc' = "idle"
    /\ UNCHANGED <<queued, cp, cgen, acts, status, observed, restarts>>

\* Mutant: the error of handleResourceDeletion returned without a requeue.
CDeleteFailNoRequeue ==
    /\ pc = "fin" /\ exists /\ obj.deleting
    /\ \E done \in FailedPart(ClustersOf(obj.sites)) : pkgs' = pkgs \ done
    /\ pc' = "idle"
    /\ UNCHANGED <<obj, exists, queued, cp, cgen, acts, status, observed, restarts>>

\* handleResourceDeletion, DeleteDeployPackage fails for a cluster: the
\* packages deleted before it are gone, the finalizer stays, Reconcile
\* returns the error.
CDeleteFail ==
    /\ pc = "fin" /\ exists /\ obj.deleting
    /\ \E done \in FailedPart(ClustersOf(obj.sites)) : pkgs' = pkgs \ done
    /\ Requeue
    /\ UNCHANGED <<obj, exists, cp, cgen, acts, status, observed, restarts>>

\* Mutant: the Stalled condition's reason written as the Reconciling one.
HydrationFailedReasonSwapped == status' = "HydrationFailure" /\ observed' = cgen /\ Requeue

\* setHydrationFailureStatus, then Reconcile returns the error.
HydrationFailed == status' = "Stalled" /\ observed' = cgen /\ Requeue

\* processSite: the outcomes for a site; a type without a hydration is an
\* error.
processSite(s) == IF s.type \in HandledTypes THEN GenerateNfTypeDeploy(s) ELSE {"err"}

\* Hydrate: processSite succeeds for every site, then CreateDeployPackage
\* succeeds for every cluster.
CHydrateOk ==
    /\ pc = "hydrate"
    /\ \A s \in cp : "ok" \in processSite(s)
    /\ pkgs' = pkgs \cup ClustersOf(cp)
    /\ pc' = "actuate"
    /\ UNCHANGED <<obj, exists, queued, cp, cgen, acts, status, observed, restarts>>

\* Hydrate fails: processSite fails for some site (all sites are processed,
\* then Hydrate returns before writing any package); or CreateDeployPackage
\* fails for some cluster, after the packages of the clusters before it
\* were written.
CHydrateFail ==
    /\ pc = "hydrate"
    /\ \/ \E s \in cp : "err" \in processSite(s) /\ UNCHANGED pkgs
       \/ /\ \A s \in cp : "ok" \in processSite(s)
          /\ \E done \in FailedPart(ClustersOf(cp)) : pkgs' = pkgs \cup done
    /\ HydrationFailed
    /\ UNCHANGED <<obj, exists, cp, cgen, acts, restarts>>

\* processSite panics for a site (GetInterfaceProfile): nothing recovers it
\* in the controller, so the process exits and restarts as in Restart.
\* Hydrate runs processSite for every site before writing any package.
CHydratePanic ==
    /\ pc = "hydrate"
    /\ \E s \in cp : "panic" \in processSite(s)
    /\ pc' = "idle"
    /\ queued' = exists
    /\ UNCHANGED <<obj, exists, cp, cgen, pkgs, acts, status, observed, restarts>>

\* Mutant: the result of CreateNFDeployActuators not checked.
CActuateOkUnchecked ==
    /\ pc = "actuate"
    /\ \E done \in SUBSET VendorNFKeys(cp) : acts' = acts \cup done
    /\ status' = "AwaitingApproval" /\ observed' = cgen
    /\ pc' = "idle"
    /\ UNCHANGED <<obj, exists, queued, cp, cgen, pkgs, restarts>>

\* CreateNFDeployActuators creates (or finds) the actuator package of every
\* key; setHydrationSuccessStatus reports AwaitingApproval.
CActuateOk ==
    /\ pc = "actuate"
    /\ acts' = acts \cup VendorNFKeys(cp)
    /\ status' = "AwaitingApproval" /\ observed' = cgen
    /\ pc' = "idle"
    /\ UNCHANGED <<obj, exists, queued, cp, cgen, pkgs, restarts>>

\* CreateNFDeployActuators fails for some key, after the keys before it.
CActuateFail ==
    /\ pc = "actuate"
    /\ \E done \in FailedPart(VendorNFKeys(cp)) : acts' = acts \cup done
    /\ HydrationFailed
    /\ UNCHANGED <<obj, exists, cp, cgen, pkgs, restarts>>

\* The controller process restarts (a crash, a panic, a rescheduled pod):
\* the reconcile in progress and the work queue are lost; on start the
\* informer lists the NfDeploy again, and its Create event, which
\* GenerationChangedPredicate lets through, queues a request.
Restart ==
    /\ restarts < MaxRestarts
    /\ restarts' = restarts + 1
    /\ pc' = "idle"
    /\ queued' = exists
    /\ UNCHANGED <<obj, exists, cp, cgen, pkgs, acts, status, observed>>

-----------------------------------------------------------------------------
(* The user *)

\* A spec change bumps the generation (GenerationChangedPredicate lets the
\* request through).
UserEdit(s) ==
    /\ exists /\ ~obj.deleting /\ obj.gen < MaxGen
    /\ obj' = [obj EXCEPT !.sites = s, !.gen = @ + 1]
    /\ queued' = TRUE
    /\ UNCHANGED <<exists, pc, cp, cgen, pkgs, acts, status, observed, restarts>>

\* Deletion: with the finalizer the object is marked and reconciled,
\* without it the API server removes it at once.
UserDelete ==
    /\ exists /\ ~obj.deleting
    /\ IF obj.finalizer
       THEN obj' = [obj EXCEPT !.deleting = TRUE] /\ queued' = TRUE /\ UNCHANGED exists
       ELSE exists' = FALSE /\ UNCHANGED <<obj, queued>>
    /\ UNCHANGED <<pc, cp, cgen, pkgs, acts, status, observed, restarts>>

Next ==
    \/ CStart \/ CFinGone \/ CAddFinalizer \/ CDeleteOk \/ CDeleteFail
    \/ CHydrateOk \/ CHydrateFail \/ CHydratePanic \/ CActuateOk \/ CActuateFail
    \/ Restart
    \/ \E s \in Specs : UserEdit(s)
    \/ UserDelete

\* controller-runtime runs a queued request and requeues a failed one, so
\* every reconciler step that stays enabled is taken.  The package service
\* is assumed not to fail forever: a call retried again and again
\* eventually succeeds (for a site whose hydration can succeed).
Spec == Init /\ [][Next]_vars
        /\ WF_vars(CStart) /\ WF_vars(CFinGone) /\ WF_vars(CAddFinalizer)
        /\ WF_vars(CDeleteOk \/ CDeleteFail) /\ SF_vars(CDeleteOk)
        /\ WF_vars(CHydrateOk \/ CHydrateFail) /\ SF_vars(CHydrateOk)
        /\ WF_vars(CActuateOk \/ CActuateFail) /\ SF_vars(CActuateOk)

-----------------------------------------------------------------------------
(* Properties *)

TypeOK ==
    /\ obj \in [gen : 1..MaxGen, sites : Specs, finalizer : BOOLEAN, deleting : BOOLEAN]
    /\ exists \in BOOLEAN /\ queued \in BOOLEAN
    /\ pc \in {"idle", "fin", "hydrate", "actuate"}
    /\ cp \in Specs \cup {{}} /\ cgen \in 0..MaxGen
    /\ pkgs \subseteq Clusters /\ acts \subseteq Clusters \X (HandledTypes \cup {"amf"})
    /\ status \in Statuses /\ observed \in 0..MaxGen
    /\ restarts \in 0..MaxRestarts

\* A deploy package exists only while the NfDeploy carries the finalizer
\* (or is gone): Reconcile adds the finalizer before it hydrates, so a
\* deletion can never remove the object without handleResourceDeletion
\* running first.
PackagesProtectedByFinalizer ==
    exists /\ pkgs # {} => obj.finalizer

\* When the status reports AwaitingApproval for the current generation of
\* a live NfDeploy, every cluster of its spec holds the deploy package and
\* every cluster and NF type its actuator package: a partial failure of
\* Hydrate or CreateNFDeployActuators is never reported as success, even
\* when a reconcile of an older copy finishes after the user's edit.
SuccessStatusTruthful ==
    (exists /\ ~obj.deleting /\ status = "AwaitingApproval" /\ observed = obj.gen)
      => /\ ClustersOf(obj.sites) \subseteq pkgs
         /\ VendorNFKeys(obj.sites) \subseteq acts

\* A deletion request is eventually carried out: the reconciler retries
\* handleResourceDeletion until it succeeds and the object is removed.
DeletionCompletes == (exists /\ obj.deleting) ~> ~exists

\* The sites processSite can hydrate.
Hydratable(sites) == \A s \in sites : "ok" \in processSite(s)

\* A live NfDeploy whose sites can all be hydrated eventually shows
\* AwaitingApproval for its current generation, unless it is deleted or
\* edited to sites that cannot be: every failed reconcile is requeued and
\* every edit queues a request, so neither a failure of the package service
\* nor an edit during a reconcile, nor a restart of the controller, leaves the status at an older generation
\* or at Stalled.
HydrationCompletes ==
    (exists /\ ~obj.deleting /\ Hydratable(obj.sites))
      ~> \/ ~exists \/ obj.deleting \/ ~Hydratable(obj.sites)
         \/ status = "AwaitingApproval" /\ observed = obj.gen

\* Once the NfDeploy is removed, none of its deploy packages remains on
\* any cluster (the purpose of the finalizer and handleResourceDeletion).
NoOrphanPackages == ~exists => pkgs = {}

=============================================================================
