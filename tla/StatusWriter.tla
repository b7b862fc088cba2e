---------------------------- MODULE StatusWriter ----------------------------
(***************************************************************************)
(* The NfDeploy status on the API server and its two writers.              *)
(*                                                                         *)
(*  - The deployment's listener: updateNFDeployStatus (status.go) writes   *)
(*    the counts and four conditions computed by processNFEdgeEvent, or    *)
(*    the all-Unknown conditions of updateSubscriptionFailureCondition.    *)
(*  - The reconciler: setNfDeployStatus (nfdeploy_controller.go) writes    *)
(*    the fixed condition maps of setInitialStatus and                     *)
(*    setHydration{Success,Failure}Status.                                 *)
(*                                                                         *)
(* Both run a RetryOnConflict loop: Get, stamp the condition timestamps    *)
(* against what was read, Update; the Update fails with a conflict when    *)
(* the object's resourceVersion moved since the Get.  The Get and the      *)
(* Update are separate steps, so the other writer can run in between.     *)
(* The conditions a writer stamps are held across attempts (the caller's  *)
(* pointers, the reconciler's condMap), so an attempt sees what the       *)
(* previous one stamped.                                                   *)
(*                                                                         *)
(* A condition's reason stands for its reason and message (the code       *)
(* compares them together); a timestamp is the value of the clock `now`,  *)
(* which every Get advances (time.Now() is taken once per attempt).       *)
(***************************************************************************)
EXTENDS Naturals, FiniteSets

CONSTANTS
    Reasons,          \* reasons (with their messages) a listener write may carry
    ListenerInputs,   \* the aggregates processNFEdgeEvent may hand to the writer
    RetrySteps,       \* retry.DefaultRetry.Steps
    MaxListenerWrites,\* bound on listener writes
    MaxReconciles,    \* bound on Reconcile runs
    MaxGeneration,    \* bound on spec edits by the user
    ControllerWrites, \* FALSE: the reconciler is left out
    ListenerWrites    \* FALSE: the listener is left out

CondTypes == {"Stalled", "Ready", "Peering", "Reconciling"}
CondStatus == {"True", "False", "Unknown"}

\* The condition maps of setInitialStatus, setHydrationSuccessStatus and
\* setHydrationFailureStatus: status and reason, no timestamps.
C(s, r) == [status |-> s, reason |-> r, ltt |-> 0, lut |-> 0]
InitialConds == [Reconciling |-> C("True", "NewVersionAvailable"),
                 Stalled |-> C("False", ""), Peering |-> C("Unknown", ""),
                 Ready |-> C("Unknown", "")]
SuccessConds == [InitialConds EXCEPT !.Reconciling = C("True", "AwaitingApproval")]
FailureConds == [Reconciling |-> C("False", "Stalled"),
                 Stalled |-> C("True", "HydrationFailure"),
                 Peering |-> C("Unknown", ""), Ready |-> C("Unknown", "")]

\* updateSubscriptionFailureCondition: all Unknown, zero counts, both
\* timestamps preset to the time of the call.
ZeroCounts == [targeted |-> 0, ready |-> 0, available |-> 0, stalled |-> 0]
FailureInput(time) ==
    [counts |-> ZeroCounts,
     conds |-> [t \in CondTypes |-> [status |-> "Unknown", reason |-> "EdgeConnectionFailure",
                                     ltt |-> time, lut |-> time]]]

VARIABLES
    obj,       \* the NfDeploy: [rv, gen, observed, counts, conds]; conds is
               \* a function from the condition types present
    now,       \* the clock time.Now() reads
    lpc, lcur, lcounts, lread, ltries, lwrites,           \* listener
    cpc, cstage, cmap, cgen, cread, ctries, cwant, crec, \* reconciler
    finalized, \* the finalizer has been added
    lastCounts \* history: the counts of the last successful listener write

lvars == <<lpc, lcur, lcounts, lread, ltries, lwrites>>
cvars == <<cpc, cstage, cmap, cgen, cread, ctries, cwant, crec>>
vars == <<obj, now, lvars, cvars, finalized, lastCounts>>

Conds == [status : CondStatus, reason : Reasons, ltt : Nat, lut : Nat]

\* areNFDeployStatusConditionsEqual: status, reason and message.
SameCond(a, b) == a.status = b.status /\ a.reason = b.reason

-----------------------------------------------------------------------------
(* The timestamp rules of the two writers. *)

\* computeSingleNFDeployStatusConditionChange for one condition `cur`
\* against the persisted conditions `conds`.  In the equal case the code
\* only reassigns its local pointer, so the caller's condition stays as it
\* was: `cur` is returned unchanged.
computeSingleNFDeployStatusConditionChange(conds, t, cur, time) ==
    IF t \notin DOMAIN conds THEN [cur EXCEPT !.ltt = time, !.lut = time]
    ELSE IF SameCond(cur, conds[t]) THEN cur
    ELSE IF cur.status = conds[t].status
         THEN [cur EXCEPT !.ltt = conds[t].ltt, !.lut = time]
    ELSE [cur EXCEPT !.ltt = time, !.lut = time]

\* The loop of setNfDeployStatus over the persisted conditions: for each
\* one, its entry of condMap gets LastTransitionTime if the status moved
\* and LastUpdateTime if anything moved; other entries are left as they are.
StampCondMap(m, conds, time) ==
    [t \in DOMAIN m |->
        IF t \notin DOMAIN conds THEN m[t]
        ELSE LET c == conds[t] IN
             [m[t] EXCEPT !.ltt = IF c.status # m[t].status THEN time ELSE @,
                          !.lut = IF ~SameCond(c, m[t]) THEN time ELSE @]]

\* Mutant: the status rebuilt from scratch, dropping the counts.
ControllerStatusFresh(read, gen, m) ==
    [read EXCEPT !.observed = gen, !.counts = ZeroCounts, !.conds = m]

\* setNfDeployStatus: only ObservedGeneration and Conditions change.
ControllerStatus(read, gen, m) == [read EXCEPT !.observed = gen, !.conds = m]

\* updateNFDeployStatus: ObservedGeneration kept from the read, the
\* counts and the four conditions replaced.
ListenerStatus(read, counts, cs) == [read EXCEPT !.counts = counts, !.conds = cs]

-----------------------------------------------------------------------------
Init ==
    /\ obj = [rv |-> 1, gen |-> 1, observed |-> 0, counts |-> ZeroCounts,
              conds |-> [t \in {} |-> C("Unknown", "")]]
    /\ now = 1
    /\ lpc = "idle" /\ lcur = InitialConds /\ lcounts = ZeroCounts
    /\ lread = obj /\ ltries = 0 /\ lwrites = 0
    /\ cpc = "idle" /\ cstage = "initial" /\ cmap = InitialConds /\ cgen = 0
    /\ cread = obj /\ ctries = 0 /\ cwant = TRUE /\ crec = 0
    /\ finalized = FALSE
    /\ lastCounts = ZeroCounts

-----------------------------------------------------------------------------
(* The listener's writes.  processEdgeEvent holds deploymentMu across the  *)
(* whole write, so one listener write runs at a time.                      *)

\* processNFEdgeEvent calls updateNFDeployStatus with freshly computed
\* conditions (no timestamps); updateSubscriptionFailureCondition with
\* all-Unknown conditions stamped with the time of the call.
LStart(in) ==
    /\ ListenerWrites /\ lpc = "idle" /\ lwrites < MaxListenerWrites
    /\ lpc' = "get" /\ lcur' = in.conds /\ lcounts' = in.counts
    /\ ltries' = 0 /\ lwrites' = lwrites + 1
    /\ UNCHANGED <<obj, now, lread, cvars, finalized, lastCounts>>

\* One attempt of the RetryOnConflict closure: Get, then
\* computeSingleNFDeployStatusConditionChange for each condition.
LGet ==
    /\ lpc = "get"
    /\ lread' = obj
    /\ lcur' = [t \in CondTypes |->
                  computeSingleNFDeployStatusConditionChange(obj.conds, t, lcur[t], now)]
    /\ now' = now + 1
    /\ lpc' = "update"
    /\ UNCHANGED <<obj, lcounts, ltries, lwrites, cvars, finalized, lastCounts>>

\* statusWriter.Update succeeds: nothing was written since the Get.
LUpdateOk ==
    /\ lpc = "update" /\ obj.rv = lread.rv
    /\ obj' = [ListenerStatus(lread, lcounts, lcur) EXCEPT !.rv = obj.rv + 1]
    /\ lastCounts' = lcounts
    /\ lpc' = "idle"
    /\ UNCHANGED <<now, lcur, lcounts, lread, ltries, lwrites, cvars, finalized>>

\* Mutant: one attempt more than the retry policy allows.
LConflictOffByOne ==
    /\ lpc = "update" /\ obj.rv # lread.rv
    /\ ltries' = ltries + 1
    /\ lpc' = IF ltries + 1 <= RetrySteps THEN "get" ELSE "idle"
    /\ UNCHANGED <<obj, now, lcur, lcounts, lread, lwrites, cvars, finalized, lastCounts>>

\* Conflict: retried with a fresh Get until DefaultRetry's steps run out;
\* then the error reaches processNFEdgeEvent, which only logs it.
LConflict ==
    /\ lpc = "update" /\ obj.rv # lread.rv
    /\ ltries' = ltries + 1
    /\ lpc' = IF ltries + 1 < RetrySteps THEN "get" ELSE "idle"
    /\ UNCHANGED <<obj, now, lcur, lcounts, lread, lwrites, cvars, finalized, lastCounts>>

-----------------------------------------------------------------------------
(* The reconciler.  Reconcile runs for one NfDeploy at a time.            *)

\* Reconcile: Get (the generation), manageNfDeployFinalizer (adds the
\* finalizer once, an Update of the object), then setInitialStatus.
CReconcile ==
    /\ ControllerWrites /\ cpc = "idle" /\ cwant /\ crec < MaxReconciles
    /\ crec' = crec + 1 /\ cwant' = FALSE
    /\ cgen' = obj.gen
    /\ IF finalized THEN UNCHANGED <<obj, finalized>>
       ELSE obj' = [obj EXCEPT !.rv = @ + 1] /\ finalized' = TRUE
    /\ cmap' = InitialConds /\ cstage' = "initial"
    /\ cpc' = "get" /\ ctries' = 0
    /\ UNCHANGED <<now, cread, lvars, lastCounts>>

\* One attempt of setNfDeployStatus: Get, stamp condMap against it.
CGet ==
    /\ cpc = "get"
    /\ cread' = obj
    /\ cmap' = StampCondMap(cmap, obj.conds, now)
    /\ now' = now + 1
    /\ cpc' = "update"
    /\ UNCHANGED <<obj, cstage, cgen, ctries, cwant, crec, lvars, finalized, lastCounts>>

\* Status().Update succeeds.  After setInitialStatus, hydration succeeds
\* or fails and the matching status is written next; after that,
\* Reconcile returns (an error, and so a requeue, on hydration failure); a
\* request an edit queued during the reconcile stays queued.
CUpdateOk ==
    /\ cpc = "update" /\ obj.rv = cread.rv
    /\ obj' = [ControllerStatus(cread, cgen, cmap) EXCEPT !.rv = obj.rv + 1]
    /\ IF cstage = "initial"
       THEN \E ok \in BOOLEAN :
              /\ cmap' = IF ok THEN SuccessConds ELSE FailureConds
              /\ cstage' = IF ok THEN "success" ELSE "failure"
              /\ cpc' = "get" /\ ctries' = 0
              /\ UNCHANGED cwant
       ELSE /\ cpc' = "idle" /\ cwant' = (cwant \/ cstage = "failure")
            /\ UNCHANGED <<cmap, cstage, ctries>>
    /\ UNCHANGED <<now, cgen, cread, crec, lvars, finalized, lastCounts>>

\* Conflict: retried; when the steps run out Reconcile returns the error
\* and is requeued.
CConflict ==
    /\ cpc = "update" /\ obj.rv # cread.rv
    /\ ctries' = ctries + 1
    /\ IF ctries + 1 < RetrySteps THEN cpc' = "get" /\ UNCHANGED cwant
       ELSE cpc' = "idle" /\ cwant' = TRUE
    /\ UNCHANGED <<obj, now, cstage, cmap, cgen, cread, crec, lvars, finalized, lastCounts>>

\* The user edits the spec: a new generation, which triggers Reconcile
\* (GenerationChangedPredicate).
UserEdit ==
    /\ ControllerWrites /\ obj.gen < MaxGeneration
    /\ obj' = [obj EXCEPT !.gen = @ + 1, !.rv = @ + 1]
    /\ cwant' = TRUE
    /\ UNCHANGED <<now, cpc, cstage, cmap, cgen, cread, ctries, crec, lvars,
                   finalized, lastCounts>>

Next ==
    \/ \E in \in ListenerInputs : LStart(in)
    \/ LStart(FailureInput(now))
    \/ LGet \/ LUpdateOk \/ LConflict
    \/ CReconcile \/ CGet \/ CUpdateOk \/ CConflict
    \/ UserEdit

Spec == Init /\ [][Next]_vars

-----------------------------------------------------------------------------
(* Properties *)

TypeOK ==
    /\ obj.rv \in Nat /\ obj.gen \in 1..MaxGeneration /\ obj.observed \in 0..MaxGeneration
    /\ DOMAIN obj.conds \subseteq CondTypes
    /\ \A t \in DOMAIN obj.conds : obj.conds[t] \in Conds
    /\ \A t \in CondTypes : lcur[t] \in Conds /\ cmap[t] \in Conds
    /\ lpc \in {"idle", "get", "update"} /\ cpc \in {"idle", "get", "update"}
    /\ ltries \in 0..RetrySteps /\ ctries \in 0..RetrySteps

\* Neither writer loses what the other wrote: the counts on the server are
\* those of the last successful updateNFDeployStatus, even after the
\* reconciler has rewritten the conditions in between (setNfDeployStatus
\* must carry the counts over from its Get, and its Update must not land
\* on a status it did not read).
NoLostUpdate == obj.counts = lastCounts

\* The timestamp rules of the status writer: for every condition an
\* Update writes, a condition that was absent gets both timestamps, an
\* unchanged status keeps LastTransitionTime, an unchanged status, reason
\* and message keep LastUpdateTime, and a changed status gets a newer
\* LastTransitionTime.
ConditionTimestampsFollowChanges ==
    [][obj'.conds # obj.conds =>
        \A t \in DOMAIN obj'.conds :
          LET n == obj'.conds[t] IN
          IF t \notin DOMAIN obj.conds THEN n.ltt # 0 /\ n.lut # 0
          ELSE LET o == obj.conds[t] IN
               /\ n.status = o.status => n.ltt = o.ltt
               /\ SameCond(n, o) => n.lut = o.lut
               /\ n.status # o.status => n.ltt > o.ltt]_vars

=============================================================================
