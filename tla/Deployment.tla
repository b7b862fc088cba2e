----------------------------- MODULE Deployment -----------------------------
(***************************************************************************)
(* One Deployment of deployment/Deployment.go: its in-memory graph (one   *)
(* node map per NF type, the edge list), the topology updates of          *)
(* ReportNFDeployEvent, and the edge events of processEdgeEvent with the  *)
(* aggregated status write of processNFEdgeEvent.  Both handlers hold     *)
(* deploymentMu for their whole run, so each is one atomic step.         *)
(*                                                                         *)
(* The NFs on the edge are the environment: each NF of the declared       *)
(* topology may report a new status at any time; the edge watcher         *)
(* delivers the reports in any order and may deliver one twice.           *)
(***************************************************************************)
EXTENDS NFStatus, Aggregate, CRDSet, Naturals, Sequences, SequencesExt

CONSTANTS
    Ids,            \* NF site ids
    Topologies,     \* the topologies (NfDeploy.Spec.Sites) the user may declare
    EventReports,   \* the status documents an NF may report
    MaxClock,       \* bound on event timestamps
    TypeNames,      \* the NFTypeName values a site may declare
    CRDFiles        \* the CRD directory main reads at start, in walk order

SiteTypes == Partitions \cup {"amf"}
Sites == [id : Ids, type : SiteTypes, typeName : TypeNames, conns : Seq(Ids)]

ASSUME /\ EventReports \subseteq Reports
       /\ MaxClock \in Nat
       /\ \A t \in Topologies : \A i, j \in DOMAIN t : t[i].id = t[j].id => i = j

VARIABLES
    nodes,    \* nodes[p][id]: [conns, status, ts], p a partition
    edges,    \* deployment.edges, a sequence of <<FirstNode, SecondNode>>
    spec,     \* the topology last reported (NfDeploy.Spec.Sites)
    pending,  \* edge events sent and not yet delivered
    clock,    \* the latest timestamp an NF has put on a report
    stored,   \* the NfDeploy status held by the API server
    emitted   \* history: the events sent to the current incarnation of each node

vars == <<nodes, edges, spec, pending, clock, stored, emitted>>

Events == [kind : Partitions, id : Ids, report : EventReports, ts : 1..MaxClock]

NodeRecs == [conns : SUBSET Ids, status : NFStatusRecs, ts : 0..MaxClock, intent : STRING]

\* The status the controller wrote before handing the topology over
\* (setHydrationSuccessStatus): no counts, Reconciling True.
NoMsg == Msg("", {})
InitialStored ==
    [targeted |-> 0, ready |-> 0, available |-> 0, stalled |-> 0,
     conds |-> [Stalled |-> Cond("False", "", NoMsg),
                Ready |-> Cond("Unknown", "", NoMsg),
                Peering |-> Cond("Unknown", "", NoMsg),
                Reconciling |-> Cond("True", "AwaitingApproval", NoMsg)]]

\* The CRD set the deployment reads its intents from.
CRDs == ReadCRDFiles(CRDFiles)

\* The intent the upf and smf nodes take from the CRD set (the throughput
\* or maxSessions); the other types have none.
IntentTypes == {"upf", "smf"}
GetIntent(type, typeName) ==
    IF type = "upf" THEN GetUPFIntent(CRDs, typeName) ELSE GetSMFIntent(CRDs, typeName)

-----------------------------------------------------------------------------
(* Graph operations.  g is [nodes, edges] while a topology is applied.   *)

\* Edge.IsEqual: an edge matches a pair of ids in either order.
IsEqual(edge, a, b) == {edge[1], edge[2]} = {a, b}

\* getNFType: the first partition, in the order of the Go checks, holding id.
getNFType(ns, id) ==
    LET hits == {i \in 1..4 : id \in DOMAIN ns[<<"upf", "smf", "ausf", "udm">>[i]]}
    IN  IF hits = {} THEN "unspecified"
        ELSE <<"upf", "smf", "ausf", "udm">>[Min(hits)]

\* addConnection: no-op for an id that is not tracked.
addConnection(ns, id, p, other) ==
    IF p = "unspecified" THEN ns
    ELSE [ns EXCEPT ![p][id].conns = @ \cup {other}]

\* createEdge
createEdge(g, a, b) ==
    IF \E i \in DOMAIN g.edges : IsEqual(g.edges[i], b, a) THEN g
    ELSE LET pa == getNFType(g.nodes, a)
             pb == getNFType(g.nodes, b)
         IN  [nodes |-> addConnection(addConnection(g.nodes, a, pa, b), b, pb, a),
              edges |-> Append(g.edges, <<a, b>>)]

\* removeEdge: drops the first matching edge.
removeEdge(es, a, b) == RemoveFirstMatch(es, LAMBDA e : IsEqual(e, a, b))

\* addOrUpdate{UPF,SMF,AUSF,UDM}Node: create the node if absent, with an
\* empty spec.  AMF sites are skipped (the case is commented out).  An upf
\* or smf node then takes the intent of the site's NFTypeName; when the
\* lookup fails it keeps the spec it had.  The cluster name, set only
\* when the node is created and never read, is left out.
NewNode(ns, site) ==
    IF site.type \in Partitions /\ site.id \notin DOMAIN ns[site.type]
    THEN [ns EXCEPT ![site.type] =
              @ @@ (site.id :> [conns |-> {}, status |-> ZeroStatus, ts |-> 0,
                                intent |-> ZeroValue])]
    ELSE ns

\* Mutant: the intent resolved only for a node that is created.
addOrUpdateNodeOnCreate(ns, site) ==
    LET r == GetIntent(site.type, site.typeName) IN
    IF site.type \in IntentTypes /\ r.ok /\ site.id \notin DOMAIN ns[site.type]
    THEN [NewNode(ns, site) EXCEPT ![site.type][site.id].intent = r.val]
    ELSE NewNode(ns, site)

\* Mutant: a failed lookup leaves the node with an empty spec.
addOrUpdateNodeResetOnFail(ns, site) ==
    LET r == GetIntent(site.type, site.typeName) IN
    IF site.type \in IntentTypes
    THEN [NewNode(ns, site) EXCEPT ![site.type][site.id].intent =
              IF r.ok THEN r.val ELSE ZeroValue]
    ELSE NewNode(ns, site)

addOrUpdateNode(ns, site) ==
    LET r == GetIntent(site.type, site.typeName) IN
    IF site.type \in IntentTypes /\ r.ok
    THEN [NewNode(ns, site) EXCEPT ![site.type][site.id].intent = r.val]
    ELSE NewNode(ns, site)

\* The declared connections, site by site, in the order of the Go loops.
DeclaredPairs(t) ==
    FlattenSeq([i \in DOMAIN t |-> [j \in DOMAIN t[i].conns |-> <<t[i].id, t[i].conns[j]>>]])

\* removeNFs: an entry whose id is undeclared or declared with another type
\* loses the edges to its connections, then the entry is deleted.
\* Mutant: an id counts as declared whatever type it is declared with.
IsStaleIdOnly(t, p, id) == ~\E i \in DOMAIN t : t[i].id = id
IsStale(t, p, id) == ~\E i \in DOMAIN t : t[i].id = id /\ t[i].type = p
\* Mutant: the stale entries are deleted without the loop over their
\* Connections that removes their edges.
removeNFsKeepEdges(g, t) ==
    [nodes |-> [p \in Partitions |->
                  [id \in {x \in DOMAIN g.nodes[p] : ~IsStale(t, p, x)} |-> g.nodes[p][id]]],
     edges |-> g.edges]
removeNFs(g, t) ==
    LET stale == {e \in Entries(g.nodes) : IsStale(t, e[1], e[2])}
        cut == UNION {{<<e[2], c>> : c \in g.nodes[e[1]][e[2]].conns} : e \in stale}
    IN  [nodes |-> [p \in Partitions |->
                      [id \in {x \in DOMAIN g.nodes[p] : <<p, x>> \notin stale} |->
                         g.nodes[p][id]]],
         edges |-> FoldSet(LAMBDA pr, es : removeEdge(es, pr[1], pr[2]), g.edges, cut)]

\* ReportNFDeployEvent: upsert every site, create every declared edge, prune.
ApplyTopology(g, t) ==
    LET up == FoldLeft(addOrUpdateNode, g.nodes, t)
        linked == FoldLeft(LAMBDA h, pr : createEdge(h, pr[1], pr[2]),
                           [nodes |-> up, edges |-> g.edges], DeclaredPairs(t))
    IN  removeNFs(linked, t)

-----------------------------------------------------------------------------
Init ==
    /\ nodes = [p \in Partitions |-> [id \in {} |-> ZeroStatus]]
    /\ edges = <<>>
    /\ spec = <<>>
    /\ pending = {}
    /\ clock = 0
    /\ stored = InitialStored
    /\ emitted = {}

\* The controller hands a (new) topology to the deployment.
ReportNFDeployEvent(t) ==
    LET g == ApplyTopology([nodes |-> nodes, edges |-> edges], t)
        same(e) == e.id \in DOMAIN nodes[e.kind] /\ e.id \in DOMAIN g.nodes[e.kind]
    IN  /\ nodes' = g.nodes
        /\ edges' = g.edges
        /\ spec' = t
        /\ emitted' = {e \in emitted : same(e)}
        /\ UNCHANGED <<pending, clock, stored>>

\* An NF of the declared topology reports its status (environment); every
\* report carries a timestamp later than all reports before it.
NFReport(site, r) ==
    /\ site.type \in Partitions
    /\ clock < MaxClock
    /\ LET e == [kind |-> site.type, id |-> site.id, report |-> r, ts |-> clock + 1]
       IN  /\ clock' = clock + 1
           /\ pending' = pending \cup {e}
           /\ emitted' = IF site.id \in DOMAIN nodes[site.type]
                         THEN emitted \cup {e} ELSE emitted
    /\ UNCHANGED <<nodes, edges, spec, stored>>

\* Delivery of e: removed from pending, or kept to be delivered again.
Deliver(e) == /\ e \in pending
              /\ pending' \in {pending \ {e}, pending}
              /\ UNCHANGED <<edges, spec, clock, emitted>>

Tracked(e) == e.id \in DOMAIN nodes[e.kind]

\* processEdgeEvent, NF not in the deployment: dropped.
DropUntracked(e) == Deliver(e) /\ ~Tracked(e) /\ UNCHANGED <<nodes, stored>>

\* processEdgeEvent, timestamp Before lastEventTimestamp: dropped.
DropStale(e) ==
    /\ Deliver(e) /\ Tracked(e)
    /\ e.ts < nodes[e.kind][e.id].ts
    /\ UNCHANGED <<nodes, stored>>

\* Mutant: the staleness guard left out.
AcceptedNoStaleGuard(e) == Deliver(e) /\ Tracked(e)

\* Accepted events first store their timestamp in the node.
Accepted(e) == Deliver(e) /\ Tracked(e) /\ ~(e.ts < nodes[e.kind][e.id].ts)

\* processNFEdgeEvent, ambiguous condition set: dropped after the timestamp
\* was stored.
DropAmbiguous(e) ==
    /\ Accepted(e)
    /\ isAmbiguousConditionSet(calculateNFConditionSet(e.report))
    /\ nodes' = [nodes EXCEPT ![e.kind][e.id].ts = e.ts]
    /\ UNCHANGED stored

\* processNFEdgeEvent: new NF status, then the aggregate is recomputed and
\* written; the write (updateNFDeployStatus with its retries) may fail for
\* good, leaving the stored status as it was.
ApplyEvent(e) ==
    LET c == calculateNFConditionSet(e.report) IN
    /\ Accepted(e)
    /\ ~isAmbiguousConditionSet(c)
    /\ nodes' = [nodes EXCEPT ![e.kind][e.id].ts = e.ts,
                              ![e.kind][e.id].status = updateCurrentNFStatus(c)]
    /\ stored' \in {AggregateStatus(nodes'), stored}

Next ==
    \/ \E t \in Topologies : ReportNFDeployEvent(t)
    \/ \E i \in DOMAIN spec, r \in EventReports : NFReport(spec[i], r)
    \/ \E e \in pending : \/ DropUntracked(e) \/ DropStale(e)
                          \/ DropAmbiguous(e) \/ ApplyEvent(e)

Spec == Init /\ [][Next]_vars

-----------------------------------------------------------------------------
(* Properties *)

TypeOK ==
    /\ DOMAIN nodes = Partitions
    /\ \A p \in Partitions : DOMAIN nodes[p] \subseteq Ids /\ \A id \in DOMAIN nodes[p] :
         nodes[p][id] \in NodeRecs
    /\ edges \in Seq(Ids \X Ids)
    /\ spec \in Seq(Sites)
    /\ \A e \in pending \cup emitted : e \in Events
    /\ clock \in 0..MaxClock

\* The report of E with the greatest timestamp.
Newest(E) == CHOOSE e \in E : \A f \in E : f.ts <= e.ts

\* Once every report sent has been delivered, each tracked NF shows the
\* status derived from the newest unambiguous report it sent: reports
\* delivered out of order or twice never leave an older status in place
\* (the staleness guard of processEdgeEvent against the delivery order).
NewestReportWins ==
    pending = {} =>
      \A p \in Partitions : \A id \in DOMAIN nodes[p] :
        LET E == {e \in emitted : /\ e.kind = p /\ e.id = id
                                  /\ ~isAmbiguousConditionSet(calculateNFConditionSet(e.report))}
        IN  E # {} => nodes[p][id].status =
                        updateCurrentNFStatus(calculateNFConditionSet(Newest(E).report))

\* The four conditions processNFEdgeEvent computes from counts agree with
\* what they claim about the set of NFs: Ready is True iff every NF is
\* Ready, Stalled iff some NF is, and Peering/Reconciling report "all
\* un-ready NFs are working" exactly when every NF is Ready or working.
\* The counting shortcut of computePeeringCondition and
\* computeReconcilingCondition is only sound if validateNFConditionSet
\* keeps Ready NFs out of the working sets.
AggregateAgreesWithGraph ==
    Entries(nodes) # {} =>
      LET a == AggregateStatus(nodes)
          all == Entries(nodes)
          ready == WithActive(nodes, "Ready")
          allWorking == [Peering |-> "AllUnPeeredNFsPeering",
                         Reconciling |-> "AllUnReconciledNFsReconciling"]
      IN  /\ a.conds.Ready.status = "True" <=> ready = all
          /\ a.conds.Stalled.status = "True" <=> WithActive(nodes, "Stalled") # {}
          /\ \A t \in {"Peering", "Reconciling"} :
               /\ a.conds[t].status = "True" <=> (ready # all /\ WithActive(nodes, t) # {})
               /\ a.conds[t].reason = allWorking[t] <=>
                    (ready # all /\ all \subseteq ready \cup WithActive(nodes, t))

\* The counts in the stored status come from one coherent snapshot: every
\* Ready NF is counted Available (the implied Available of
\* updateCurrentNFStatus) and no NF is counted both Ready and Stalled.
StoredCountsCoherent ==
    /\ stored.ready <= stored.available
    /\ stored.ready + stored.stalled <= stored.targeted

\* After a topology update the graph tracks exactly the declared NFs of
\* the modelled types, each under its declared type only, including an NF
\* whose type changed (re-added under the new type before removeNFs prunes
\* the old entry).
NodeSetMatchesSpec ==
    \A p \in Partitions :
      DOMAIN nodes[p] = {spec[i].id : i \in {j \in DOMAIN spec : spec[j].type = p}}

\* Every edge joins two tracked NFs and is recorded in the connections of
\* each of its ends (spec: an edge is symmetric; removing a site removes
\* all edges touching it).  removeNFs finds the edges of a pruned entry only
\* through its Connections, which createEdge fills only for an end that
\* is tracked at the time, and which may name NFs pruned earlier.
TrackedIds == UNION {DOMAIN nodes[p] : p \in Partitions}
EdgesJoinTrackedNodes ==
    \A i \in DOMAIN edges :
      /\ {edges[i][1], edges[i][2]} \subseteq TrackedIds
      /\ \A p \in Partitions : \A x \in DOMAIN nodes[p] \cap {edges[i][1], edges[i][2]} :
           {edges[i][1], edges[i][2]} \ {x} \subseteq nodes[p][x].conns

\* Every upf and smf node of the topology last applied carries the intent
\* its declared NFTypeName resolves to in the CRD set, also when the site
\* kept its id and type and changed its NFTypeName, or was re-typed; a
\* node whose NFTypeName does not resolve stays tracked (NodeSetMatchesSpec)
\* with the spec it had (spec 4.1, upsert and enrichment).
IntentMatchesDeclaredType ==
    \A i \in DOMAIN spec :
      LET s == spec[i]
          r == GetIntent(s.type, s.typeName)
      IN  (s.type \in IntentTypes /\ r.ok /\ s.id \in DOMAIN nodes[s.type])
            => nodes[s.type][s.id].intent = r.val

\* A topology update that declares a tracked upf or smf node under an
\* NFTypeName the CRD set cannot resolve leaves that node's intent as it
\* was (spec 4.1: the node remains with its prior spec); addOrUpdate*Node
\* returns after the failed lookup without touching the node it kept.
IntentKeptOnFailedLookup ==
    [][\A i \in DOMAIN spec' :
         LET s == spec'[i] IN
         (/\ s.type \in IntentTypes /\ ~GetIntent(s.type, s.typeName).ok
          /\ s.id \in DOMAIN nodes[s.type] /\ s.id \in DOMAIN nodes'[s.type])
           => nodes'[s.type][s.id].intent = nodes[s.type][s.id].intent]_vars

\* Reporting the topology that is already applied leaves the graph as it is
\* (spec: re-issuing an identical topology produces an identical graph).
ReissueIsIdempotent ==
    [][\A t \in Topologies :
         (spec = t /\ ReportNFDeployEvent(t)) => (edges' = edges /\ nodes' = nodes)]_vars

-----------------------------------------------------------------------------
(* Refinement: the graph, seen through each tracked NF's status and      *)
(* lastEventTimestamp, implements StatusPromise.                           *)

View == [nf \in Entries(nodes) |-> [status |-> nodes[nf[1]][nf[2]].status,
                                    ts |-> nodes[nf[1]][nf[2]].ts]]

Promise == INSTANCE StatusPromise
               WITH NFs <- Partitions \X Ids, NFReports <- EventReports,
                    MaxTime <- MaxClock, view <- View, now <- clock

\* Every step of the deployment is a step of StatusPromise: a topology
\* update keeps the status of every NF it retains, and an edge event only
\* ever moves an NF to the status of a strictly newer unambiguous report,
\* whatever the delivery order, duplicates, and re-created or re-typed NFs.
StatusPromiseHolds == Promise!Spec

=============================================================================
