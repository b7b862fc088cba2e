---------------------------- MODULE MCDeployment ----------------------------
(* Constants for checking Deployment: two NF sites u and s, topologies    *)
(* that add, remove and re-type a site, and reports that reach every      *)
(* branch of the per-NF state machine.                                    *)
EXTENDS Deployment, TLC

MCIds == {"u", "s"}

\* A site declared with the NFTypeName t1.
Site(id, type, conns) == [id |-> id, type |-> type, typeName |-> "t1", conns |-> conns]

\* u (upf) and s (smf), connected both ways, as admission requires
UpfSmf == <<Site("u", "upf", <<"s">>), Site("s", "smf", <<"u">>)>>
\* u removed
SmfOnly == <<Site("s", "smf", <<>>)>>
\* u re-declared as an smf, same connectivity
SmfSmf == <<Site("u", "smf", <<"s">>), Site("s", "smf", <<"u">>)>>
\* s re-declared as an ausf, no connections
UpfAusf == <<Site("u", "upf", <<>>), Site("s", "ausf", <<>>)>>

\* u and s keep their ids and types; u changes to the NFTypeName t2, s to
\* one that is not in the CRD directory.
UpfSmfRetyped == <<[Site("u", "upf", <<"s">>) EXCEPT !.typeName = "t2"],
                   [Site("s", "smf", <<"u">>) EXCEPT !.typeName = "t3"]>>

MCTypeNames == {"t1", "t2", "t3"}

\* The CRD directory: t1 and t2 of each NF type, their capacity profiles,
\* and a second file for the upf capacity profile p2, later in walk order.
File(kind, name, body) == [kind |-> kind, name |-> name, body |-> body]
MCCRDFiles == <<File("UpfType", "t1", "p1"), File("UpfType", "t2", "p2"),
                File("SmfType", "t1", "p1"),
                File("UpfCapacityProfile", "p1", "10G"),
                File("UpfCapacityProfile", "p2", "20G"),
                File("SmfCapacityProfile", "p1", "1000"),
                File("UpfCapacityProfile", "p2", "40G")>>

FixedTopology == {UpfSmf}
ChurnTopologies == {UpfSmf, SmfOnly, SmfSmf}
StableTypeTopologies == {UpfSmf, SmfOnly, UpfAusf, UpfSmfRetyped}

Reconciling == ("Reconciling" :> "True") @@ ("Available" :> "True") @@
               ("Ready" :> "False") @@ ("Peering" :> "False") @@ ("Stalled" :> "False")
ReadyAvail == ("Ready" :> "True") @@ ("Available" :> "True") @@
              ("Reconciling" :> "False") @@ ("Peering" :> "False") @@ ("Stalled" :> "False")
ReadyOnly == "Ready" :> "True"
PeeringOnly == "Peering" :> "True"
AllFalse == [t \in CondTypes |-> "False"]
ReadyAndReconciling == ("Ready" :> "True") @@ ("Reconciling" :> "True")
StalledReconciling == ("Stalled" :> "True") @@ ("Reconciling" :> "True")
AllUnknown == [t \in CondTypes |-> "Unknown"]

ReadyAndStalled == ("Ready" :> "True") @@ ("Stalled" :> "True")

\* Three unambiguous reports with three different outcomes.
OrderReports == {Reconciling, ReadyAvail, AllFalse}
\* Reports that reach the implied conditions, the consistency checks and the
\* ambiguity guard.
BranchReports == {ReadyOnly, PeeringOnly, ReadyAndReconciling, ReadyAndStalled,
                  StalledReconciling, AllUnknown}
\* Two different unambiguous reports, and an ambiguous one.
AmbiguityReports == {Reconciling, ReadyAvail, AllUnknown}
TwoReports == {Reconciling, ReadyAvail}
=============================================================================
