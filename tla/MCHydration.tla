---------------------------- MODULE MCHydration ----------------------------
(* Constants for checking Hydration: two clusters, and site sets that     *)
(* change the clusters, include an NF type without a hydration, and an    *)
(* smf whose interface profile the cluster's repository lacks.            *)
EXTENDS Hydration

MCClusters == {"c1", "c2"}

Site(c, t) == [cluster |-> c, type |-> t]

\* upf on c1, smf on c2
TwoClusters == {Site("c1", "upf"), Site("c2", "smf")}
\* ausf on c1 only
OneCluster == {Site("c1", "ausf")}
\* udm on c1 and an amf on c2 (processSite's default case)
WithAmf == {Site("c1", "udm"), Site("c2", "amf")}
\* smf on c1, whose repository lacks the smf's interface profile
SmfOnC1 == {Site("c1", "smf")}

MCSpecs == {TwoClusters, OneCluster, WithAmf, SmfOnC1}

\* One of each document, no BGP config or vendor extension; both type
\* documents use interface config 1, and the SmfType the profile "n4".
Repository(profiles) ==
    [count |-> [k \in ProfileKinds |-> IF k \in {"NFBGPConfig", "VendorExtension"} THEN 0 ELSE 1],
     ifIds |-> {1}, ifProfiles |-> profiles,
     refs |-> [t \in {"upf", "smf"} |-> [ids |-> {1}, names |-> IF t = "smf" THEN {"n4"} ELSE {}]]]

MCRepo == [c \in MCClusters |-> IF c = "c1" THEN Repository({}) ELSE Repository({"n4"})]
=============================================================================
