--------------------------- MODULE MCStatusWriter ---------------------------
(* Constants for checking StatusWriter: two aggregates processNFEdgeEvent  *)
(* may compute for a two-NF deployment, the real retry policy, and enough  *)
(* reconciles and edits to conflict with every listener attempt.           *)
EXTENDS StatusWriter

Cd(s, r) == [status |-> s, reason |-> r, ltt |-> 0, lut |-> 0]

\* one NF Ready, the other Reconciling
SomeReady ==
    [counts |-> [targeted |-> 2, ready |-> 1, available |-> 2, stalled |-> 0],
     conds |-> [Stalled |-> Cd("False", "NoNFsStalled"),
                Ready |-> Cd("False", "SomeNFsReady"),
                Peering |-> Cd("False", "NoNFsPeering"),
                Reconciling |-> Cd("True", "AllUnReconciledNFsReconciling")]]
\* both NFs Ready
AllReady ==
    [counts |-> [targeted |-> 2, ready |-> 2, available |-> 2, stalled |-> 0],
     conds |-> [Stalled |-> Cd("False", "NoNFsStalled"),
                Ready |-> Cd("True", "AllNFsReady"),
                Peering |-> Cd("False", "AllNFsPeered"),
                Reconciling |-> Cd("False", "AllNFsReconciled")]]

MCListenerInputs == {SomeReady, AllReady}

MCReasons == {"", "NewVersionAvailable", "AwaitingApproval", "Stalled",
              "HydrationFailure", "EdgeConnectionFailure", "NoNFsStalled",
              "SomeNFsReady", "NoNFsPeering", "AllUnReconciledNFsReconciling",
              "AllNFsReady", "AllNFsPeered", "AllNFsReconciled"}
=============================================================================
