------------------------------- MODULE CRDSet -------------------------------
(***************************************************************************)
(* The CRD reader (crd-reader/): the CRDSet that main fills once at start  *)
(* with ReadCRDFiles from the CRD directory, and the intents that          *)
(* UPFIntent and SMFIntent resolve from it for the Deployment's nodes.     *)
(*                                                                         *)
(* A file is kept by its kind, its metadata name and what Decode yields:   *)
(* the capacity profile name of an UpfType or SmfType, the throughput or   *)
(* maxSessions of a capacity profile.  ReadCRDFiles ignores the error of   *)
(* Decode, so a file Decode rejects yields the zero value, "".  A file     *)
(* that is not YAML fails the walk, and main exits: the file lists here    *)
(* are those of a walk that succeeded, in the walk's (lexical) order.      *)
(***************************************************************************)
EXTENDS SequencesExt

\* The kinds ReadCRDFiles keeps (ObjectType); files of other kinds are
\* read and ignored.
ObjectTypes == {"UpfType", "SmfType", "UpfCapacityProfile", "SmfCapacityProfile"}

\* The zero value a failed Decode or a failed lookup leaves.
ZeroValue == ""

\* filterYamlsByKind: the files of one kind, in walk order.
filterYamlsByKind(kind, files) == SelectSeq(files, LAMBDA f : f.kind = kind)

\* One pass of a loop of ReadCRDFiles: crdSet.<kind>[node.GetName()] = the
\* decoded object, overwriting an earlier file of the same name.
Store(m, f) == [n \in DOMAIN m \cup {f.name} |-> IF n = f.name THEN f.body ELSE m[n]]

\* ReadCRDFiles after a successful walk: init, then one loop per kind.
ReadCRDFiles(files) ==
    [k \in ObjectTypes |-> FoldLeft(Store, [n \in {} |-> ZeroValue], filterYamlsByKind(k, files))]

\* GetUPFTypeObject, GetSMFTypeObject, Get*CapacityProfileObject: the
\* object of that name, or an error.
GetObject(set, k, name) ==
    IF name \in DOMAIN set[k] THEN [ok |-> TRUE, val |-> set[k][name]]
    ELSE [ok |-> FALSE, val |-> ZeroValue]

\* UPFIntent.GetUPFIntent: the UpfType's capacity profile name, then that
\* profile's throughput; the first error is returned.
GetUPFIntent(set, typeName) ==
    LET ty == GetObject(set, "UpfType", typeName)
    IN  IF ty.ok THEN GetObject(set, "UpfCapacityProfile", ty.val) ELSE ty

\* SMFIntent.GetSMFIntent: the same through SmfType and its capacity profile.
GetSMFIntent(set, typeName) ==
    LET ty == GetObject(set, "SmfType", typeName)
    IN  IF ty.ok THEN GetObject(set, "SmfCapacityProfile", ty.val) ELSE ty

=============================================================================
