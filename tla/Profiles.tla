----------------------------- MODULE Profiles -----------------------------
(***************************************************************************)
(* What GenerateNfTypeDeploy of each NF type (hydration/nftypehydration)  *)
(* makes of the profiles the package service returns for a site's naming  *)
(* context: the lookups each type makes, in order, and the checks on what  *)
(* they return.  The rendered manifest is not modelled; a lookup is kept   *)
(* by how many documents it returns, and an interface profile by the      *)
(* interface config IDs and profile names it refers to.                    *)
(***************************************************************************)
EXTENDS Naturals, FiniteSets

CONSTANT
    Repo    \* Repo[c]: the profiles in the naming context of cluster c

\* The kinds looked up by name (type, capacity profile) or by kind alone.
ProfileKinds == {"UpfType", "SmfType", "UpfCapacityProfile", "SmfCapacityProfile",
                 "AusfCapacityProfile", "UdmCapacityProfile", "NFBGPConfig",
                 "VendorExtension"}

\* count: how many documents GetNFProfiles returns for a kind;
\* ifIds: the IDs of the InterfaceConfig documents' specs;
\* ifProfiles: the InterfaceProfile names the repository holds;
\* refs[t]: the interface config IDs and interface profile names that the
\* type document of t (UpfType, SmfType) lists in its N*InterfaceProfile.
RepoRecs(Ids, Names) ==
    [count : [ProfileKinds -> 0..2], ifIds : SUBSET Ids, ifProfiles : SUBSET Names,
     refs : [{"upf", "smf"} -> [ids : SUBSET Ids, names : SUBSET Names]]]

\* getUpfType, getSmfType, get*CapacityProfile: "expecting exactly one".
ExactlyOne(c, k) == Repo[c].count[k] = 1

\* GetReferencedProfiles: "expecting at the most one" NFBGPConfig;
\* getUpfVendorExtnObj: "More than one extension object".
AtMostOne(c, k) == Repo[c].count[k] <= 1

\* GetInterfaceConfigSpecMap keys the specs of every InterfaceConfig by ID;
\* GetNetworkInterfaces fails on an ID the map lacks.
InterfacesFound(c, t) == Repo[c].refs[t].ids \subseteq Repo[c].ifIds

\* getUpfVendorExtnObj: no extension, or exactly one.
VendorExtensionValid(c) == AtMostOne(c, "VendorExtension")

\* UpfDeployImpl.GenerateNfTypeDeploy: UpfType, the referenced profiles,
\* the capacity profile, the N3/N4/N6/N9 interfaces, the vendor extension.
UpfProfilesValid(c) ==
    /\ ExactlyOne(c, "UpfType") /\ AtMostOne(c, "NFBGPConfig")
    /\ ExactlyOne(c, "UpfCapacityProfile") /\ InterfacesFound(c, "upf")
    /\ VendorExtensionValid(c)

\* getSmfType and getSmfCapacityProfile: "expecting exactly one".
getSmfType(c) == ExactlyOne(c, "SmfType")
getSmfCapacityProfile(c) == ExactlyOne(c, "SmfCapacityProfile")

\* SmfDeployImpl.GenerateNfTypeDeploy up to GetInterfaceProfile.
SmfReachesInterfaceProfiles(c) ==
    /\ getSmfType(c) /\ AtMostOne(c, "NFBGPConfig")
    /\ getSmfCapacityProfile(c)

\* GetInterfaceProfile asks for each distinct name once and reads
\* cpMap[id][0] for every id in the answer; a name the repository does not
\* hold is either left out of the answer, and generateSmfDeploy's
\* GetNetworkInterfaces then fails ("did not find InterfaceProfile"), or
\* answered with an empty list, and the index panics.  Which of the two the
\* package service does is not in src/.
SmfProfileMissing(c) == ~(Repo[c].refs["smf"].names \subseteq Repo[c].ifProfiles)

SmfProfilesValid(c) ==
    /\ SmfReachesInterfaceProfiles(c) /\ ~SmfProfileMissing(c)
    /\ InterfacesFound(c, "smf")

\* AusfDeployImpl and UdmDeployImpl.GenerateNfTypeDeploy: the capacity
\* profile, looked up by kind alone, so two of them in one repository
\* fail every site of the type.
AusfProfilesValid(c) == ExactlyOne(c, "AusfCapacityProfile")
UdmProfilesValid(c) == ExactlyOne(c, "UdmCapacityProfile")

\* The implementation processSite picks for the site's type.
ProfilesValid(c, t) ==
    CASE t = "upf"  -> UpfProfilesValid(c)
      [] t = "smf"  -> SmfProfilesValid(c)
      [] t = "ausf" -> AusfProfilesValid(c)
      [] t = "udm"  -> UdmProfilesValid(c)

\* GenerateNfTypeDeploy for a site: every call to the package service may
\* fail, so an error is always possible; success needs valid profiles; a
\* missing interface profile may panic.
GenerateNfTypeDeploy(s) ==
    {"err"} \cup (IF ProfilesValid(s.cluster, s.type) THEN {"ok"} ELSE {})
            \cup (IF s.type = "smf" /\ SmfReachesInterfaceProfiles(s.cluster)
                     /\ SmfProfileMissing(s.cluster) THEN {"panic"} ELSE {})

=============================================================================
