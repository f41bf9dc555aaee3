------------------------------- MODULE Values -------------------------------
(***************************************************************************)
(* Which Helm values a control plane, a CNI and a ztunnel are installed    *)
(* with.                                                                   *)
(*                                                                         *)
(* Four sources may give a field its value: the user (spec.values), the    *)
(* operator's configuration (image digests), the vendor's defaults and the *)
(* profiles; the operator sets some fields whoever gave them a value.  The *)
(* Istio controller stores the result in the IstioRevision, whose          *)
(* controller validates it, installs it, and computes it again to find out *)
(* whether the revision depends on the IstioCNI.                           *)
(*                                                                         *)
(* The values are typed structures, of which only fields matter here: a    *)
(* structure that is absent has no fields, and no field is a structure in  *)
(* one source and a scalar in another.                                     *)
(***************************************************************************)
EXTENDS Sequences

CONSTANTS
  Fields,      \* the fields that are modelled, as dotted paths
  Contents,    \* what they may hold
  Unset,       \* the content of a field that is absent
  Pending, Failed, \* no result yet; an error instead of a result
  Profiles,    \* the profile files of a version, [name -> values]
  VersionFile, \* versions.yaml, a sequence of entries
  UserValues,  \* what spec.values may be, for each kind of resource
  Vendors,     \* what vendor_defaults.yaml may say about each kind
  Versions,    \* what spec.version may be
  ProfileNames,\* what spec.profile may be
  Platforms,   \* what DetectPlatform may find
  Names, Namespaces \* what the active revision and its namespace may be called

ImageFields == {"global.hub", "global.tag", "global.proxy.image", "global.proxy_init.image"}
  \cup {"pilot.image", "pilot.hub", "pilot.tag", "cni.image", "cni.hub", "cni.tag"}
  \cup {"ztunnel.image", "ztunnel.hub", "ztunnel.tag", "image", "hub", "tag"}

Empty == ""   \* the empty string

OtherFields == {"revision", "defaultRevision", "global.istioNamespace", "global.platform",
                "pilot.cni.enabled", "pilot.env.COMPLIANCE_POLICY"}

ASSUME FieldAssumption == Fields = ImageFields \cup OtherFields
ASSUME ContentAssumption ==
  {Empty, "true", "false", "digest", "openshift", "fips-140-2"} \subseteq Contents

AllValues == [Fields -> Contents \cup {Unset}]
NoValues  == [f \in Fields |-> Unset]

Resources == {"Istio", "IstioCNI", "ZTunnel"}

ASSUME UnsetAssumption   == Unset \notin Contents
ASSUME ProfileAssumption ==
  /\ "default" \in DOMAIN Profiles
  /\ \A p \in DOMAIN Profiles : Profiles[p] \in AllValues
ASSUME InputAssumption ==
  /\ UserValues \in [Resources -> SUBSET AllValues]
  /\ Vendors \in [Resources -> SUBSET AllValues]
  /\ Platforms \subseteq {Empty, "kubernetes", "openshift"}
  /\ Names \subseteq Contents \ {Empty} /\ Namespaces \subseteq Contents

\* A resource and the configuration of the operator that reconciles it.  The
\* flags say whether there are image digests for the version, and FIPS mode.
InputsOf(kind) ==
  [kind: {kind}, version: Versions, profile: ProfileNames, user: UserValues[kind],
   vendor: Vendors[kind], name: Names, namespace: Namespaces,
   platform: Platforms, digests: BOOLEAN, fips: BOOLEAN]

\* Spec.values of a ZTunnel has no fields at the top level; and nobody but the
\* operator's configuration names the images with digests.
ASSUME TopLevelAssumption ==
  \A v \in UserValues["ZTunnel"] : \A f \in {"image", "hub", "tag"} : v[f] = Unset
ASSUME DigestAssumption ==
  /\ \A kind \in Resources, f \in ImageFields :
       \A v \in UserValues[kind] \cup Vendors[kind] : v[f] # "digest"
  /\ \A p \in DOMAIN Profiles, f \in ImageFields : Profiles[p][f] # "digest"

\* Of the fields here, the profile of OpenShift leaves the CNI's to others.
ASSUME OpenShiftAssumption ==
  "openshift" \in Platforms =>
    "openshift" \in DOMAIN Profiles /\ Profiles["openshift"]["pilot.cni.enabled"] = Unset

ASSUME ResultAssumption == Pending # Failed /\ {Pending, Failed} \cap AllValues = {}

VARIABLES
  in,   \* the resource that is reconciled, and the configuration
  out   \* the Helm values that come of it

-----------------------------------------------------------------------------
(* Versions.  An alias has a ref and nothing else; versions that are out   *)
(* of support are left out, aliases of such a version make init panic.     *)

List    == SelectSeq(VersionFile, LAMBDA e : ~ e.eol /\ e.ref = Empty)
aliases == SelectSeq(VersionFile, LAMBDA e : ~ e.eol /\ e.ref # Empty)

Listed  == {List[i].name : i \in DOMAIN List}
Aliased == {aliases[i].name : i \in DOMAIN aliases}

mustParseVersionsYaml ==
  [v \in Listed \cup Aliased |->
     IF v \in Aliased THEN aliases[CHOOSE i \in DOMAIN aliases : aliases[i].name = v].ref ELSE v]

ASSUME VersionAssumption == \A i \in DOMAIN aliases : aliases[i].ref \in Listed

Resolve(v) ==
  IF v \in Listed \cup Aliased THEN mustParseVersionsYaml[v] ELSE Failed

-----------------------------------------------------------------------------
(* The steps of the computation.                                           *)

mergeOverwrite(base, overrides) ==
  [f \in Fields |-> IF overrides[f] # Unset THEN overrides[f] ELSE base[f]]

SetIfAbsent(values, field, content) ==
  IF values[field] = Unset THEN [values EXCEPT ![field] = content] ELSE values

\* The images of each resource that get a digest, and the fields by which the
\* user configures each of them.
ImagesOf(kind) ==
  IF kind = "Istio" THEN {"pilot.image", "global.proxy.image", "global.proxy_init.image"}
  ELSE IF kind = "IstioCNI" THEN {"cni.image"} ELSE {"ztunnel.image"}

Configurations == {{"pilot.image", "pilot.hub", "pilot.tag"}, {"cni.image", "cni.hub", "cni.tag"},
                   {"ztunnel.image", "ztunnel.hub", "ztunnel.tag"}}

ConfiguredBy(image) == {image} \cup UNION {c \in Configurations : image \in c}

Untouched(values, fields) == \A f \in fields : values[f] = Unset

BugHubIgnored(kind, values, digests) ==
  IF digests /\ Untouched(values, {"global.tag"})
  THEN [f \in Fields |-> IF f \in ImagesOf(kind) /\ Untouched(values, ConfiguredBy(f))
                         THEN "digest" ELSE values[f]]
  ELSE values
ApplyDigests(kind, values, digests) ==
  IF digests /\ Untouched(values, {"global.hub", "global.tag"})
  THEN [f \in Fields |-> IF f \in ImagesOf(kind) /\ Untouched(values, ConfiguredBy(f))
                         THEN "digest" ELSE values[f]]
  ELSE values

\* There are no vendor defaults for ZTunnel.
BugOverridesUser(kind, values, vendor) ==
  IF kind = "ZTunnel" THEN values ELSE mergeOverwrite(values, vendor)
ApplyVendorDefaults(kind, values, vendor) ==
  IF kind = "ZTunnel" THEN values ELSE mergeOverwrite(vendor, values)

resolve(defaultProfile, userProfile) ==
  IF userProfile \notin {Empty, "default"} THEN <<"default", userProfile>>
  ELSE IF defaultProfile \notin {Empty, "default"} THEN <<"default", defaultProfile>>
  ELSE <<"default">>

DefaultProfile(platform) == IF platform = "openshift" THEN "openshift" ELSE "default"

\* Fails if the name leads out of the directory, or nowhere.
getValuesFromProfiles(names) ==
  mergeOverwrite(mergeOverwrite(NoValues, Profiles[names[1]]), Profiles[names[Len(names)]])

BugProfileWins(values, platform, names) ==
  LET merged == mergeOverwrite(values, getValuesFromProfiles(names))
  IN IF platform \in {Empty, "kubernetes"} THEN merged ELSE SetIfAbsent(merged, "global.platform", platform)
ApplyProfilesAndPlatform(values, platform, names) ==
  LET merged == mergeOverwrite(getValuesFromProfiles(names), values)
  IN IF platform \in {Empty, "kubernetes"} THEN merged ELSE SetIfAbsent(merged, "global.platform", platform)

ApplyFipsValues(values, fips) ==
  IF fips THEN SetIfAbsent(values, "pilot.env.COMPLIANCE_POLICY", "fips-140-2") ELSE values

\* Not configurable by the user.
BugDefaultNotMapped(name, namespace, values) ==
  [values EXCEPT !["revision"] = name, !["global.istioNamespace"] = namespace,
                 !["defaultRevision"] = Empty]
ApplyOverrides(name, namespace, values) ==
  [values EXCEPT !["revision"] = IF name = "default" THEN Empty ELSE name,
                 !["global.istioNamespace"] = namespace, !["defaultRevision"] = Empty]

-----------------------------------------------------------------------------
(* The three computations.                                                 *)

FromProfiles(i, values, userProfile) ==
  LET names == resolve(DefaultProfile(i.platform), userProfile)
  IN IF \A n \in DOMAIN names : names[n] \in DOMAIN Profiles
     THEN ApplyProfilesAndPlatform(values, i.platform, names) ELSE Failed

WithDefaults(i, values) ==
  ApplyVendorDefaults(i.kind, ApplyDigests(i.kind, values, i.digests), i.vendor)

\* For the Istio; i is the configuration.
ComputeValues(i, values, userProfile) ==
  LET merged == FromProfiles(i, WithDefaults(i, values), userProfile)
  IN IF merged = Failed THEN Failed
     ELSE ApplyOverrides(i.name, i.namespace, ApplyFipsValues(merged, i.fips))

installIstioCNI(i) == FromProfiles(i, WithDefaults(i, i.user), i.profile)

\* The charts of ztunnel expect values.ztunnel at the top.
TopLevel(values) ==
  [f \in Fields |-> IF f = "image" THEN values["ztunnel.image"]
                    ELSE IF f = "hub" THEN values["ztunnel.hub"]
                    ELSE IF f = "tag" THEN values["ztunnel.tag"] ELSE Unset]

installZTunnel(i) ==
  LET userValues == WithDefaults(i, i.user)
      merged == FromProfiles(i, userValues, i.profile)
  IN IF merged = Failed THEN Failed ELSE mergeOverwrite(merged, TopLevel(userValues))

\* What becomes of a resource: an unknown version or profile is an error.
Computed(i) ==
  IF Resolve(i.version) = Failed THEN Failed
  ELSE IF i.kind = "Istio" THEN ComputeValues(i, i.user, i.profile)
  ELSE IF i.kind = "IstioCNI" THEN installIstioCNI(i) ELSE installZTunnel(i)

Init == (\E kind \in Resources : in \in InputsOf(kind)) /\ out = Pending

Reconcile == out = Pending /\ out' = Computed(in) /\ UNCHANGED in

Next == Reconcile

Spec == Init /\ [][Next]_<<in, out>>

-----------------------------------------------------------------------------
(* What the IstioRevision controller makes of the values.                  *)

validateRevision(name, namespace, values) ==
  /\ IF name = "default" THEN values["revision"] \in {Unset, Empty} ELSE values["revision"] = name
  /\ values["global.istioNamespace"] = namespace

NeedsCNI(values) ==
  IF values["global.platform"] = "openshift"
  THEN values["pilot.cni.enabled"] # "false" ELSE values["pilot.cni.enabled"] = "true"

\* The values are computed once more, from those of the revision and without
\* the profile that the user chose.
BugFromScratch(i, values) == NeedsCNI(ComputeValues(i, NoValues, Empty))
DependsOnIstioCNI(i, values) ==
  LET recomputed == ComputeValues(i, values, Empty)
  IN recomputed # Failed /\ NeedsCNI(recomputed)

-----------------------------------------------------------------------------
Done == out \notin {Pending, Failed}

Overrides(kind) ==
  IF kind = "Istio" THEN {"revision", "global.istioNamespace", "defaultRevision"} ELSE {}

(***************************************************************************)
(* "User input will always take precedence" (README.md:313): whatever the  *)
(* vendor, the profiles, the platform or the digests say, a field that the *)
(* user sets holds what the user said, except for those three that are not *)
(* configurable.  For a ztunnel it does so at the top level too.           *)
(***************************************************************************)
UserWins ==
  Done =>
    /\ \A f \in Fields \ Overrides(in.kind) : in.user[f] # Unset => out[f] = in.user[f]
    /\ in.kind = "ZTunnel" =>
         \A f \in {"image", "hub", "tag"} :
           TopLevel(in.user)[f] # Unset => out[f] = TopLevel(in.user)[f]

(***************************************************************************)
(* A digest is never combined with a hub or a tag of the user's, for which *)
(* it would be the wrong image, and never replaces the user's image.       *)
(***************************************************************************)
DigestsRespectUser ==
  Done => \A image \in ImagesOf(in.kind) :
            out[image] = "digest" =>
              /\ in.digests
              /\ Untouched(in.user, {"global.hub", "global.tag"} \cup ConfiguredBy(image))

(***************************************************************************)
(* A vendor default holds unless the user or a digest gave the field its   *)
(* value, whatever the profiles say.                                       *)
(***************************************************************************)
VendorBeforeProfiles ==
  Done /\ in.kind # "ZTunnel" =>
    \A f \in Fields \ Overrides(in.kind) :
      (in.vendor[f] # Unset /\ in.user[f] = Unset) =>
        out[f] = in.vendor[f] \/ (f \in ImagesOf(in.kind) /\ out[f] = "digest")

(***************************************************************************)
(* The two controllers agree: what the Istio controller writes into a      *)
(* revision passes the validation of the IstioRevision controller.         *)
(***************************************************************************)
RevisionAccepted ==
  Done /\ in.kind = "Istio" => validateRevision(in.name, in.namespace, out)

(***************************************************************************)
(* The dependency on the IstioCNI is computed from values that are not     *)
(* those installed; still it is what the installed values say.             *)
(***************************************************************************)
DependencyAsInstalled ==
  Done /\ in.kind = "Istio" => (DependsOnIstioCNI(in, out) <=> NeedsCNI(out))
=============================================================================
