---------------------------- MODULE ValuesProofs ----------------------------
(***************************************************************************)
(* Who wins when several sources give a field its value, for all values of *)
(* the users, vendors and profiles.                                        *)
(***************************************************************************)
EXTENDS Values, TLAPS

\* A result is the result of the computation for the input.
Inv == (\E kind \in Resources : in \in InputsOf(kind)) /\ (out = Pending \/ out = Computed(in))

LEMMA Invariant == Spec => []Inv
<1>1. Init => Inv
  BY DEF Init, Inv
<1>2. Inv /\ [Next]_<<in, out>> => Inv'
  BY DEF Next, Reconcile, Inv
<1> QED
  BY <1>1, <1>2, PTL DEF Spec

-----------------------------------------------------------------------------
(* The steps of the computation.                                           *)

LEMMA Inputs ==
  ASSUME NEW kind \in Resources, NEW i \in InputsOf(kind)
  PROVE  /\ i.kind = kind /\ i.user \in UserValues[kind] /\ i.vendor \in Vendors[kind]
         /\ i.user \in AllValues /\ i.vendor \in AllValues
         /\ i.platform \in Platforms /\ i.name \in Names /\ i.namespace \in Namespaces
         /\ i.digests \in BOOLEAN /\ i.fips \in BOOLEAN
BY InputAssumption DEF InputsOf

LEMMA Merged ==
  ASSUME NEW base \in AllValues, NEW overrides \in AllValues
  PROVE  /\ mergeOverwrite(base, overrides) \in AllValues
         /\ \A f \in Fields : mergeOverwrite(base, overrides)[f] =
              IF overrides[f] # Unset THEN overrides[f] ELSE base[f]
BY DEF mergeOverwrite, AllValues

LEMMA Absent ==
  ASSUME NEW values \in AllValues, NEW field \in Fields, NEW content \in Contents
  PROVE  /\ SetIfAbsent(values, field, content) \in AllValues
         /\ \A f \in Fields : SetIfAbsent(values, field, content)[f] =
              IF f = field /\ values[f] = Unset THEN content ELSE values[f]
BY DEF SetIfAbsent, AllValues

\* Digests go only into fields that the user left alone.
LEMMA Digests ==
  ASSUME NEW kind, NEW values \in AllValues, NEW digests \in BOOLEAN
  PROVE  /\ ApplyDigests(kind, values, digests) \in AllValues
         /\ \A f \in Fields :
              \/ ApplyDigests(kind, values, digests)[f] = values[f]
              \/ /\ ApplyDigests(kind, values, digests)[f] = "digest"
                 /\ values[f] = Unset /\ f \in ImagesOf(kind) /\ digests
                 /\ Untouched(values, {"global.hub", "global.tag"} \cup ConfiguredBy(f))
<1> DEFINE open(f) == f \in ImagesOf(kind) /\ Untouched(values, ConfiguredBy(f))
           given == [f \in Fields |-> IF open(f) THEN "digest" ELSE values[f]]
<1>1. \A f \in Fields : open(f) => values[f] = Unset
  <2>1. \A f : f \in ConfiguredBy(f)
    BY DEF ConfiguredBy
  <2> QED BY <2>1 DEF Untouched
<1>2. "digest" \in Contents
  BY ContentAssumption
<1>3. given \in AllValues
  BY <1>2 DEF AllValues
<1>4. ApplyDigests(kind, values, digests) =
        IF digests /\ Untouched(values, {"global.hub", "global.tag"}) THEN given ELSE values
  BY DEF ApplyDigests
<1> QED
  BY <1>1, <1>3, <1>4 DEF Untouched

LEMMA VendorDefaults ==
  ASSUME NEW kind, NEW values \in AllValues, NEW vendor \in AllValues
  PROVE  /\ ApplyVendorDefaults(kind, values, vendor) \in AllValues
         /\ \A f \in Fields : ApplyVendorDefaults(kind, values, vendor)[f] =
              IF kind = "ZTunnel" \/ values[f] # Unset THEN values[f] ELSE vendor[f]
BY Merged DEF ApplyVendorDefaults

\* What there is before the profiles are looked at.
LEMMA Defaults ==
  ASSUME NEW kind \in Resources, NEW i \in InputsOf(kind)
  PROVE  /\ WithDefaults(i, i.user) \in AllValues
         /\ \A f \in Fields :
              /\ i.user[f] # Unset => WithDefaults(i, i.user)[f] = i.user[f]
              /\ (kind # "ZTunnel" /\ i.vendor[f] # Unset /\ i.user[f] = Unset) =>
                   \/ WithDefaults(i, i.user)[f] = i.vendor[f]
                   \/ f \in ImagesOf(kind) /\ WithDefaults(i, i.user)[f] = "digest"
              /\ (f \in ImageFields /\ WithDefaults(i, i.user)[f] = "digest") =>
                   /\ i.digests
                   /\ Untouched(i.user, {"global.hub", "global.tag"} \cup ConfiguredBy(f))
<1> DEFINE d == ApplyDigests(kind, i.user, i.digests)
           w == WithDefaults(i, i.user)
<1>0. i.user \in AllValues /\ i.digests \in BOOLEAN
  BY Inputs
<1>1. /\ d \in AllValues
      /\ \A f \in Fields :
           \/ d[f] = i.user[f]
           \/ /\ d[f] = "digest" /\ i.user[f] = Unset /\ f \in ImagesOf(kind) /\ i.digests
              /\ Untouched(i.user, {"global.hub", "global.tag"} \cup ConfiguredBy(f))
  BY ONLY <1>0, Digests
<1>2. w = ApplyVendorDefaults(kind, d, i.vendor)
  BY Inputs DEF WithDefaults
<1>3. /\ w \in AllValues
      /\ \A f \in Fields : w[f] = IF kind = "ZTunnel" \/ d[f] # Unset THEN d[f] ELSE i.vendor[f]
  BY <1>1, <1>2, Inputs, VendorDefaults
<1>4. \A f \in ImageFields : i.user[f] # "digest" /\ i.vendor[f] # "digest"
  BY Inputs, DigestAssumption
<1>5. Unset # "digest"
  BY UnsetAssumption, ContentAssumption
<1> HIDE DEF d, w
<1> QED
  BY <1>1, <1>3, <1>4, <1>5 DEF w

\* The names of the profiles that apply: the default one first.
LEMMA ProfileNamesInOrder ==
  ASSUME NEW platform, NEW userProfile
  PROVE  LET names == resolve(DefaultProfile(platform), userProfile)
         IN /\ 1 \in DOMAIN names /\ Len(names) \in DOMAIN names /\ names[1] = "default"
            /\ userProfile = Empty =>
                 /\ \A n \in DOMAIN names : names[n] \in {"default", DefaultProfile(platform)}
                 /\ names[Len(names)] = DefaultProfile(platform)
<1> DEFINE names == resolve(DefaultProfile(platform), userProfile)
<1>1. \/ names = <<"default">>
      \/ \E p : names = <<"default", p>>
  BY DEF resolve
<1>2. userProfile = Empty =>
        \/ names = <<"default">> /\ DefaultProfile(platform) = "default"
        \/ names = <<"default", DefaultProfile(platform)>>
  BY DEF resolve, DefaultProfile, Empty
<1> HIDE DEF names
<1> QED
  BY <1>1, <1>2 DEF names

\* Profiles and the platform fill the gaps: first the last profile, then the default
\* one, then the platform.
LEMMA Profiled ==
  ASSUME NEW kind \in Resources, NEW i \in InputsOf(kind), NEW values \in AllValues,
         NEW userProfile,
         LET names == resolve(DefaultProfile(i.platform), userProfile)
         IN \A n \in DOMAIN names : names[n] \in DOMAIN Profiles
  PROVE  LET names == resolve(DefaultProfile(i.platform), userProfile)
             last == Profiles[names[Len(names)]]
             result == FromProfiles(i, values, userProfile)
         IN /\ names[Len(names)] \in DOMAIN Profiles
            /\ result \in AllValues /\ result # Failed
            /\ \A f \in Fields :
                 result[f] = IF values[f] # Unset THEN values[f]
                             ELSE IF last[f] # Unset THEN last[f]
                             ELSE IF Profiles["default"][f] # Unset THEN Profiles["default"][f]
                             ELSE IF f = "global.platform" /\ i.platform \notin {Empty, "kubernetes"}
                             THEN i.platform ELSE Unset
<1> DEFINE names == resolve(DefaultProfile(i.platform), userProfile)
           base == getValuesFromProfiles(names)
           merged == mergeOverwrite(base, values)
           result == FromProfiles(i, values, userProfile)
           first == Profiles["default"]
           last == Profiles[names[Len(names)]]
<1>1. result = ApplyProfilesAndPlatform(values, i.platform, names)
  BY DEF FromProfiles
<1>2. names[1] = "default" /\ names[Len(names)] \in DOMAIN Profiles
  <2>1. 1 \in DOMAIN names /\ Len(names) \in DOMAIN names /\ names[1] = "default"
    BY ProfileNamesInOrder
  <2> QED BY <2>1
<1>3. base = mergeOverwrite(mergeOverwrite(NoValues, first), last)
  <2>1. base = mergeOverwrite(mergeOverwrite(NoValues, Profiles[names[1]]), last)
    BY DEF getValuesFromProfiles
  <2> QED BY <1>2, <2>1
<1> HIDE DEF names
<1>4. first \in AllValues /\ last \in AllValues
  BY <1>2, ProfileAssumption
<1>5. NoValues \in AllValues /\ \A f \in Fields : NoValues[f] = Unset
  BY DEF NoValues, AllValues
<1> HIDE DEF first, last
<1>6. /\ base \in AllValues
      /\ \A f \in Fields : base[f] = IF last[f] # Unset THEN last[f] ELSE first[f]
  <2>1. /\ mergeOverwrite(NoValues, first) \in AllValues
        /\ \A f \in Fields : mergeOverwrite(NoValues, first)[f] = first[f]
    BY <1>4, <1>5, Merged
  <2> QED BY <1>3, <1>4, <2>1, Merged
<1> HIDE DEF base
<1>7. /\ merged \in AllValues
      /\ \A f \in Fields : merged[f] = IF values[f] # Unset THEN values[f] ELSE base[f]
  BY <1>6, Merged
<1>8. result = IF i.platform \in {Empty, "kubernetes"} THEN merged
               ELSE SetIfAbsent(merged, "global.platform", i.platform)
  BY <1>1 DEF ApplyProfilesAndPlatform, base
<1> HIDE DEF merged, result
<1>9. "global.platform" \in Fields
  BY FieldAssumption DEF OtherFields
<1>10. /\ result \in AllValues
       /\ \A f \in Fields : result[f] =
            IF f = "global.platform" /\ merged[f] = Unset /\ i.platform \notin {Empty, "kubernetes"}
            THEN i.platform ELSE merged[f]
  <2>1. CASE i.platform \in {Empty, "kubernetes"}
    BY <1>7, <1>8, <2>1
  <2>2. CASE i.platform \notin {Empty, "kubernetes"}
    <3>1. i.platform \in Contents
      BY <2>2, Inputs, InputAssumption, ContentAssumption
    <3> QED BY <1>7, <1>8, <1>9, <2>2, <3>1, Absent
  <2> QED BY <2>1, <2>2
<1>11. result # Failed
  BY <1>10, ResultAssumption
<1>12. \A f \in Fields :
         result[f] = IF values[f] # Unset THEN values[f]
                     ELSE IF last[f] # Unset THEN last[f]
                     ELSE IF first[f] # Unset THEN first[f]
                     ELSE IF f = "global.platform" /\ i.platform \notin {Empty, "kubernetes"}
                     THEN i.platform ELSE Unset
  BY <1>6, <1>7, <1>10
<1> QED
  BY <1>2, <1>10, <1>11, <1>12 DEF names, first, last, result

\* So a field that is set stays, and no digest comes from the profiles.
LEMMA Filled ==
  ASSUME NEW kind \in Resources, NEW i \in InputsOf(kind), NEW values \in AllValues,
         NEW userProfile, FromProfiles(i, values, userProfile) # Failed
  PROVE  /\ FromProfiles(i, values, userProfile) \in AllValues
         /\ \A f \in Fields :
              values[f] # Unset => FromProfiles(i, values, userProfile)[f] = values[f]
         /\ \A f \in ImageFields :
              FromProfiles(i, values, userProfile)[f] = "digest" => values[f] = "digest"
<1> DEFINE names == resolve(DefaultProfile(i.platform), userProfile)
           last == Profiles[names[Len(names)]]
           result == FromProfiles(i, values, userProfile)
<1>1. \A n \in DOMAIN names : names[n] \in DOMAIN Profiles
  BY DEF FromProfiles
<1>2. /\ names[Len(names)] \in DOMAIN Profiles
      /\ result \in AllValues
      /\ \A f \in Fields :
           result[f] = IF values[f] # Unset THEN values[f]
                       ELSE IF last[f] # Unset THEN last[f]
                       ELSE IF Profiles["default"][f] # Unset THEN Profiles["default"][f]
                       ELSE IF f = "global.platform" /\ i.platform \notin {Empty, "kubernetes"}
                       THEN i.platform ELSE Unset
  BY <1>1, Profiled
<1> HIDE DEF names, result
<1>3. \A f \in ImageFields : /\ last[f] # "digest" /\ Profiles["default"][f] # "digest"
                              /\ f \in Fields /\ f # "global.platform"
  BY <1>2, DigestAssumption, ProfileAssumption, FieldAssumption DEF ImageFields
<1>4. Unset # "digest"
  BY UnsetAssumption, ContentAssumption
<1> HIDE DEF last
<1> QED
  BY <1>2, <1>3, <1>4 DEF result

-----------------------------------------------------------------------------
(* The results.                                                            *)

\* What the three computations have in common, and what each of them adds.
LEMMA Results ==
  ASSUME NEW kind \in Resources, NEW i \in InputsOf(kind), Computed(i) # Failed
  PROVE  LET w == WithDefaults(i, i.user)
             m == FromProfiles(i, w, i.profile)
         IN /\ m # Failed
            /\ kind = "Istio" =>
                 Computed(i) = ApplyOverrides(i.name, i.namespace, ApplyFipsValues(m, i.fips))
            /\ kind = "IstioCNI" => Computed(i) = m
            /\ kind = "ZTunnel" => Computed(i) = mergeOverwrite(m, TopLevel(w))
<1> DEFINE w == WithDefaults(i, i.user)
           m == FromProfiles(i, w, i.profile)
<1>1. i.kind = kind
  BY Inputs
<1>2. Resolve(i.version) # Failed
  BY DEF Computed
<1>3. CASE kind = "Istio"
  <2>1. Computed(i) = ComputeValues(i, i.user, i.profile)
    BY <1>1, <1>2, <1>3 DEF Computed
  <2>2. ComputeValues(i, i.user, i.profile) =
          IF m = Failed THEN Failed
          ELSE ApplyOverrides(i.name, i.namespace, ApplyFipsValues(m, i.fips))
    BY DEF ComputeValues
  <2> QED BY <1>3, <2>1, <2>2
<1>4. CASE kind = "IstioCNI"
  <2>1. Computed(i) = m
    BY <1>1, <1>2, <1>4 DEF Computed, installIstioCNI
  <2> QED BY <1>4, <2>1
<1>5. CASE kind = "ZTunnel"
  <2>1. Computed(i) = installZTunnel(i)
    BY <1>1, <1>2, <1>5 DEF Computed
  <2>2. installZTunnel(i) = IF m = Failed THEN Failed ELSE mergeOverwrite(m, TopLevel(w))
    BY DEF installZTunnel
  <2> QED BY <1>5, <2>1, <2>2
<1> QED
  BY <1>3, <1>4, <1>5 DEF Resources

\* FIPS mode and the overrides change only what they name.
LEMMA WithFips ==
  ASSUME NEW values \in AllValues, NEW fips
  PROVE  /\ ApplyFipsValues(values, fips) \in AllValues
         /\ \A f \in Fields :
              \/ ApplyFipsValues(values, fips)[f] = values[f]
              \/ f = "pilot.env.COMPLIANCE_POLICY" /\ values[f] = Unset
<1>1. "fips-140-2" \in Contents /\ "pilot.env.COMPLIANCE_POLICY" \in Fields
  BY ContentAssumption, FieldAssumption DEF OtherFields
<1> QED
  BY <1>1, Absent DEF ApplyFipsValues

LEMMA Overridden ==
  ASSUME NEW values \in AllValues, NEW name, NEW namespace
  PROVE  /\ name \in Contents /\ namespace \in Contents =>
              ApplyOverrides(name, namespace, values) \in AllValues
         /\ \A f \in Fields \ Overrides("Istio") :
              ApplyOverrides(name, namespace, values)[f] = values[f]
         /\ name # "default" => ApplyOverrides(name, namespace, values)["revision"] = name
         /\ name = "default" => ApplyOverrides(name, namespace, values)["revision"] = Empty
         /\ ApplyOverrides(name, namespace, values)["global.istioNamespace"] = namespace
<1>1. DOMAIN values = Fields
  BY DEF AllValues
<1>2. /\ "revision" \in Fields /\ "global.istioNamespace" \in Fields /\ "defaultRevision" \in Fields
  BY FieldAssumption DEF OtherFields
<1>3. name \in Contents /\ namespace \in Contents =>
        ApplyOverrides(name, namespace, values) \in AllValues
  BY ContentAssumption DEF ApplyOverrides, AllValues
<1> QED
  BY <1>1, <1>2, <1>3 DEF ApplyOverrides, Overrides

\* The top level of a ztunnel's values gets what its structure holds.
LEMMA AtTheTop ==
  ASSUME NEW values \in AllValues
  PROVE  /\ TopLevel(values) \in AllValues
         /\ TopLevel(values)["image"] = values["ztunnel.image"]
         /\ TopLevel(values)["hub"] = values["ztunnel.hub"]
         /\ TopLevel(values)["tag"] = values["ztunnel.tag"]
         /\ \A f \in Fields \ {"image", "hub", "tag"} : TopLevel(values)[f] = Unset
<1>1. {"image", "hub", "tag", "ztunnel.image", "ztunnel.hub", "ztunnel.tag"} \subseteq Fields
  BY FieldAssumption DEF ImageFields
<1> QED
  BY <1>1 DEF TopLevel, AllValues

\* Whatever has a value before the profiles keeps it to the end.
LEMMA Kept ==
  ASSUME NEW kind \in Resources, NEW i \in InputsOf(kind), Computed(i) # Failed,
         NEW f \in Fields \ Overrides(kind),
         kind = "ZTunnel" => f \notin {"image", "hub", "tag"}
  PROVE  /\ WithDefaults(i, i.user)[f] # Unset => Computed(i)[f] = WithDefaults(i, i.user)[f]
         /\ (f \in ImageFields /\ Computed(i)[f] = "digest") => WithDefaults(i, i.user)[f] = "digest"
<1> DEFINE w == WithDefaults(i, i.user)
           m == FromProfiles(i, w, i.profile)
<1>1. w \in AllValues
  BY Defaults
<1>2. /\ m # Failed
      /\ kind = "Istio" =>
           Computed(i) = ApplyOverrides(i.name, i.namespace, ApplyFipsValues(m, i.fips))
      /\ kind = "IstioCNI" => Computed(i) = m
      /\ kind = "ZTunnel" => Computed(i) = mergeOverwrite(m, TopLevel(w))
  BY Results
<1> HIDE DEF w
<1>3. /\ m \in AllValues
      /\ w[f] # Unset => m[f] = w[f]
      /\ f \in ImageFields => (m[f] = "digest" => w[f] = "digest")
  BY <1>1, <1>2, Filled
<1> HIDE DEF m
<1>4. \/ Computed(i)[f] = m[f]
      \/ f = "pilot.env.COMPLIANCE_POLICY" /\ m[f] = Unset
  <2>1. CASE kind = "Istio"
    <3> DEFINE p == ApplyFipsValues(m, i.fips)
    <3>1. Overrides(kind) = Overrides("Istio")
      BY <2>1
    <3>2. /\ p \in AllValues
          /\ p[f] # m[f] => f = "pilot.env.COMPLIANCE_POLICY" /\ m[f] = Unset
      BY <1>3, WithFips
    <3>3. Computed(i) = ApplyOverrides(i.name, i.namespace, p)
      BY <1>2, <2>1
    <3> HIDE DEF p
    <3>4. Computed(i)[f] = p[f]
      BY <3>1, <3>2, <3>3, Overridden
    <3> QED BY <3>2, <3>4
  <2>2. CASE kind = "IstioCNI"
    BY <1>2, <2>2
  <2>3. CASE kind = "ZTunnel"
    <3>1. TopLevel(w) \in AllValues /\ TopLevel(w)[f] = Unset
      BY <1>1, <2>3, AtTheTop
    <3> QED BY <1>2, <1>3, <2>3, <3>1, Merged
  <2> QED BY <2>1, <2>2, <2>3 DEF Resources
<1>5. "pilot.env.COMPLIANCE_POLICY" \notin ImageFields
  BY DEF ImageFields
<1> QED
  BY <1>3, <1>4, <1>5 DEF w

\* A result in a state of the specification.
LEMMA Reached ==
  ASSUME Inv, Done
  PROVE  /\ in.kind \in Resources /\ in \in InputsOf(in.kind)
         /\ out = Computed(in) /\ Computed(in) # Failed
<1>1. PICK kind \in Resources : in \in InputsOf(kind)
  BY DEF Inv
<1>2. in.kind = kind
  BY <1>1, Inputs
<1> QED
  BY <1>1, <1>2 DEF Inv, Done

(***************************************************************************)
(* Whatever the vendor, the profiles, the platform or the digests say, a   *)
(* field that the user sets holds what the user said (README.md:313).      *)
(***************************************************************************)
THEOREM TheUserWins == Spec => []UserWins
<1>1. Inv => UserWins
  <2> SUFFICES ASSUME Inv, Done
               PROVE  /\ \A f \in Fields \ Overrides(in.kind) : in.user[f] # Unset => out[f] = in.user[f]
                      /\ in.kind = "ZTunnel" =>
                           \A f \in {"image", "hub", "tag"} :
                             TopLevel(in.user)[f] # Unset => out[f] = TopLevel(in.user)[f]
    BY DEF UserWins
  <2>1. /\ in.kind \in Resources /\ in \in InputsOf(in.kind)
        /\ out = Computed(in) /\ Computed(in) # Failed
    BY Reached
  <2>2. in.user \in UserValues[in.kind] /\ in.user \in AllValues
    BY <2>1, Inputs
  <2>3. /\ WithDefaults(in, in.user) \in AllValues
        /\ \A f \in Fields : in.user[f] # Unset => WithDefaults(in, in.user)[f] = in.user[f]
    BY <2>1, Defaults
  <2>4. ASSUME NEW f \in Fields \ Overrides(in.kind), in.user[f] # Unset
        PROVE  out[f] = in.user[f]
    <3>1. in.kind = "ZTunnel" => f \notin {"image", "hub", "tag"}
      BY <2>2, <2>4, TopLevelAssumption
    <3> QED BY <2>1, <2>3, <2>4, <3>1, Kept
  <2>5. ASSUME in.kind = "ZTunnel", NEW f \in {"image", "hub", "tag"}, TopLevel(in.user)[f] # Unset
        PROVE  out[f] = TopLevel(in.user)[f]
    <3> DEFINE w == WithDefaults(in, in.user)
               m == FromProfiles(in, w, in.profile)
    <3>1. m # Failed /\ out = mergeOverwrite(m, TopLevel(w))
      BY <2>1, <2>5, Results
    <3>2. m \in AllValues
      BY <2>1, <2>3, <3>1, Filled
    <3>3. TopLevel(w) \in AllValues /\ TopLevel(w)[f] = TopLevel(in.user)[f]
      <4>1. {"image", "hub", "tag", "ztunnel.image", "ztunnel.hub", "ztunnel.tag"} \subseteq Fields
        BY FieldAssumption DEF ImageFields
      <4> HIDE DEF w
      <4> QED BY <2>2, <2>3, <2>5, <4>1, AtTheTop DEF w
    <3>4. f \in Fields
      BY FieldAssumption DEF ImageFields
    <3> HIDE DEF w, m
    <3> QED BY <2>5, <3>1, <3>2, <3>3, <3>4, Merged
  <2> QED BY <2>4, <2>5
<1> QED
  BY <1>1, Invariant, PTL

(***************************************************************************)
(* A digest is never combined with a hub or a tag of the user's, and never *)
(* replaces the user's image.                                              *)
(***************************************************************************)
THEOREM DigestsYieldToUser == Spec => []DigestsRespectUser
<1>1. Inv => DigestsRespectUser
  <2> SUFFICES ASSUME Inv, Done, NEW image \in ImagesOf(in.kind), out[image] = "digest"
               PROVE  /\ in.digests
                      /\ Untouched(in.user, {"global.hub", "global.tag"} \cup ConfiguredBy(image))
    BY DEF DigestsRespectUser
  <2>1. /\ in.kind \in Resources /\ in \in InputsOf(in.kind)
        /\ out = Computed(in) /\ Computed(in) # Failed
    BY Reached
  <2>2. /\ image \in ImageFields /\ image \in Fields \ Overrides(in.kind)
        /\ image \notin {"image", "hub", "tag"}
    BY FieldAssumption DEF ImagesOf, ImageFields, Overrides
  <2>3. WithDefaults(in, in.user)[image] = "digest"
    BY <2>1, <2>2, Kept
  <2> QED BY <2>1, <2>2, <2>3, Defaults
<1> QED
  BY <1>1, Invariant, PTL

(***************************************************************************)
(* A vendor default holds unless the user or a digest gave the field its   *)
(* value, whatever the profiles say.                                       *)
(***************************************************************************)
THEOREM VendorsPrecedeProfiles == Spec => []VendorBeforeProfiles
<1>1. Inv => VendorBeforeProfiles
  <2> SUFFICES ASSUME Inv, Done, in.kind # "ZTunnel", NEW f \in Fields \ Overrides(in.kind),
                      in.vendor[f] # Unset, in.user[f] = Unset
               PROVE  out[f] = in.vendor[f] \/ (f \in ImagesOf(in.kind) /\ out[f] = "digest")
    BY DEF VendorBeforeProfiles
  <2>1. /\ in.kind \in Resources /\ in \in InputsOf(in.kind)
        /\ out = Computed(in) /\ Computed(in) # Failed
    BY Reached
  <2>2. \/ WithDefaults(in, in.user)[f] = in.vendor[f]
        \/ f \in ImagesOf(in.kind) /\ WithDefaults(in, in.user)[f] = "digest"
    BY <2>1, Defaults
  <2>3. "digest" # Unset
    BY UnsetAssumption, ContentAssumption
  <2>4. out[f] = WithDefaults(in, in.user)[f]
    BY <2>1, <2>2, <2>3, Kept
  <2> QED BY <2>2, <2>4
<1> QED
  BY <1>1, Invariant, PTL

(***************************************************************************)
(* What the Istio controller writes into a revision passes the validation  *)
(* of the IstioRevision controller.                                        *)
(***************************************************************************)
THEOREM RevisionsAreAccepted == Spec => []RevisionAccepted
<1>1. Inv => RevisionAccepted
  <2> SUFFICES ASSUME Inv, Done, in.kind = "Istio"
               PROVE  validateRevision(in.name, in.namespace, out)
    BY DEF RevisionAccepted
  <2>1. /\ in.kind \in Resources /\ in \in InputsOf(in.kind)
        /\ out = Computed(in) /\ Computed(in) # Failed
    BY Reached
  <2> DEFINE m == FromProfiles(in, WithDefaults(in, in.user), in.profile)
  <2>2. m # Failed /\ out = ApplyOverrides(in.name, in.namespace, ApplyFipsValues(m, in.fips))
    BY <2>1, Results
  <2>3. m \in AllValues
    <3>1. WithDefaults(in, in.user) \in AllValues
      BY <2>1, Defaults
    <3> QED BY <2>1, <2>2, <3>1, Filled
  <2> HIDE DEF m
  <2> DEFINE p == ApplyFipsValues(m, in.fips)
  <2>4. p \in AllValues
    BY <2>3, WithFips
  <2>5. out = ApplyOverrides(in.name, in.namespace, p)
    BY <2>2
  <2> HIDE DEF p
  <2> QED BY <2>4, <2>5, Overridden DEF validateRevision
<1> QED
  BY <1>1, Invariant, PTL

\* The fields that decide whether the CNI is needed.
CNIFields == {"global.platform", "pilot.cni.enabled"}

\* What the second half of the computation does to them: nothing.
LEMMA CNIFieldsLeft ==
  ASSUME NEW values \in AllValues, NEW i \in InputsOf("Istio"), NEW f \in CNIFields
  PROVE  /\ f \in Fields /\ f \notin ImageFields
         /\ ApplyOverrides(i.name, i.namespace, ApplyFipsValues(values, i.fips)) \in AllValues
         /\ ApplyOverrides(i.name, i.namespace, ApplyFipsValues(values, i.fips))[f] = values[f]
<1> DEFINE p == ApplyFipsValues(values, i.fips)
<1>1. f \in Fields /\ f \notin ImageFields /\ f \in Fields \ Overrides("Istio")
  BY FieldAssumption DEF CNIFields, OtherFields, ImageFields, Overrides
<1>2. p \in AllValues /\ p[f] = values[f]
  BY <1>1, WithFips DEF CNIFields
<1>3. i.name \in Contents /\ i.namespace \in Contents
  BY Inputs, InputAssumption DEF Resources
<1> HIDE DEF p
<1>4. ApplyOverrides(i.name, i.namespace, p) \in AllValues
      /\ ApplyOverrides(i.name, i.namespace, p)[f] = values[f]
  BY <1>1, <1>2, <1>3, Overridden
<1> QED
  BY <1>1, <1>4 DEF p

\* The second computation adds to the first one's result only what the first would
\* have added, had it been there.
LEMMA NothingToAdd ==
  ASSUME NEW i \in InputsOf("Istio"), Computed(i) # Failed
  PROVE  /\ Computed(i) \in AllValues
         /\ ComputeValues(i, Computed(i), Empty) # Failed
         /\ \A f \in CNIFields : ComputeValues(i, Computed(i), Empty)[f] = Computed(i)[f]
<1> DEFINE w == WithDefaults(i, i.user)
           m == FromProfiles(i, w, i.profile)
           o == Computed(i)
           names == resolve(DefaultProfile(i.platform), i.profile)
           last == Profiles[names[Len(names)]]
<1>0. i.kind = "Istio" /\ i.vendor \in AllValues /\ i.user \in AllValues /\ i.digests \in BOOLEAN
      /\ i.platform \in Platforms /\ i.platform \in {Empty, "kubernetes", "openshift"}
      /\ "Istio" \in Resources
  BY Inputs, InputAssumption DEF Resources
<1>1. m # Failed /\ o = ApplyOverrides(i.name, i.namespace, ApplyFipsValues(m, i.fips))
  BY <1>0, Results
<1>2. /\ w \in AllValues
      /\ \A f \in CNIFields : w[f] = Unset => i.vendor[f] = Unset
  <2>1. \A f \in CNIFields : f \in Fields /\ f \notin ImagesOf("Istio")
    BY FieldAssumption DEF CNIFields, OtherFields, ImagesOf
  <2>2. /\ w \in AllValues
        /\ \A f \in Fields :
             /\ i.user[f] # Unset => w[f] = i.user[f]
             /\ (i.vendor[f] # Unset /\ i.user[f] = Unset) =>
                  w[f] = i.vendor[f] \/ f \in ImagesOf("Istio")
    BY <1>0, Defaults
  <2> HIDE DEF w
  <2> QED BY <2>1, <2>2
<1>3. /\ m \in AllValues
      /\ \A f \in Fields : m[f] = Unset =>
           /\ w[f] = Unset /\ Profiles["default"][f] = Unset
           /\ f = "global.platform" => i.platform \in {Empty, "kubernetes"}
  <2>1. \A n \in DOMAIN names : names[n] \in DOMAIN Profiles
    BY <1>1 DEF FromProfiles
  <2>2. /\ m \in AllValues
        /\ \A f \in Fields :
             m[f] = IF w[f] # Unset THEN w[f]
                    ELSE IF last[f] # Unset THEN last[f]
                    ELSE IF Profiles["default"][f] # Unset THEN Profiles["default"][f]
                    ELSE IF f = "global.platform" /\ i.platform \notin {Empty, "kubernetes"}
                    THEN i.platform ELSE Unset
    BY <1>0, <1>2, <2>1, Profiled
  <2>3. i.platform \notin {Empty, "kubernetes"} => i.platform # Unset
    BY <1>0, UnsetAssumption, ContentAssumption
  <2> HIDE DEF m, w, last
  <2> QED BY <2>2, <2>3
<1> HIDE DEF w, m, names, last
<1>4. o \in AllValues /\ \A f \in CNIFields : f \in Fields /\ f \notin ImageFields /\ o[f] = m[f]
  BY <1>1, <1>3, CNIFieldsLeft DEF CNIFields
<1> HIDE DEF o
<1> DEFINE d == ApplyDigests("Istio", o, i.digests)
           w2 == WithDefaults(i, o)
           names2 == resolve(DefaultProfile(i.platform), Empty)
           last2 == Profiles[names2[Len(names2)]]
           m2 == FromProfiles(i, w2, Empty)
<1>5. w2 \in AllValues
      /\ \A f \in CNIFields : w2[f] = IF o[f] # Unset THEN o[f] ELSE i.vendor[f]
  <2>1. ImagesOf("Istio") \subseteq ImageFields
    BY DEF ImagesOf, ImageFields
  <2>2. d \in AllValues /\ \A f \in Fields : f \notin ImagesOf("Istio") => d[f] = o[f]
    <3>1. o \in AllValues /\ i.digests \in BOOLEAN
      BY <1>0, <1>4
    <3> QED BY ONLY <3>1, Digests
  <2>3. w2 = ApplyVendorDefaults("Istio", d, i.vendor)
    BY <1>0 DEF WithDefaults
  <2> HIDE DEF d, w2
  <2>4. w2 \in AllValues /\ \A f \in Fields : w2[f] = IF d[f] # Unset THEN d[f] ELSE i.vendor[f]
    BY <1>0, <2>2, <2>3, VendorDefaults
  <2> QED BY <1>4, <2>1, <2>2, <2>4
<1>6. /\ names2[Len(names2)] = DefaultProfile(i.platform)
      /\ \A n \in DOMAIN names2 : names2[n] \in DOMAIN Profiles
  <2>1. DefaultProfile(i.platform) \in DOMAIN Profiles
    BY <1>0, ProfileAssumption, OpenShiftAssumption DEF DefaultProfile
  <2> QED BY <2>1, ProfileNamesInOrder, ProfileAssumption
<1>7. /\ m2 \in AllValues /\ m2 # Failed
      /\ \A f \in Fields :
           m2[f] = IF w2[f] # Unset THEN w2[f]
                   ELSE IF last2[f] # Unset THEN last2[f]
                   ELSE IF Profiles["default"][f] # Unset THEN Profiles["default"][f]
                   ELSE IF f = "global.platform" /\ i.platform \notin {Empty, "kubernetes"}
                   THEN i.platform ELSE Unset
  BY <1>0, <1>5, <1>6, Profiled
<1>8. last2 = Profiles[DefaultProfile(i.platform)]
  BY <1>6
<1> HIDE DEF w2, names2, last2, m2
<1>9. ASSUME NEW f \in CNIFields PROVE m2[f] = o[f]
  <2>1. f \in Fields /\ o[f] = m[f]
    BY <1>4
  <2>2. CASE o[f] # Unset
    BY <1>5, <1>7, <2>1, <2>2
  <2>3. CASE o[f] = Unset
    <3>1. /\ w[f] = Unset /\ i.vendor[f] = Unset /\ Profiles["default"][f] = Unset
          /\ f = "global.platform" => i.platform \in {Empty, "kubernetes"}
      BY <1>2, <1>3, <2>1, <2>3
    <3>2. w2[f] = Unset
      BY <1>5, <2>3, <3>1
    <3>3. last2[f] = Unset
      <4>1. CASE i.platform = "openshift"
        <5>1. f = "pilot.cni.enabled" /\ DefaultProfile(i.platform) = "openshift"
          BY <3>1, <4>1 DEF CNIFields, DefaultProfile, Empty
        <5> QED BY <1>0, <1>8, <4>1, <5>1, OpenShiftAssumption
      <4>2. CASE i.platform # "openshift"
        BY <1>8, <3>1, <4>2 DEF DefaultProfile
      <4> QED BY <4>1, <4>2
    <3> QED BY <1>7, <2>1, <2>3, <3>1, <3>2, <3>3
  <2> QED BY <2>2, <2>3
<1> DEFINE r == ApplyOverrides(i.name, i.namespace, ApplyFipsValues(m2, i.fips))
<1>10. ComputeValues(i, o, Empty) = r
  BY <1>7 DEF ComputeValues, m2, w2
<1>11. r \in AllValues /\ \A f \in CNIFields : r[f] = m2[f]
  BY <1>7, CNIFieldsLeft DEF CNIFields
<1>12. r # Failed
  BY <1>11, ResultAssumption
<1> HIDE DEF r
<1> QED
  BY <1>4, <1>9, <1>10, <1>11, <1>12 DEF o

(***************************************************************************)
(* Whether a revision depends on the IstioCNI is computed from values that *)
(* are not those installed: once more through digests, vendor defaults and *)
(* profiles, without the profile the user chose.  It still is what the     *)
(* installed values say.                                                   *)
(***************************************************************************)
THEOREM DependencyIsAsInstalled == Spec => []DependencyAsInstalled
<1>1. Inv => DependencyAsInstalled
  <2> SUFFICES ASSUME Inv, Done, in.kind = "Istio"
               PROVE  DependsOnIstioCNI(in, out) <=> NeedsCNI(out)
    BY DEF DependencyAsInstalled
  <2>1. in \in InputsOf("Istio") /\ out = Computed(in) /\ Computed(in) # Failed
    BY Reached
  <2> DEFINE r == ComputeValues(in, out, Empty)
  <2>2. r # Failed /\ r["global.platform"] = out["global.platform"]
        /\ r["pilot.cni.enabled"] = out["pilot.cni.enabled"]
    BY <2>1, NothingToAdd DEF CNIFields
  <2>3. DependsOnIstioCNI(in, out) <=> r # Failed /\ NeedsCNI(r)
    BY DEF DependsOnIstioCNI
  <2> HIDE DEF r
  <2> QED BY <2>2, <2>3 DEF NeedsCNI
<1> QED
  BY <1>1, Invariant, PTL
=============================================================================
