------------------------------ MODULE MCValues ------------------------------
(***************************************************************************)
(* Values with the profiles that the operator comes with, as far as they   *)
(* set fields that are modelled, and one more that sets most of them.  The *)
(* user sets up to two fields, the vendor one.                             *)
(***************************************************************************)
EXTENDS Values, FiniteSets, FiniteSetsExt

MCFields == ImageFields \cup OtherFields

MCContents ==
  {"", "true", "false", "digest", "openshift", "kubernetes", "fips-140-2", "user", "vendor",
   "profile", "istio-system", "default", "prod"}

Holding(f, source) ==
  CASE f = "pilot.cni.enabled" -> {"true", "false"}
    [] f = "global.platform"   -> {source, "openshift"}
    [] OTHER                   -> {source}

\* The fields that exist for each kind of resource.
FieldsOf(kind) ==
  {"global.hub", "global.tag", "global.platform"} \cup
  CASE kind = "Istio" -> OtherFields \cup {"pilot.image", "pilot.hub", "pilot.tag",
                                           "global.proxy.image", "global.proxy_init.image"}
    [] kind = "IstioCNI" -> {"cni.image", "cni.hub", "cni.tag"}
    [] kind = "ZTunnel"  -> {"ztunnel.image", "ztunnel.hub", "ztunnel.tag"}

Filled(kind, source, n) ==
  UNION {LET choices == UNION {Holding(f, source) : f \in S}
         IN {[f \in MCFields |-> IF f \in S THEN c[f] ELSE Unset] :
              c \in {c \in [S -> choices] : \A f \in S : c[f] \in Holding(f, source)}} :
         S \in UNION {kSubset(k, FieldsOf(kind)) : k \in 0 .. n}}

Only(field, content) == [f \in MCFields |-> IF f = field THEN content ELSE Unset]

MCProfiles ==
  [p \in {"default", "openshift", "remote", "custom"} |->
     CASE p = "default" -> [Only("defaultRevision", "")
                              EXCEPT !["global.istioNamespace"] = "istio-system"]
       [] p = "openshift" -> Only("global.platform", "openshift")
       [] p = "remote"    -> [f \in MCFields |-> Unset]
       [] p = "custom"    -> [f \in MCFields |-> IF f \in {"image", "hub", "tag"} THEN Unset
                                                 ELSE "profile"]]

MCVersionFile ==
  <<[name |-> "latest", ref |-> "v2", eol |-> FALSE], [name |-> "v2", ref |-> "", eol |-> FALSE],
    [name |-> "v1", ref |-> "", eol |-> TRUE]>>

MCUserValues == [kind \in Resources |-> Filled(kind, "user", 2)]
MCVendors    == [kind \in Resources |-> Filled(kind, "vendor", IF kind = "ZTunnel" THEN 0 ELSE 1)]
=============================================================================
