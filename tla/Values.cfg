SPECIFICATION Spec
CONSTANTS
  Fields <- MCFields
  Contents <- MCContents
  Unset = Unset
  Pending = Pending
  Failed = Failed
  Profiles <- MCProfiles
  VersionFile <- MCVersionFile
  UserValues <- MCUserValues
  Vendors <- MCVendors
  Versions = {"latest", "v1"}
  ProfileNames = {"", "remote", "custom", "missing"}
  Platforms = {"kubernetes", "openshift"}
  Names = {"default", "prod"}
  Namespaces = {"istio-system"}
INVARIANT UserWins
INVARIANT DigestsRespectUser
INVARIANT VendorBeforeProfiles
INVARIANT RevisionAccepted
INVARIANT DependencyAsInstalled
CHECK_DEADLOCK FALSE
