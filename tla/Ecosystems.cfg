\* Each content stream's own logic.
CONSTANTS
  Areas = {"collect", "publish", "os", "containers", "hf"}
  PkgNames = {"a", "b", "c", "d"}
  PkgVersions = {1, 2, 3}
  Prereleases = {3}
  Published <- MCPublished
  Requires <- MCRequires
  SilentArchives <- MCSilentArchives
  Requests <- MCRequests
  MaxResolved = 3
  CondaSubdirs = 2
  ClockBack = FALSE
  FilterChanges = FALSE
  None = None
  HfNone = None
  Names = {"a", "b"}
  Versions = {1, 2}
  NoArch = "b"
  MaxCrashes = 1
  Bundles <- MCBundles
  Bad <- MCBad
  Faults <- MCFaults
  Packages <- MCPackages
  OsMaxCollects = 2
  OsMaxFaults = 1
  OsMaxCrashes = 1
  Docs <- MCDocs
  Kind <- MCKind
  Subject <- MCSubject
  Children <- MCChildren
  UpstreamReferrers <- MCReferrers
  CosignTag <- MCCosignTag
  Tags = {"t", "m1.sig"}
  Pins = {"ai"}
  Moves <- MCMoves
  MaxArtifacts = 6
  MaxFetches = 12
  MaxDepth = 2
  ConMaxCollects = 2
  ConMaxFaults = 1
  MaxClock = 2
  LegacyImages <- MCLegacyImages
  ModelTags = {"q4", "q8"}
  Manifests = {"m1", "m2"}
  Layers <- MCLayers
  Branches = {"main"}
  Commits = {"c1", "c2"}
  RepoFiles <- MCRepoFiles
  Plain = {"p"}
  MaxMoves = 1
  HfMaxCollects = 2
  HfMaxCrashes = 1
SPECIFICATION Spec
INVARIANTS EcosystemsTypeOK ManifestAccepted ClosedOrReported ListedIsInstalled ListedIsPresent
  BundleIsClosed DeliveredIsStaged
PROPERTIES IndexAccumulates DigestsStayPullable CompleteMeansAll
\* A collect that has exported or failed is over; every bundle gets imported.
CHECK_DEADLOCK FALSE
