SPECIFICATION Spec
CONSTANTS
  None = None
  NoUpdate = NoUpdate
  MaxUpdates = 3
  Bands <- MCBands
  BandRadio <- MCBandRadio
  Slug <- MCSlug
  HostOf <- MCHostOf
  Addresses = {"n"}
  WebUrls = {"land", "http://b/portal"}
  PortalUrls = {"http://b/portal"}
  ControllerUrl = None
  Requests <- MCRequests
  Macs = {"m1", "m2"}
  Limits = {1, 2}
INVARIANTS AppliedIsServed NetworksExist RejectedUntouched PortalFromOneUpdate 
