SPECIFICATION Spec
CONSTANTS
  web = web
  disc = disc
  twin = twin
  remux = remux
  uhd = uhd
  cut = cut
  plain = plain
  Releases = {web, disc, twin, remux, uhd, cut, plain}
  Features <- MCFeatures
  Owned = {web, disc, plain}
  SupersedeEnabled = TRUE
  DeleteLower = TRUE
INVARIANTS
  NoWayBack
PROPERTY UpgradesOnly
