SPECIFICATION Spec
CONSTANTS
  Names = {"w", "b", "c", "d", "s", "i"}
  Scripts = {"s"}
  Hosts = {"shop", "blog"}
  Addresses = {"local", "public"}
  Servers <- MCServers
  Disks <- MCDisks
  MaxLength = 4
CHECK_DEADLOCK FALSE
INVARIANTS
  TypeOK
  MostSpecific
  BelowRoot
  SplitsURI
  NameLeadsBack
PROPERTIES
  RemovesOneUpload
