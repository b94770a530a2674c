SPECIFICATION MaintenanceSpec
CONSTANTS
  Uploads = {u1}
  Clients = {c1, c2}
  NoUpload = NoUpload
  MaxAborts = 2
  Items = {"k"}
  Papers = {"d"}
  RevisionsOf <- KeptRevisions
  Parents = {"p"}
  MaxRows = 1
  Width = 2
  NoRevision = "none"
INVARIANTS
  StoresAgree
PROPERTIES
  StorageSettles
  RetainedIsWhole
  AgedIsPurged
