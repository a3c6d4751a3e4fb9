SPECIFICATION RegistrySpec
CONSTANTS
  shipped = shipped
  uploaded = uploaded
  Static = {shipped}
  Uploads = {uploaded}
  NotLoaded = NotLoaded
  MaxLoads = 1
CHECK_DEADLOCK FALSE
INVARIANTS ServedAlongside
