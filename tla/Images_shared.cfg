CONSTANTS
  Doc = {d1, d2}
  Tenant = {t1, t2}
  h1 = h1
  h2 = h2
  icon = icon
  Hash = {h1, h2, icon}
  Noise = {icon}
  Shapes <- MCShapes
  Cap = 2
  Ingestions = 2
  Faults = {"payloadMissing", "downloadFails", "visionFails", "checkFails", "checkOvercounts", "upsertFails", "databaseFails"}

SPECIFICATION Spec
CHECK_DEADLOCK FALSE
SYMMETRY Symmetry
INVARIANTS TypeOK EveryImageFindable RepeatsIndexedOnce NoPhantomImages
PROPERTIES NothingOverwritten
