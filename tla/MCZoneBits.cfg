\* Two mounts stamping and reclaiming zones while the zone size changes: the exclusive bits get_data_alloc_zone_bits computes.
CONSTANTS
  Rids = {1, 2}
  TotalDataBlocks = 4
  MaxZones = 2
  DataFillTarget = 1
  ZoneInputs = {1, 2, 4}
  ExtentLens = {1, 2}
SPECIFICATION Spec
INVARIANT ZoneBitsAsSpecified
