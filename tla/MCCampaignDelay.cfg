SPECIFICATION CampaignSpec
CONSTANTS
  Scenarios = {xz, confusion, solarwinds, spawn, egress, tamper, rollout, burst, restart, loop}
  xz = xz  confusion = confusion  solarwinds = solarwinds  spawn = spawn  egress = egress
  tamper = tamper  rollout = rollout  burst = burst  restart = restart  loop = loop
  Manifest <- Catalogue
  Services = {"recommendation", "email", "cart"}
  Campaigns <- SomeCampaigns
  DetectionWindow = 1
  MaxPolls = 1
  LastDelay = 2
  Unknown = Unknown
CHECK_DEADLOCK FALSE
INVARIANTS
  FirstDetectionCounts
