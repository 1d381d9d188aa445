CONSTANTS
  ChannelMaps <- MC_ValidMaps
  HopAndScas <- MC_HopAndScas
SPECIFICATION Spec
INVARIANTS TypeOK SelectsUsedChannel Coverage DataChannelOnly
