CONSTANTS
  ChannelMaps <- MC_RfuMaps
  HopAndScas <- MC_HopAndScas
SPECIFICATION Spec
INVARIANT DataChannelOnly
