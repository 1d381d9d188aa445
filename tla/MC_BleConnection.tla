------------------------- MODULE MC_BleConnection -------------------------
(* Model values for the hopping engine: the channel maps of spec 6 and a   *)
(* two-channel map, hop increments 5, 7 and 16 (one with SCA bits set).   *)
EXTENDS BleConnection

\* all 37 data channels; channels 0..31; {0,4,8,12}; {1,36}; none
MC_ValidMaps == {<<255, 255, 255, 255, 31>>, <<255, 255, 255, 255, 0>>,
                 <<17, 17, 0, 0, 0>>, <<2, 0, 0, 0, 16>>,
                 <<0, 0, 0, 0, 0>>}

\* channel 0 and the RFU bit of channel 37
MC_RfuMaps == {<<1, 0, 0, 0, 32>>}

\* hop 5 with SCA = 7, hop 7, hop 16
MC_HopAndScas == {229, 7, 16}
=============================================================================
