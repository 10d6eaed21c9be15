----------------------------- MODULE MCDataPacket -----------------------------
EXTENDS PacketConversion, TLC

AllGroups == {"orientation", "counter", "status", "time", "raw", "values", "place", "gps", "legacy"}
OneRotation == {<<1, 2, 3, 4>>}
OneVelocity == {<<1, 2, 3>>}
OnePerTwo == [float |-> 2, double |-> 1]
Symmetry == Permutations(Packets)

Dev(mode, settings, real) == [mode |-> mode, settings |-> settings, real |-> real]
System(xm, formats, sends) == [xm |-> xm, formats |-> formats, sends |-> sends]
MCSystems ==
  {System(FALSE, <<Dev({"Calibrated", "Orientation"}, {"PacketCounter"}, 4)>>,
     <<<<<<"calAcc", 12>>, <<"calGyr", 12>>, <<"calMag", 12>>, <<"oriQuat", 16>>, <<"sc", 2>>>>>>),
   System(TRUE, <<Dev({"Temperature", "Calibrated"}, {"ExtendedTemperature", "NoAcc"}, 6),
                  Dev({"Raw", "Status"}, {}, 4)>>,
     <<<<<<"temp", 6>>, <<"gyroTemp1", 6>>, <<"gyroTemp2", 6>>, <<"gyroTemp3", 6>>,
         <<"calGyr", 18>>, <<"calMag", 18>>>>,
       <<<<"rawAcc", 6>>, <<"rawGyr", 6>>, <<"rawMag", 6>>, <<"rawTemp", 2>>, <<"status", 1>>>>>>),
   System(FALSE, <<Dev({"Raw", "Auxiliary", "Orientation"}, {"ExtendedTemperature", "NoAin2", "Euler"}, 4)>>,
     <<<<<<"rawAcc", 6>>, <<"rawGyr", 6>>, <<"rawMag", 6>>, <<"rawTemp", 2>>,
         <<"rawGyroTemp1", 2>>, <<"rawGyroTemp2", 2>>, <<"rawGyroTemp3", 2>>,
         <<"oriEul", 12>>, <<"analogIn1", 2>>>>>>),
   System(TRUE, <<Dev({"Sdi", "Status"}, {"Detailed"}, 4), Dev({"Status"}, {}, 4)>>,
     <<<<<<"sdiHead", 7>>, <<"sdiLast", 2>>, <<"sdiMotion", 40>>, <<"sdiAir", 3>>,
         <<"sdiMag", 12>>, <<"sdiRssi", 1>>, <<"detailedStatus", 4>>>>, <<<<"status", 1>>>>>>),
   System(FALSE, <<Dev({}, {}, 4)>>, <<<<>>>>),
   System(TRUE, <<Dev({"GpsPvt"}, {"NoGpsInGpsPvt"}, 4), Dev({"Sdi"}, {}, 8)>>,
     <<<<<<"pressure", 3>>>>,
       <<<<"sdiHead", 7>>, <<"sdiLast", 2>>, <<"sdiMotion", 80>>, <<"sdiAir", 3>>,
         <<"sdiMag", 24>>, <<"sdiRssi", 1>>>>>>),
   System(FALSE, <<Dev({"GpsPvt", "Orientation", "Position", "Velocity"}, {"Matrix", "SampleUtc", "SampleTimeFine"}, 4)>>,
     <<<<<<"pressure", 3>>, <<"gpsData", 41>>, <<"oriMat", 36>>, <<"posLLA", 12>>,
         <<"velocity", 12>>, <<"utcTime", 12>>, <<"sampleTimeFine", 4>>>>>>),
   System(TRUE, <<Dev({"GpsPvt", "Velocity"}, {"NoGpsInGpsPvt"}, 4),
                  Dev({"GpsPvt", "Orientation", "Position"}, {"Matrix", "Ned"}, 8)>>,
     <<<<<<"pressure", 3>>, <<"velocity", 12>>>>,
       <<<<"pressure", 3>>, <<"gpsData", 41>>, <<"oriMat", 72>>, <<"posLLA", 24>>>>>>)}
MCTopics ==
  {{"calAcc", "calData"}, {"oriEul", "oriMat"}, {"posLLA", "velocity"}, {"velocity", "freeAcc"},
   {"rawGyr", "rawTemp", "rawData"}, {"rawGyroTemp1", "gyroTemp2", "temp"},
   {"pressure", "gpsPvtData", "utcTime"}, {"sdiData", "sc", "anyStatus"}}
================================================================================
