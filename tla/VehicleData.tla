----------------------------- MODULE VehicleData -----------------------------
(***************************************************************************)
(* The enumerations of the vehicles' protocol and the parts of their       *)
(* composite values.  Values are numbered without gaps from zero, the      *)
(* unknown value; a function gives the last number of each.  A number      *)
(* above it, from newer firmware, has no name and prints as a number.      *)
(* Enumerations have the names of the kinds of values that carry them.     *)
(***************************************************************************)
EXTENDS Naturals

Charging == [ChargingValue |-> 6, DetailedChargeStateValue |-> 6]
Gearbox == [ShiftStateValue |-> 6, FollowDistanceValue |-> 7]
Assistance ==
  [ForwardCollisionSensitivityValue |-> 4, GuestModeMobileAccessValue |-> 18]
LanesAndSchedules == [LaneAssistLevelValue |-> 3, ScheduledChargingModeValue |-> 3]
Guards == [SentryModeStateValue |-> 6, SpeedAssistLevelValue |-> 3]
Batteries == [BmsStateValue |-> 10, BuckleStatusValue |-> 3]
Ports == [CarTypeValue |-> 6, ChargePortValue |-> 4]
Latches == [ChargePortLatchValue |-> 4, DriveInverterStateValue |-> 5]
Windows == [HvilStatusValue |-> 2, WindowStateValue |-> 3]
Seats == [SeatFoldPositionValue |-> 5, TractorAirStatusValue |-> 6]
Trailers == [TrailerAirStatusValue |-> 7, HvacAutoModeValue |-> 2]
Cabin ==
  [CabinOverheatProtectionModeValue |-> 3, CabinOverheatProtectionTemperatureLimitValue |-> 3]
Climate == [DefrostModeValue |-> 4, ClimateKeeperModeValue |-> 4]
Chargers == [HvacPowerValue |-> 4, FastChargerValue |-> 8]
Tonneau == [CableTypeValue |-> 5, TonneauTentModeValue |-> 4]
Powershare == [TonneauPositionValue |-> 4, PowershareStateValue |-> 6]
PowershareReasons == [PowershareStopReasonValue |-> 7, PowershareTypeValue |-> 3]
Displays == [DisplayStateValue |-> 10, DistanceUnitValue |-> 2]
Units ==
  [TemperatureUnitValue |-> 2, PressureUnitValue |-> 2, ChargeUnitPreferenceValue |-> 2]
Media == [SunroofInstalledStateValue |-> 3, TurnSignalStateValue |-> 4]
Players == [MediaStatusValue |-> 3]

Enumerations ==
  {Charging, Gearbox, Assistance, LanesAndSchedules, Guards, Batteries, Ports, Latches, Windows,
   Seats, Trailers, Cabin, Climate, Chargers, Tonneau, Powershare, PowershareReasons, Displays,
   Units, Media, Players}
Enums == UNION {DOMAIN numbers : numbers \in Enumerations}
LastNumber ==
  [kind \in Enums |-> (CHOOSE numbers \in Enumerations : kind \in DOMAIN numbers)[kind]]

\* Fields are named by strings; a field of newer firmware prints as its number.
Unnamed == {"260", "261"}
Field_name(key) == IF key \in Unnamed THEN "" ELSE key

Numbers == {"FloatValue", "IntValue", "DoubleValue", "LongValue"}
Declared(kind) == 0..LastNumber[kind]

Doors == {"DriverFront", "PassengerFront", "DriverRear", "PassengerRear", "TrunkFront", "TrunkRear"}
Tires == {"FrontLeft", "FrontRight", "RearLeft", "RearRight"}
SemiTires == Tires \cup {"SemiMiddleAxleLeft2", "SemiMiddleAxleRight2", "SemiRearAxleLeft",
                         "SemiRearAxleRight", "SemiRearAxleLeft2", "SemiRearAxleRight2"}

\* A location, in degrees; south and west are negative.
Place(latitude, longitude) == [latitude |-> latitude, longitude |-> longitude]

\* A value of a datum: the member of the oneof that is set, and its content.
Kind(value) == value[1]
Content(value) == value[2]
Datum(key, value) == [key |-> key, value |-> value]
=============================================================================
