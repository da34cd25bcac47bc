CONSTANTS
  MaxFrames = 3
  Cells = 2
  StreakMax = 2
SPECIFICATION FairSpec
INVARIANTS TypeOK PublishedIsWhole TornOnlyWhenLapped SuspendedSendsOne SuspendedStoresOne ModeIsReal
PROPERTIES ChannelSpec StreakHolds SuspensionClosesStream CameraRecovers
