SPECIFICATION Spec
CONSTANTS
  Catalogue <- MCCatalogue
  EventRows <- MCEventRows
  Bodies <- MCBodies
  Profiles <- MCProfiles
  Normalized <- MCNormalized
  Underscored <- MCUnderscored
  Alphabetical <- MCAlphabetical
  TransitionMinutes = 5
INVARIANTS
  TourFitsLimits
  NothingLeftOut
  PreferencesOnlyReorder
  ScheduleFollowsVisit
  EventsAreMet
CHECK_DEADLOCK FALSE
