CONSTANTS
  guide = guide  porter = porter  rider = rider  friend = friend  mate = mate  pirate = pirate  seal = seal
  cog = cog  boat = boat  red = red  blue = blue  None = None
  hill = hill  bay = bay  gulf = gulf  sound = sound  ocean = ocean  fire = fire
  Units <- MCUnits
  Ships <- MCShips
  Map <- MCMap
  Ways <- MCWays
  Sea = {gulf, sound, ocean}
  Forbidden = {fire}
  Walls <- MCWalls
  Roads <- MCRoads
  Faction <- MCFaction
  Friends <- MCFriends
  Traits <- MCTraits
  Skill <- MCSkill
  Weight <- MCWeight
  Strength <- MCStrength
  Cargo <- MCCargo
  Crew <- MCCrew
  Reach <- MCReach
  Landing <- MCLanding
  Boats = {boat}
  Scenes <- MCScenes
  MaxDamage = 3
SPECIFICATION Spec
INVARIANTS
  OneTrip
  FollowersAreAsked
  NobodyCarriesTooMuch
PROPERTY MovementEnds
