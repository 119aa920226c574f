CONSTANTS
  Thread = {"ip", "web", "power", "led"}
  NoThread = NoThread
  Lock = {"power_lock", "console_lock", "nx_ip_protection"}
  Inherit = {"power_lock", "console_lock"}
  Rank <- MCRank
  User <- MCUser
  NoPrio = 32
  MaxCount = 2
SPECIFICATION Spec
INVARIANTS Inv NotOutranked SomeoneGoesOn
PROPERTIES HandedToMostUrgent
