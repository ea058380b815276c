CONSTANTS
  Fields <- MCFields
  NumberFields = {"file.new_uid"}
  ArrayFields = {"process.ancestors[].comm"}
  FieldLike = {"file.read", "file.write", "file.gone", "process.exec", "network.dns", "process.typo"}
  Numbers = {"0", "7"}
  KnownTypes = {"file.read", "file.write", "process.exec", "network.dns"}
  CategoryOf <- MCCategoryOf
  StartPairs <- MCStartPairs
  PartPairs <- MCPartPairs
  Dirs <- MCDirs
  EditedDirs <- MCEditedDirs
  Events <- MCEvents
  MaxEdits = 1
SPECIFICATION Spec
INVARIANTS
  EngineInv
  NoMatchLost
PROPERTIES
  ReloadIsStrict
