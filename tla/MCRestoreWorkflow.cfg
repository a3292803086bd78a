SPECIFICATION Spec
INVARIANTS
  TypeOK
  PayloadStartsClean
  EraseBelief
  UpdateBelief
PROPERTIES
  BootArgsSavedBeforeErase
  DowngradeClearsBootArgs
  EraseOnlyDelivers
  DowngradeDelivers
  DefaultPreservesBaseband
  EveryRunEnds
