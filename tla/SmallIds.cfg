SPECIFICATION Spec
CONSTANTS
  Threads = {t1, t2, t3, t4, t5}
  NULL = NULL
  EntrySize = 3
  PageSize = 7
  HAZARD_TABLE_MAX_SIZE = 8
SYMMETRY Symmetry
INVARIANTS IdsAreOwn ScanCoversAll
PROPERTIES GuardsStay
