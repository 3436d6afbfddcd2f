SPECIFICATION Spec
CONSTANTS
  SPI_FLASH_PageSize = 2
  SPI_FLASH_SectorSize = 4
  Sectors = 3
  Ranges <- MCRanges
INVARIANTS TypeOK WriteLands
PROPERTY Confined
