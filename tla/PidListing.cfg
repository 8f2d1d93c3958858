SPECIFICATION Spec
CONSTANTS
  EntryKeys = {"tcp80", "udp53"}
  Names = {1, 2}
  Details = {"listen", "established"}
  MaxEntries = 4
  MaxListing = 5
  Workers = {4, 8}
  MaxThere = 10
  Capacities = {2, 3}
  MaxCapacity = 8
  Sizes = {1, 2, 5, 9, 16, 17, 20}
  Heights = {0, 10, 20, 21, 22, 23, 24, 25, 26, 28, 30, 34, 40}
  Numeral <- MCNumeral
INVARIANTS
  PidListingIsComplete
