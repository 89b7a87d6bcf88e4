SPECIFICATION FairSpec
CONSTANTS
  server = server
  setpassword = setpassword
  Processes = {server, setpassword}
  Files <- AllFiles
  StatementsOf <- MCStatementsOf
  Once = {"add column"}
  MaxStops = 3
INVARIANT MigrateInv
INVARIANT OpenMeansMigrated
PROPERTY OpensUnlessTorn
CHECK_DEADLOCK FALSE
