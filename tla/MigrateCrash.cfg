SPECIFICATION FairSpec
CONSTANTS
  server = server
  setpassword = setpassword
  Processes = {server}
  Files <- AllFiles
  StatementsOf <- MCStatementsOf
  Once = {"add column"}
  MaxStops = 1
PROPERTY EventuallyOpen
CHECK_DEADLOCK FALSE
