CONSTANTS
  owner = owner
  colleague = colleague
  ana = ana
  ben = ben
  Owner = owner
  Listed = {colleague}
  Others = {ana, ben}
  Nobody = Nobody
  OpenSignup = TRUE
  MaxUsers = 2
  Attempts = {1, 2}
  Threads = {"s", "t"}
  Lifetime = 3
  IdleTimeout = 2
  Horizon = 3
  MaxId = 3
SPECIFICATION Spec
INVARIANTS OwnSession OwnerKeepsHistory
PROPERTIES NotOverfull SessionsEnd
