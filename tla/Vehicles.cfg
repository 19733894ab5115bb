CONSTANTS
  anna = anna
  ben = ben
  car1 = car1
  car2 = car2
  car3 = car3
  Accounts = {anna, ben}
  Cars = {car1, car2, car3}
  Listed <- MCListed
  BadVin = {car3}
  Requests = {r1, r2}
  MaxFetches = 2
SYMMETRY Symmetry
SPECIFICATION Spec
INVARIANTS ListComplete
PROPERTIES SoloRepairs DataKeptWithoutFetch
CHECK_DEADLOCK FALSE
