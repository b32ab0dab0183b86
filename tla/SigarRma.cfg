SPECIFICATION Spec
CONSTANTS
  N = 3
  StdRates <- MCStdRates
  Value = {1, 4}
  Rate = {0, 2}
  MaxNow = 4
  MaxSamples = 4
  GivesTime = {TRUE, FALSE}
INVARIANTS TypeOK RingIsHistory AverageIsWindow SumIsOfWindow
