SPECIFICATION NegFairSpec
CONSTANTS
  w1 = w1
  w2 = w2
  Workers <- MCWorkers
  MaxVersion = 3
  MaxOffers = 3
  MaxFaults = 1
  Polite = TRUE
INVARIANTS
  NegTypeOK
  OneOfferOutstanding
PROPERTIES
  ChangesReachClient
  ClientOfferSettles
