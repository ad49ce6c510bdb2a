\* The ticker of an offer.
SPECIFICATION Spec
CONSTANTS
  r1 = r1
  r2 = r2
  t1 = t1
  t2 = t2
  u1 = u1
  u2 = u2
  x1 = x1
  x2 = x2
  none = none
  gone = gone
  Rows <- TwoRows
  Populated <- OneRow
  Tabs <- OneTab
  Threads <- TwoThreads
  Texts <- MCTexts
  Rewards <- MCRewards
  Tickers <- MCTexts
  PerDay = 2
  Window = 1
  Horizon = 2
  MaxVersion = 1
  NoRow <- none
  Gone <- gone
  NoForm <- none
  NoRequest <- none
SYMMETRY MCSymmetry
PROPERTY OfferTickerIsFree
\* The clock and the sequence are bounded: at the end nothing is left to do.
CHECK_DEADLOCK FALSE
