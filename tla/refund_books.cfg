SPECIFICATION Spec
CONSTANTS
  c1 = c1
  c2 = c2
  c3 = c3
  ada = ada
  eve = eve
  Calls <- MCCalls
  Customers <- MCCustomers
  Strangers <- MCStrangers
  Balance <- MCBalance
  Parts = 4
  Amounts <- MCAmounts
  NoCall = NoCall
INVARIANTS ReceiptsAreTheLedger AccountIsConsistent
PROPERTY ChargedWhatWasAsked
CHECK_DEADLOCK FALSE
