SPECIFICATION Spec
CONSTANTS
  Orders <- MCOrders
INVARIANTS TypeOK NoDoubleBilling FinalSettlesNewestPrepayment CorrectivesHaveBases
PROPERTIES ProformaComesFirst OwnProformaIsConverted
