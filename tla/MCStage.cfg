CONSTANTS
  NameBits = 3
  SectionElders <- MCSectionElders
  SectionMembers <- MCSectionMembers
  Joiner = 3
  Seed = 0
  UserDsts <- MCUserDsts
  MaxUserMsgs = 1
  RelayTable <- MCRelayTable
SPECIFICATION Spec

PROPERTIES UserMessagesDelivered Quiescence

CHECK_DEADLOCK FALSE
