CONSTANTS
  NameBits = 3
  SectionElders <- MCFirstElders
  SectionMembers <- MCFirstMembers
  Joiner = 3
  Seed = 0
  UserDsts <- MCFirstUserDsts
  MaxUserMsgs = 2
  RelayTable <- MCRelayTable
SPECIFICATION Spec

PROPERTIES UserMessagesDelivered

CHECK_DEADLOCK FALSE
