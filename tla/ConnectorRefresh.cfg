SPECIFICATION FairConnectorSpec
CONSTANTS
  g = g
  j = j
  Types <- MCTypes
  Sources = {1, 2, 3}
  TypeOf <- MCTypeOf
  Elsewhere = {2}
  Admins = {a1, a2}
  Retrievals = {r1}
  MaxChanges = 2
CHECK_DEADLOCK FALSE
INVARIANT RegistryFollowsTheSources
INVARIANT RetrievalsKeepTheirScopes
INVARIANT AnswersSurviveFailures
PROPERTY RetrievalsEnd
