SPECIFICATION FollowSpec
CONSTANT Actor = {a1, a2}
PROPERTIES
  UnresolvableIsNotUnfollowed
