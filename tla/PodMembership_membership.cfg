SPECIFICATION Spec
CONSTANTS
    Device <- Household
    Who <- WhoHousehold
    Cases <- MembershipCases
CHECK_DEADLOCK FALSE
INVARIANTS OwnerKept NoLoop DepartureStands JoinAdmits
