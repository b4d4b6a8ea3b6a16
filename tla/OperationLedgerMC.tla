-------------------------- MODULE OperationLedgerMC --------------------------
(* Bounded instance of OperationLedger: two operation ids that may be confused *)
(* with each other's tuple, three Execute calls, one tuple that is malformed.  *)
EXTENDS OperationLedger, TLC

RefreshRef == [kind |-> "REFRESH_CREDENTIAL", pre |-> 1, target |-> 2]
PrimaryRef == [kind |-> "SET_PRIMARY_PROFILE", pre |-> 1, target |-> 1]
SkipRef == [kind |-> "REFRESH_CREDENTIAL", pre |-> 1, target |-> 3]

MCRefs == {RefreshRef, PrimaryRef, SkipRef}

=============================================================================
