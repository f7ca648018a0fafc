--------------------------- MODULE MCApprovalGate ---------------------------
EXTENDS ApprovalGate
=============================================================================
