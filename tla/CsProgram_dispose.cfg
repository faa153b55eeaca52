\* The whole program, with done read from memory or kept in a register.
SPECIFICATION CsFairSpec
INVARIANTS CsTypeOK IoCallLostOnlyLate
PROPERTIES MainReturns
