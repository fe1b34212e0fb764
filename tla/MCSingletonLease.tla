--------------------------- MODULE MCSingletonLease ---------------------------
(* Small instances of SingletonLease for TLC. *)
EXTENDS SingletonLease, TLC

CONSTANTS a, b, c

MCThree == {a, b, c}
=============================================================================
