---------------------------- MODULE MCIonAnchor ----------------------------
(* Instances of IonAnchor for TLC. *)
EXTENDS IonAnchor

(* append() of the Go runtime for fewer than 256 elements of 16 bytes. *)
Double(c) == 2 * c
=============================================================================
