-------------------------- MODULE MCIonOperations --------------------------
(* Instances of IonOperations for TLC. *)
EXTENDS IonOperations

(* append() of the Go runtime for fewer than 256 elements of 16 bytes. *)
Double(c) == 2 * c
=============================================================================
