------------------------- MODULE MCSecretRotation -------------------------
(* Instances of SecretRotation for TLC. *)
EXTENDS SecretRotation

NotServer == {"client", "auth", "db"}
===========================================================================
