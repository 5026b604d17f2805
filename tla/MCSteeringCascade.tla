-------------------------- MODULE MCSteeringCascade ----------------------------
(* Instances of SteeringCascade for TLC.                                        *)
EXTENDS SteeringCascade
================================================================================
