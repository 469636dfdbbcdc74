---- MODULE MCSPSCRing ----
(* Two slots, two-word messages, two message contents: every slot is reused *)
(* several times within MaxPush pushes.                                     *)
EXTENDS SPSCRing
====
