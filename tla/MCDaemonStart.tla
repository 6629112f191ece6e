--------------------------- MODULE MCDaemonStart ---------------------------
(***************************************************************************)
(* The TPMs of DaemonStart: one has a certificate at the first index and   *)
(* something too short at the second, the other nothing at the first and   *)
(* four bytes or more that are neither certificate nor key at the second;  *)
(* both have the EK itself.  Each read may fail, so each kind of EK and    *)
(* none at all can be sent.                                                *)
(***************************************************************************)
EXTENDS DaemonStart

CONSTANTS d1, d2, m1, k1

Holds(rsa, ecc, key) ==
    [nvRsa |-> rsa, nvEcc |-> ecc, handle |-> key]

SomeTpms ==
    {Holds("x509", "short", "raw"), Holds("none", "junk", "raw")}

=============================================================================
