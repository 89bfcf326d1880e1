------------------------------ MODULE MCIpOut ------------------------------
(* Small instances of IpOut for TLC.                                        *)
EXTENDS IpOut

\* Every length up to four fragments, or those that leave a shorter last one.
AnyLength == 1 .. 22
LastIsShort == {n \in AnyLength : n <= MaxLength \/ n % MaxLength # 0}
=============================================================================
