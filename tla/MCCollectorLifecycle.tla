------------------------ MODULE MCCollectorLifecycle ------------------------
(* Instances of CollectorLifecycle for TLC: the order of the collectors is *)
(* a sequence, which a configuration file cannot write.                    *)
EXTENDS CollectorLifecycle

CONSTANTS screen, terminal, reports

AllThree == <<screen, terminal, reports>>
=============================================================================
