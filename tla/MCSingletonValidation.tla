------------------------ MODULE MCSingletonValidation ------------------------
(* Instances of SingletonValidation: the calls for one launcher id.        *)
EXTENDS SingletonValidation

CONSTANTS c1, c2
===============================================================================
