--------------------------- MODULE MCOverSampling ---------------------------
(* Small instances of OverSampling. *)
EXTENDS OverSampling

(* Request 1 may call tools and talk to a user, the others only answer.    *)
Config(validate, target, mayFail) ==
  [validate |-> validate, target |-> target, mayFail |-> mayFail,
   tools |-> {1}, interaction |-> {1}]

MCConfigs == {Config(FALSE, 2, TRUE), Config(FALSE, 0, FALSE), Config(TRUE, 3, TRUE)}
=============================================================================
