--------------------------- MODULE MCFandFailsafe ---------------------------
(* One fan, one configuration. *)
EXTENDS Fand

MCConfigs ==
  {[zones |-> {1}, failsafe_pwm |-> 70, profile |-> "silent", curves |-> <<{"silent"}>>]}
=============================================================================
