--------------------------- MODULE MCCloudAccess ---------------------------
(***************************************************************************)
(* CloudAccess with configs and environments of every kind: a key, an      *)
(* address, a model and a place given by the owner, by the environment, by *)
(* both or by neither.                                                     *)
(***************************************************************************)
EXTENDS CloudAccess

MCOwn ==
  [base : {None, "own"},
   key : {None, "own_key", "own_service_key", "broken_service_key"},
   model : {None, "default", "own"},
   place : {None, "west"}]

MCEnv ==
  {[base |-> b, key |-> k, model |-> m, place |-> p, adc |-> a, awsKeys |-> w] :
      b \in {None, "env"}, k \in {None, "env_key", "env_service_key"},
      m \in {None, "env"}, p \in {None, "east"},
      a \in {"login"}, w \in {FALSE}}
  \cup
  {[base |-> "env", key |-> None, model |-> None, place |-> "east", adc |-> a, awsKeys |-> w] :
      a \in {"login", "machine", "malformed"}, w \in BOOLEAN}

(* For the regions of one provider.                                        *)
MCOwnPlaces ==
  [base : {None}, key : {None, "own_key"}, model : {None}, place : {None, "west"}]

MCEnvPlaces ==
  [base : {None}, key : {None}, model : {None}, place : {None, "east"},
   adc : {"login"}, awsKeys : BOOLEAN]
=============================================================================
