-------------------------- MODULE MCConfigBarrier --------------------------
(* Model values for ConfigBarrier: one structural, one configuration and   *)
(* one parameter command.                                                  *)
EXTENDS ConfigBarrier, TLC

CONSTANTS c1, c2, load, link, param

TwoClients == {c1, c2}
AllCommands == {load, link, param}
RequiredLevels == load :> LoadLevel @@ link :> ConfigLevel @@ param :> ParamsLevel

=============================================================================
