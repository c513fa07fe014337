--------------------------- MODULE MCCredentials ----------------------------
(* An instance of Credentials for TLC: a hostname below the zones example  *)
(* and sub.example, of which a page holds one.                             *)
EXTENDS Credentials, TLC

CONSTANTS example, sub, app

ExampleHosts == {<<app, sub, example>>}
ExampleZones == {<<example>>, <<sub, example>>}
CredentialSymmetry == Permutations(Named)
=============================================================================
