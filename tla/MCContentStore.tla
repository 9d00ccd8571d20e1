--------------------------- MODULE MCContentStore ---------------------------
(***************************************************************************)
(* Two runs that share the log of one gate: it fails the same way in both. *)
(* The other log of the first is empty.  Its bundle is signed, to a name   *)
(* that may lead to the key, to the bundle or nowhere, beside a public key *)
(* and a signature that were made with another key.                        *)
(***************************************************************************)
EXTENDS Attestation

Log(text) == <<text>>

MCRuns   == {"ci", "local"}
MCLogs   == {Log("nothing"), Log("same failure")}
MCEmpty  == {Log("nothing")}
MCOutput == [r \in MCRuns |-> IF r = "ci" THEN <<Log("nothing"), Log("same failure")>>
                                          ELSE <<Log("same failure")>>]

MCSigned  == <<"ci", 1>>
Att == <<"att">>
Pub == <<"pub">>
MCOutputs == {Att, Pub}
MCEntries == [n \in MCOutputs |-> IF n = Att THEN {Att, KeyFile, MCSigned}
                                               ELSE {Nowhere, Pub, Symlink}]
MCFound == [n \in MCOutputs |->
              IF n = Att THEN {Attests([is |-> "full"], "other")}
                           ELSE {Torn, PublicText("runner")}]
MCCommands ==
  {[kind |-> "sign", output |-> Att, force |-> TRUE, check |-> FALSE],
   [kind |-> "sign", output |-> Pub, force |-> FALSE, check |-> TRUE],
   [kind |-> "derive", output |-> Att, force |-> TRUE, check |-> FALSE],
   [kind |-> "derive", output |-> Pub, force |-> FALSE, check |-> FALSE]}
=============================================================================
