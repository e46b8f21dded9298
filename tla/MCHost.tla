------------------------------- MODULE MCHost -------------------------------
(* Instances of Host for TLC.                                              *)
EXTENDS Host

MCVm == {1, 2}
MCCpuCores == {1, 2, 3}
MCRequests == {<<"a">>, <<"b">>}
MCCores == [a |-> 2, b |-> 1]
MCDeployment == [a |-> <<"local">>, b |-> <<"local", "local">>, h |-> <<"local", "iot">>]
=============================================================================
