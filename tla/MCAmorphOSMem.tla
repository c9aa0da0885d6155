--------------------------- MODULE MCAmorphOSMem ----------------------------
(* Two ports, of one app or of two, after two channels.                    *)
EXTENDS AmorphOSMem

MCEnabledPorts == {{<<0, 0>>, <<0, 1>>}, {<<0, 0>>, <<1, 0>>}}
MCDeaf         == {<<0, 0>>}
=============================================================================
