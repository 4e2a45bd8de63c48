------------------------------ MODULE MCWindow ------------------------------
(***************************************************************************)
(* A small instance of Window.                                             *)
(***************************************************************************)
EXTENDS Window

MCCmd(a, c) == [action |-> a, channel |-> c]
MCPattern == [action |-> "pattern", channel |-> 0]
MCNoFrame == [action |-> "none", channel |-> 0]
MCFrames == [action : {"open", "close"}, channel : 0 .. RTUCMD_SIZE - 1]
            \cup {MCPattern}
MCOutlets == 0 .. SNMP_SIZE - 1

MCItem(outlets) == [rtuCmdEn |-> {0}, snmpEn |-> outlets,
                    cmd |-> [a \in {"open", "close"} |-> {0}]]
MCItems == {MCItem({0})}
MCUi == [ipOk : {TRUE}, longText : {{"open", "close"}}, item : MCItems]
=============================================================================
