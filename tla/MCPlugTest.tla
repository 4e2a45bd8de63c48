----------------------------- MODULE MCPlugTest -----------------------------
(***************************************************************************)
(* Small instances of PlugTest.  A command frame is a record, the pattern  *)
(* of the loop test a record with neither action.                          *)
(***************************************************************************)
EXTENDS PlugTest

MCCmd(a, c) == [action |-> a, channel |-> c]
MCPattern == [action |-> "pattern", channel |-> 0]
MCNoFrame == [action |-> "none", channel |-> 0]
MCFrames == [action : {"open", "close"}, channel : 0 .. RTUCMD_SIZE - 1]
            \cup {MCPattern}
MCOutlets == 0 .. SNMP_SIZE - 1

Item(enabled, sampled, opens, closes) ==
    [rtuCmdEn |-> enabled, snmpEn |-> sampled,
     cmd |-> [a \in {"open", "close"} |-> IF a = "open" THEN opens ELSE closes]]

All == 0 .. RTUCMD_SIZE - 1

MCAnswers == {MCPattern}

\* Every channel has both commands.
FullItems == {Item(e, MCOutlets, All, All) : e \in {All, {0}}}

\* Also: no outlet enabled, a channel without a close command.
MixedItems == {Item(All, MCOutlets, All, All), Item({0}, {}, All, {0})}

Ui(items) == [ipOk : {TRUE}, longText : {{"open", "close"}}, item : items]
MCUiFull == Ui(FullItems)
MCUiMixed == Ui(MixedItems)
             \cup [ipOk : {FALSE}, longText : {{"open", "close"}}, item : FullItems]
=============================================================================
