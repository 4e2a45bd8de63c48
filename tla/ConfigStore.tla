---------------------------- MODULE ConfigStore ----------------------------
(***************************************************************************)
(* The configuration file (common/cfgcom): ConfigBase keeps one record in  *)
(* memory, loads it key by key when the program starts and saves it key by *)
(* key when a test starts.  Every key is followed by a sync of QSettings,  *)
(* which writes all that is not in the file yet, or fails and leaves the   *)
(* file alone; nobody looks at the outcome.  The program may end between   *)
(* any two keys.                                                           *)
(***************************************************************************)
EXTENDS Integers

CONSTANTS
    RTUCMD_SIZE,   \* number of channels (4 in the code)
    SNMP_SIZE,     \* number of outlets (3 in the code)
    KeyTexts,      \* texts that are no numbers
    NoText,        \* the empty text
    Missing,       \* what a key the file does not have holds
    FileContents,  \* what the file may hold before the first start (external)
    UiContents,    \* what the widgets may hold when a test is started
    MaxSaves       \* bound: saves of one behaviour

\* A field of sConfigItem and its index, 0 for a field that is no array.
Keys == ({"ip", "com", "delay"} \X {0})
    \cup ({"openCmd", "closeCmd", "rtuCmdEn"} \X (0..RTUCMD_SIZE - 1))
    \cup ({"snmpEn", "oids"} \X (0..SNMP_SIZE - 1))

FlagKeys == {key \in Keys : key[1] \in {"rtuCmdEn", "snmpEn"}}
NumberKeys == {key \in Keys : key[1] = "delay"} \cup FlagKeys

\* A record sConfigItem: no number in it is negative.
IsItem(r) ==
    /\ r \in [Keys -> Nat \cup KeyTexts]
    /\ \A key \in Keys : r[key] \in IF key \in NumberKeys THEN Nat ELSE KeyTexts

ASSUME StoreAssumption ==
    /\ RTUCMD_SIZE \in Nat /\ SNMP_SIZE \in Nat /\ MaxSaves \in Nat
    /\ NoText \in KeyTexts
    /\ \A t \in KeyTexts \cup {Missing} : t \notin Int
    /\ Missing \notin KeyTexts
    /\ \A f \in FileContents :
          /\ f \in [Keys -> Int \cup KeyTexts \cup {Missing}]
          /\ \A key \in Keys \ NumberKeys : f[key] \in KeyTexts \cup {Missing}
    /\ \A r \in UiContents : IsItem(r)

VARIABLES
    item,       \* ConfigBase::item
    settings,   \* pConfigIni: what QSettings holds in memory
    file,       \* the file (external)
    mode,       \* the program is off, on, or inside ConfigBase::save
    cursor,     \* the place in save() of the next key
    saves       \* history: number of saves so far

storeVars == <<item, settings, file, mode, cursor, saves>>

\* What a key holds, with the save that wrote it (history).
Entry == [text : Int \cup KeyTexts \cup {Missing}, save : 0..MaxSaves]

-----------------------------------------------------------------------------
(* Faulty variants of the definitions below; no specification uses them.   *)

\* save() with the enable flags before the commands they enable.
FirstFlags == [ip |-> 1, com |-> 2, rtuCmdEn |-> 3, openCmd |-> 3 + RTUCMD_SIZE,
               closeCmd |-> 4 + RTUCMD_SIZE, delay |-> 3 + 3 * RTUCMD_SIZE,
               snmpEn |-> 4 + 3 * RTUCMD_SIZE, oids |-> 5 + 3 * RTUCMD_SIZE]

\* The last loop of save() ends one key too early.
LastPlaceShort == 2 + 3 * RTUCMD_SIZE + 2 * SNMP_SIZE

\* getRtuEn and getSnmpEn without if(ret <= 0).
ReadFlagRaw(n) == n

-----------------------------------------------------------------------------
\* The order in which save() writes the keys: the place of the first key of a
\* field, and the distance to the next one.  The commands of a channel, and the
\* two keys of an outlet, are written in one pass of a loop.
First == [ip |-> 1, com |-> 2, openCmd |-> 3, closeCmd |-> 4,
          delay |-> 3 + 2 * RTUCMD_SIZE, rtuCmdEn |-> 4 + 2 * RTUCMD_SIZE,
          snmpEn |-> 4 + 3 * RTUCMD_SIZE, oids |-> 5 + 3 * RTUCMD_SIZE]

Place(key) ==
    First[key[1]] + IF key[1] = "rtuCmdEn" THEN key[2] ELSE 2 * key[2]

LastPlace == 3 + 3 * RTUCMD_SIZE + 2 * SNMP_SIZE

\* com_cfg_readInt, getRtuEn and getSnmpEn, getPushTime, com_cfg_readStr.
ReadInt(text) == IF text \in Int THEN text ELSE -1
ReadFlag(n) == IF n <= 0 THEN 0 ELSE n
ReadDelay(n) == IF n <= 0 THEN 10 ELSE n
ReadStr(text) == IF text = Missing THEN NoText ELSE text

Get(key, text) ==
    IF key \in FlagKeys THEN ReadFlag(ReadInt(text))
    ELSE IF key \in NumberKeys THEN ReadDelay(ReadInt(text))
    ELSE ReadStr(text)

-----------------------------------------------------------------------------
StoreInit ==
    /\ \E f \in FileContents : file = [key \in Keys |-> [text |-> f[key], save |-> 0]]
    /\ settings = file
    /\ item = [key \in Keys |-> Get(key, file[key].text)]
    /\ mode = "off" /\ cursor = 1 /\ saves = 0

\* The constructor of ConfigBase, called by MainWindow::initCfg.
Launch ==
    /\ mode = "off" /\ mode' = "on"
    /\ settings' = file
    /\ item' = [key \in Keys |-> Get(key, file[key].text)]
    /\ UNCHANGED <<file, cursor, saves>>

\* saveCfg fills the record from the widgets and calls save().
SaveCfg(ui) ==
    /\ mode = "on" /\ saves < MaxSaves
    /\ item' = ui /\ saves' = saves + 1
    /\ mode' = "saving" /\ cursor' = 1
    /\ UNCHANGED <<settings, file>>

\* com_cfg_write
SetValue(key) ==
    settings' = [settings EXCEPT ![key] = [text |-> item[key], save |-> saves]]

\* com_cfg_close: all that QSettings holds is in the file now, or nothing more.
Sync == file' = settings' \/ file' = file

\* The setters of ConfigBase, called by save() for the next key.
WriteParam(key) ==
    /\ mode = "saving" /\ Place(key) = cursor
    /\ SetValue(key) /\ Sync
    /\ cursor' = cursor + 1
    /\ mode' = IF cursor = LastPlace THEN "on" ELSE "saving"
    /\ UNCHANGED <<item, saves>>

\* QSettings tries again from the event loop.
Flush ==
    /\ mode = "on" /\ file' = settings
    /\ UNCHANGED <<item, settings, mode, cursor, saves>>

\* The program ends, at any moment; pConfigIni is never deleted.
End ==
    /\ mode # "off" /\ mode' = "off"
    /\ UNCHANGED <<item, settings, file, cursor, saves>>

StoreNext ==
    \/ Launch
    \/ \E ui \in UiContents : SaveCfg(ui)
    \/ \E key \in Keys : WriteParam(key)
    \/ Flush
    \/ End

StoreSpec == StoreInit /\ [][StoreNext]_storeVars

-----------------------------------------------------------------------------
\* The types of the variables: what is loaded from any file is a record, with
\* no negative number in it.
StoreTypeOK ==
    /\ IsItem(item)
    /\ settings \in [Keys -> Entry] /\ file \in [Keys -> Entry]
    /\ mode \in {"off", "on", "saving"}
    /\ cursor \in 1..LastPlace + 1
    /\ saves \in 0..MaxSaves

\* What a restart makes of a value: a delay of 0 comes back as 10.
Restarted(key, v) == IF key[1] = "delay" /\ v = 0 THEN 10 ELSE v

\* Outside save(), once a sync has worked, a restart would load the record that
\* is in memory: a sync that failed is made up for by any later one.
RestartKeepsItem ==
    mode = "on" /\ file = settings =>
        \A key \in Keys : Get(key, file[key].text) = Restarted(key, item[key])

\* Wherever the program ends and whichever syncs fail, the file never enables a
\* channel by a save whose commands for that channel did not reach the file.
NoEnableAheadOfCommands ==
    \A c \in 0..RTUCMD_SIZE - 1, cmd \in {"openCmd", "closeCmd"} :
        file[<<"rtuCmdEn", c>>].save <= file[<<cmd, c>>].save
=============================================================================
