------------------------- MODULE ConfigStoreProofs -------------------------
(***************************************************************************)
(* Theorems about ConfigStore, for any number of channels and outlets, any *)
(* texts, files and numbers of saves.                                      *)
(***************************************************************************)
EXTENDS ConfigStore, TLAPS

\* Along the order of save() the entries of a store get older, never newer.
InOrder(store) ==
    \A k1, k2 \in Keys : Place(k1) <= Place(k2) => store[k2].save <= store[k1].save

\* Both stores are in order, and inside save() the keys before the cursor hold
\* what the record says.
OrderInv ==
    /\ InOrder(file) /\ InOrder(settings)
    /\ \A key \in Keys : settings[key].save <= saves /\ file[key].save <= saves
    /\ mode = "saving" =>
          \A key \in Keys : Place(key) < cursor =>
              settings[key] = [text |-> item[key], save |-> saves]

\* What is in the memory of QSettings outside save() would be read as the record.
MemoryInv ==
    mode = "on" =>
        \A key \in Keys : Get(key, settings[key].text) = Restarted(key, item[key])

\* A key of a text field holds a text or is missing.
IsStore(store) ==
    /\ store \in [Keys -> Entry]
    /\ \A key \in Keys \ NumberKeys : store[key].text \in KeyTexts \cup {Missing}

StoreInv ==
    /\ StoreTypeOK /\ IsStore(settings) /\ IsStore(file)
    /\ OrderInv /\ MemoryInv

-----------------------------------------------------------------------------
LEMMA Sizes == RTUCMD_SIZE \in Nat /\ SNMP_SIZE \in Nat /\ MaxSaves \in Nat
BY StoreAssumption

\* The keys are the fields of sConfigItem, and where save() writes each of them.
LEMMA KeyFields ==
    ASSUME NEW key \in Keys
    PROVE  /\ key = <<key[1], key[2]>>
           /\ \/ key[1] \in {"ip", "com", "delay"} /\ key[2] = 0
              \/ key[1] \in {"openCmd", "closeCmd", "rtuCmdEn"}
                    /\ key[2] \in 0..RTUCMD_SIZE - 1
              \/ key[1] \in {"snmpEn", "oids"} /\ key[2] \in 0..SNMP_SIZE - 1
BY DEF Keys

LEMMA Places ==
    ASSUME NEW key \in Keys
    PROVE  /\ key[1] = "ip" => Place(key) = 1
           /\ key[1] = "com" => Place(key) = 2
           /\ key[1] = "openCmd" => Place(key) = 3 + 2 * key[2]
           /\ key[1] = "closeCmd" => Place(key) = 4 + 2 * key[2]
           /\ key[1] = "delay" => Place(key) = 3 + 2 * RTUCMD_SIZE
           /\ key[1] = "rtuCmdEn" => Place(key) = 4 + 2 * RTUCMD_SIZE + key[2]
           /\ key[1] = "snmpEn" => Place(key) = 4 + 3 * RTUCMD_SIZE + 2 * key[2]
           /\ key[1] = "oids" => Place(key) = 5 + 3 * RTUCMD_SIZE + 2 * key[2]
BY KeyFields, Sizes DEF Place, First

\* save() writes no two keys at the same place, and none after the last place.
LEMMA PlaceBounds ==
    ASSUME NEW key \in Keys PROVE Place(key) \in 1..LastPlace
BY KeyFields, Places, Sizes DEF LastPlace

LEMMA PlaceInjective ==
    ASSUME NEW k1 \in Keys, NEW k2 \in Keys, Place(k1) = Place(k2)
    PROVE  k1 = k2
<1>1. k1[1] = k2[1] /\ k1[2] = k2[2]
  BY KeyFields, Places, Sizes
<1>2. QED
  BY <1>1, KeyFields

\* Loading any text gives a value a record may have there.
LEMMA GetTyped ==
    ASSUME NEW key \in Keys, NEW text \in Int \cup KeyTexts \cup {Missing},
           key \notin NumberKeys => text \in KeyTexts \cup {Missing}
    PROVE  Get(key, text) \in IF key \in NumberKeys THEN Nat ELSE KeyTexts
BY StoreAssumption DEF Get, NumberKeys, ReadFlag, ReadDelay, ReadInt, ReadStr

\* The constructor of ConfigBase makes a record of any file.
LEMMA LoadTyped ==
    ASSUME NEW store, IsStore(store)
    PROVE  IsItem([key \in Keys |-> Get(key, store[key].text)])
<1>1. ASSUME NEW key \in Keys
      PROVE  Get(key, store[key].text) \in IF key \in NumberKeys THEN Nat ELSE KeyTexts
  <2>1. store[key].text \in Int \cup KeyTexts \cup {Missing}
    BY DEF IsStore, Entry
  <2>2. key \notin NumberKeys => store[key].text \in KeyTexts \cup {Missing}
    BY DEF IsStore
  <2>3. QED
    BY <2>1, <2>2, GetTyped
<1>2. QED
  BY <1>1 DEF IsItem

\* What was loaded, a restart keeps: a delay is never loaded as 0.
LEMMA LoadKept ==
    ASSUME NEW key \in Keys, NEW text
    PROVE  Get(key, text) = Restarted(key, Get(key, text))
<1>1. CASE key[1] = "delay"
  <2>1. key \in NumberKeys /\ key \notin FlagKeys
    BY <1>1 DEF NumberKeys, FlagKeys
  <2>2. Get(key, text) = ReadDelay(ReadInt(text))
    BY <2>1 DEF Get
  <2>3. ReadInt(text) \in Int
    BY DEF ReadInt
  <2>4. Get(key, text) # 0
    BY <2>2, <2>3 DEF ReadDelay
  <2>5. QED
    BY <2>4 DEF Restarted
<1>2. QED
  BY <1>1 DEF Restarted

\* What save() wrote, a restart reads as Restarted says.
LEMMA SavedKept ==
    ASSUME NEW key \in Keys, IsItem(item)
    PROVE  Get(key, item[key]) = Restarted(key, item[key])
<1>1. CASE key \in NumberKeys
  <2>1. item[key] \in Nat
    BY <1>1 DEF IsItem
  <2>2. QED
    BY <1>1, <2>1 DEF Get, Restarted, ReadInt, ReadFlag, ReadDelay, NumberKeys, FlagKeys
<1>2. CASE key \notin NumberKeys
  <2>1. item[key] \in KeyTexts
    BY <1>2 DEF IsItem
  <2>2. item[key] # Missing
    BY <2>1, StoreAssumption
  <2>3. key[1] # "delay" /\ key \notin FlagKeys
    BY <1>2 DEF NumberKeys
  <2>4. QED
    BY <1>2, <2>2, <2>3 DEF Get, Restarted, ReadStr
<1>3. QED
  BY <1>1, <1>2

-----------------------------------------------------------------------------
LEMMA StoreInitInv == StoreInit => StoreInv
<1> SUFFICES ASSUME StoreInit PROVE StoreInv
  OBVIOUS
<1>1. PICK f \in FileContents :
        file = [key \in Keys |-> [text |-> f[key], save |-> 0]]
  BY DEF StoreInit
<1>2. /\ f \in [Keys -> Int \cup KeyTexts \cup {Missing}]
      /\ \A key \in Keys \ NumberKeys : f[key] \in KeyTexts \cup {Missing}
  BY StoreAssumption
<1>3. IsStore(file)
  BY <1>1, <1>2, Sizes DEF IsStore, Entry
<1>4. IsItem(item)
  BY <1>3, LoadTyped DEF StoreInit
<1>5. StoreTypeOK
  BY <1>3, <1>4, Sizes DEF StoreInit, StoreTypeOK, IsStore, LastPlace
<1>6. OrderInv
  BY <1>1 DEF StoreInit, OrderInv, InOrder
<1>7. QED
  BY <1>3, <1>5, <1>6 DEF StoreInv, MemoryInv, StoreInit

\* com_cfg_writeParam keeps the order of the store it writes to.
LEMMA WriteInOrder ==
    ASSUME StoreInv, NEW w \in Keys, WriteParam(w)
    PROVE  /\ IsStore(settings') /\ InOrder(settings')
           /\ \A key \in Keys : settings'[key].save <= saves
           /\ \A key \in Keys : Place(key) < cursor + 1 =>
                 settings'[key] = [text |-> item[key], save |-> saves]
<1> DEFINE new == [text |-> item[w], save |-> saves]
<1>1. /\ mode = "saving" /\ Place(w) = cursor
      /\ settings' = [settings EXCEPT ![w] = new]
  BY DEF WriteParam, SetValue
<1>2. IsStore(settings) /\ IsItem(item) /\ saves \in 0..MaxSaves
  BY DEF StoreInv, StoreTypeOK
<1>3. new \in Entry /\ (w \notin NumberKeys => new.text \in KeyTexts)
  BY <1>2 DEF Entry, IsItem
<1>4. IsStore(settings')
  BY <1>1, <1>2, <1>3 DEF IsStore
<1>5. \A key \in Keys : settings'[key] = IF key = w THEN new ELSE settings[key]
  BY <1>1, <1>2 DEF IsStore
<1>6. \A key \in Keys : settings[key].save <= saves /\ settings[key].save \in Nat
  BY <1>2, Sizes DEF StoreInv, OrderInv, IsStore, Entry
<1>7. \A key \in Keys : settings'[key].save <= saves
  BY <1>2, <1>5, <1>6, Sizes
<1>8. ASSUME NEW key \in Keys, Place(key) < cursor + 1
      PROVE  settings'[key] = [text |-> item[key], save |-> saves]
  <2>1. CASE key = w
    BY <1>5, <2>1
  <2>2. CASE key # w
    <3>1. Place(key) < cursor
      BY <1>1, <1>8, <2>2, PlaceInjective, PlaceBounds, Sizes DEF LastPlace
    <3>2. settings[key] = [text |-> item[key], save |-> saves]
      BY <1>1, <3>1 DEF StoreInv, OrderInv
    <3>3. QED
      BY <1>5, <2>2, <3>2
  <2>3. QED
    BY <2>1, <2>2
<1>9. InOrder(settings')
  <2> SUFFICES ASSUME NEW k1 \in Keys, NEW k2 \in Keys, Place(k1) <= Place(k2)
               PROVE  settings'[k2].save <= settings'[k1].save
    BY DEF InOrder
  <2>1. CASE Place(k1) < cursor + 1
    <3>1. settings'[k1] = [text |-> item[k1], save |-> saves]
      BY <1>8, <2>1
    <3>2. settings'[k2].save <= saves
      BY <1>7
    <3>3. QED
      BY <3>1, <3>2
  <2>2. CASE ~(Place(k1) < cursor + 1)
    <3>1. k1 # w /\ k2 # w
      BY <1>1, <2>2, PlaceBounds, Sizes DEF LastPlace
    <3>2. settings[k2].save <= settings[k1].save
      BY DEF StoreInv, OrderInv, InOrder
    <3>3. QED
      BY <1>5, <3>1, <3>2
  <2>3. QED
    BY <2>1, <2>2
<1>10. QED
  BY <1>4, <1>7, <1>8, <1>9

\* The constructor, saveCfg, every key of save(), the retry of QSettings and the
\* end of the program keep the invariant.
LEMMA StoreStepInv == ASSUME StoreInv, [StoreNext]_storeVars PROVE StoreInv'
<1> USE DEF StoreInv, StoreTypeOK
<1>1. CASE Launch
  <2>1. settings' = file /\ UNCHANGED <<file, cursor, saves>> /\ mode' = "on"
    BY <1>1 DEF Launch
  <2>2. item' = [key \in Keys |-> Get(key, file[key].text)]
    BY <1>1 DEF Launch
  <2>3. IsItem(item)'
    BY <2>2, LoadTyped DEF IsItem
  <2>4. \A key \in Keys : file[key].save <= saves
    BY <1>1 DEF OrderInv
  <2>5. OrderInv'
    BY <2>1, <2>4 DEF OrderInv, InOrder
  <2>6. MemoryInv'
    BY <2>1, <2>2, LoadKept DEF MemoryInv
  <2>7. QED
    BY <2>1, <2>3, <2>5, <2>6 DEF IsStore
<1>2. ASSUME NEW ui \in UiContents, SaveCfg(ui) PROVE StoreInv'
  <2>1. /\ item' = ui /\ saves' = saves + 1 /\ mode' = "saving" /\ cursor' = 1
        /\ UNCHANGED <<settings, file>> /\ saves < MaxSaves
    BY <1>2 DEF SaveCfg
  <2>2. IsItem(item)'
    BY <2>1, StoreAssumption DEF IsItem
  <2>3. \A key \in Keys : settings[key].save \in Nat /\ file[key].save \in Nat
    BY Sizes DEF IsStore, Entry
  <2>4. OrderInv'
    BY <2>1, <2>3, PlaceBounds, Sizes DEF OrderInv, InOrder, LastPlace
  <2>5. QED
    BY <2>1, <2>2, <2>4, Sizes DEF IsStore, MemoryInv, LastPlace
<1>3. ASSUME NEW w \in Keys, WriteParam(w) PROVE StoreInv'
  <2>1. /\ mode = "saving" /\ Place(w) = cursor /\ cursor' = cursor + 1
        /\ mode' = IF cursor = LastPlace THEN "on" ELSE "saving"
        /\ file' = settings' \/ file' = file
        /\ UNCHANGED <<item, saves>>
    BY <1>3 DEF WriteParam, Sync
  <2>2. /\ IsStore(settings') /\ InOrder(settings')
        /\ \A key \in Keys : settings'[key].save <= saves
        /\ \A key \in Keys : Place(key) < cursor + 1 =>
              settings'[key] = [text |-> item[key], save |-> saves]
    BY <1>3, WriteInOrder
  <2>3. IsStore(file') /\ InOrder(file') /\ \A key \in Keys : file'[key].save <= saves
    BY <2>1, <2>2 DEF OrderInv
  <2>4. OrderInv'
    BY <2>1, <2>2, <2>3 DEF OrderInv
  <2>5. StoreTypeOK'
    BY <2>1, <2>2, <2>3, PlaceBounds, Sizes DEF IsStore, IsItem, LastPlace
  <2>6. MemoryInv'
    <3> SUFFICES ASSUME mode' = "on", NEW key \in Keys
                 PROVE  Get(key, settings'[key].text) = Restarted(key, item'[key])
      BY DEF MemoryInv
    <3>1. Place(key) < cursor + 1
      BY <2>1, PlaceBounds, Sizes DEF LastPlace
    <3>2. settings'[key] = [text |-> item[key], save |-> saves]
      BY <2>2, <3>1
    <3>3. settings'[key].text = item[key]
      BY <3>2
    <3>4. QED
      BY <2>1, <3>3, SavedKept
  <2>7. QED
    BY <2>2, <2>3, <2>4, <2>5, <2>6
<1>4. CASE Flush
  <2>1. mode = "on" /\ file' = settings /\ UNCHANGED <<item, settings, mode, cursor, saves>>
    BY <1>4 DEF Flush
  <2>2. OrderInv' /\ MemoryInv'
    BY <2>1 DEF OrderInv, InOrder, MemoryInv
  <2>3. QED
    BY <2>1, <2>2 DEF IsStore, IsItem
<1>5. CASE End
  <2>1. mode' = "off" /\ UNCHANGED <<item, settings, file, cursor, saves>>
    BY <1>5 DEF End
  <2>2. OrderInv' /\ MemoryInv'
    BY <2>1 DEF OrderInv, InOrder, MemoryInv
  <2>3. QED
    BY <2>1, <2>2 DEF IsStore, IsItem
<1>6. CASE UNCHANGED storeVars
  BY <1>6 DEF storeVars, IsStore, IsItem, OrderInv, InOrder, MemoryInv
<1>7. QED
  BY <1>1, <1>2, <1>3, <1>4, <1>5, <1>6 DEF StoreNext

\* Type correctness of the configuration record and of both stores, with the
\* invariants the two theorems below rest on.
THEOREM StoreSafety == StoreSpec => []StoreInv
<1>1. StoreInit => StoreInv
  BY StoreInitInv
<1>2. StoreInv /\ [StoreNext]_storeVars => StoreInv'
  BY StoreStepInv
<1>3. QED
  BY <1>1, <1>2, PTL DEF StoreSpec

\* Whatever the file holds when the program starts and however its record is
\* changed, loaded and saved, the record is one that the program can run with.
THEOREM StoreTyped == StoreSpec => []StoreTypeOK
<1>1. StoreInv => StoreTypeOK
  BY DEF StoreInv
<1>2. QED
  BY <1>1, StoreSafety, PTL

\* Outside save(), after a sync that worked, a restart of the program loads the
\* record in memory, a delay of 0 excepted.
THEOREM RestartKeeps == StoreSpec => []RestartKeepsItem
<1>1. StoreInv => RestartKeepsItem
  BY DEF StoreInv, MemoryInv, RestartKeepsItem
<1>2. QED
  BY <1>1, StoreSafety, PTL

\* Whatever ends the program inside save() and whichever syncs fail, no channel is
\* enabled in the file by a save whose commands are not in it.
THEOREM FlagsFollowCommands == StoreSpec => []NoEnableAheadOfCommands
<1>1. ASSUME StoreInv PROVE NoEnableAheadOfCommands
  <2> SUFFICES ASSUME NEW c \in 0..RTUCMD_SIZE - 1, NEW cmd \in {"openCmd", "closeCmd"}
               PROVE  file[<<"rtuCmdEn", c>>].save <= file[<<cmd, c>>].save
    BY DEF NoEnableAheadOfCommands
  <2>1. <<"rtuCmdEn", c>> \in Keys /\ <<cmd, c>> \in Keys
    BY DEF Keys
  <2>2. Place(<<cmd, c>>) <= Place(<<"rtuCmdEn", c>>)
    BY <2>1, Places, Sizes
  <2>3. QED
    BY <1>1, <2>1, <2>2 DEF StoreInv, OrderInv, InOrder
<1>2. QED
  BY <1>1, StoreSafety, PTL
=============================================================================
