------------------------------ MODULE Library ------------------------------
(***************************************************************************)
(* The parts of the program that share nothing with the rest of it: the    *)
(* conversions, the collections, the values and the log of the SNMP        *)
(* library, the SNMP client and its callers, a reading of the worker, the  *)
(* table of the display, the configuration file.  A behaviour exercises    *)
(* one of them; the others stay as they are.                               *)
(***************************************************************************)
EXTENDS Conversions, Collection, ReadValue, ComTable, Log, Client, ConfigStore

VARIABLE part   \* the part that is exercised

libraryVars == <<part, conversionVars, collVars, objs, objectVars, readVars, tableVars, logVars,
                 clientVars, storeVars>>

Parts == {"conversions", "collection", "values", "objects", "read", "table", "log", "client",
          "store"}

\* The configuration of a program that was never started before.
NoFile == \A key \in Keys : file[key].text = Missing

LibraryInit ==
    /\ part \in Parts
    /\ IF part = "conversions" THEN ConversionInit ELSE kind = "text" /\ input = <<>>
    /\ CollectionInit /\ ValuesInit
    /\ ObjectsInit /\ (part # "objects" => family = "vb")
    /\ ReadInit /\ TableInit /\ LogInit /\ ClientInit
    /\ StoreInit /\ (part # "store" => NoFile)

\* The part named so is the one that may change.
Only(name) ==
    /\ part = name /\ UNCHANGED part
    /\ name # "conversions" => UNCHANGED conversionVars
    /\ name # "collection" => UNCHANGED collVars
    /\ name # "values" => UNCHANGED objs
    /\ name # "objects" => UNCHANGED objectVars
    /\ name # "read" => UNCHANGED readVars
    /\ name # "table" => UNCHANGED tableVars
    /\ name # "log" => UNCHANGED logVars
    /\ name # "client" => UNCHANGED clientVars
    /\ name # "store" => UNCHANGED storeVars

LibraryNext ==
    \/ Only("conversions") /\ ConversionNext
    \/ Only("collection") /\ CollectionNext
    \/ Only("values") /\ ValuesNext
    \/ Only("objects") /\ ObjectsNext
    \/ Only("read") /\ ReadNext
    \/ Only("table") /\ TableNext
    \/ Only("log") /\ LogNext
    \/ Only("client") /\ ClientNext
    \/ Only("store") /\ StoreNext

LibrarySpec == LibraryInit /\ [][LibraryNext]_libraryVars
=============================================================================
