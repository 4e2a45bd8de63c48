SPECIFICATION LibrarySpec
CONSTANTS
    Elements <- MCElements
    MaxLength <- MCMaxLength
    Nesting = 5
    CipherKeys <- MCCipherKeys
    Salts <- MCSalts
    MAXT = 2
    Things = {t1, t2}
    Dangling = Dangling
    MaxCount = 5
    Radix = 2
    SubIds = {0, 1}
    MaxOid = 3
    ADDRBUF = 2
    ObjectOids <- MCObjectOids
    MaxSets = 3
    AskedOids <- MCAskedOids
    AnsweredOids <- MCAnsweredOids
    Contents <- MCContents
    MaxVbs = 2
    Columns = 2
    Texts = {"", "t"}
    Empty = ""
    Dashes = "---"
    MaxRows = 2
    LogThreads = {l1, l2}
    LogTypes = {17, 18, 80}
    LogFilters <- MCLogFilters
    NoLog = NoLog
    NoEntry = NoEntry
    Nobody = Nobody
    LogSize = 1
    MaxItems = 2
    MaxLogged = 2
    ClientThread = c1
    OtherThreads = {c2}
    Addresses = {agent}
    NoAddress = NoAddress
    Communities = {public, private}
    DefaultCommunity = public
    Timeouts = {10000, 1}
    DefaultTimeout = 10000
    MaxCalls = 3
    MaxWorks = 2
    RTUCMD_SIZE = 2
    SNMP_SIZE = 1
    a = a
    b = b
    junk = junk
    NoText = NoText
    Missing = Missing
    KeyTexts = {a, b, junk, NoText}
    FileContents <- MCFileContents
    UiContents <- MCUiContents
    MaxSaves = 3
INVARIANTS HexReadsPairs OidRoundTrip NumbersRoundTrip
           IntegersReadAsBer ContentRoundTrip DesIsStandard ChainingRoundTrip
           CollectionIsList ValuesAreCurrent OidsAreOrdered ObjectsSound ReadTellsTruth
           TableFits LogEntriesWhole CallsCarriedOut
           StoreTypeOK RestartKeepsItem NoEnableAheadOfCommands
CHECK_DEADLOCK FALSE
