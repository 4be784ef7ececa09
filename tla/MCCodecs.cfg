SPECIFICATION CodecsSpec
CONSTANTS
    BigDecimals <- TheBigDecimals
    Exponents <- TheExponents
    Mantissas = {0, 1, 9, 10, 120, 999, 1000, 9999, 10000, 10203, 99999, 100000, 999999}
    Groups = {0, 1, 100, 9999}
    MaxScale = 9
    MaxMantissa = 792281625
    MoneyBits = 6
    Bindables <- TheBindables
    TypeOids <- TheTypeOids
    MaxArguments = 3
    MaxLen = 24
    MaxElements = 2
    Width = 3
    MyArguments <- TheMyArguments
    MyRows <- TheMyRows
    MyIntegers <- TheMyIntegers
    MaxMyArguments = 4
    HoursMax = 7
    DayHours = 3
    FieldMax = 2
    Digits = 2
    Fractions = {0, 1, 10, 57, 99}
    Years = {1000, 9999, 65536}
    Environments <- TheEnvironments
    PgUrls <- ThePgUrls
    PgpassFields <- ThePgpassFields
    PgTexts <- ThePgTexts
    MyUrls <- TheMyUrls
    MyTexts <- TheMyTexts
    LiteUrls <- TheLiteUrls
    LitePragmas <- TheLitePragmas
    MaxSetters = 2
    MaxOpened = 2
    FracTicks = 3
    MinuteSeconds = 2
    MaxTicks = 12
    MaxItems = 3
    MaxTokens = 5
    MaxResets = 1
    TupleLists <- TheTuples
    Packages <- ThePackages
    Depends <- TheDependencies
    Members = {"lib", "app"}
    QueriesOf <- TheQueries
    Scopes = {"workspace", "package"}
    MaxAlters = 1
    MaxJobs = 2
INVARIANTS PgValuesReadBack MySqlValuesReadBack  EngineTypesConvert BuiltQueriesAgree OfflineAgrees
CHECK_DEADLOCK FALSE
