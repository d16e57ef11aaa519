SPECIFICATION Spec
CONSTANTS
    Others <- MCOthers
    LowerCase <- MCLowerCase
    Methods <- MCMethods
    Versions <- MCVersions
    VersionSlash = 1
    VersionLast = 2
    Http <- MCHttp
    Https <- MCHttps
    Inputs <- MCInputs
INVARIANTS TypeOK PartsInLine AcceptedPath RequestRead HeaderRead
