CONSTANTS
    Kilo = 10
    LongMax = 127
    Files <- MCFiles
    Served <- MCServed
    Requests <- MCRequests
    Disk <- MCDisk
    Unreadable <- MCUnreadable
    Unwritable <- MCUnwritable
    Executable <- MCExecutable
    ScriptNames <- MCScriptNames
    MimeOf <- MCMimeOf
SPECIFICATION Spec
INVARIANT OnlyAllowedMethods
