\* Process::new and the two USDT lookups on a 6-bit address space.
CONSTANTS
    AddrBits = 6
    AddrBytes = 8
    NonUtf8Names <- MCNonUtf8
    ExePath <- MCExePath
    Elf <- MCElf
    Written <- MCWritten
    Pseudo <- MCPseudo
    MapsInputs <- MCMaps
    Symbols <- MCSymbols
    Targets <- MCTargets
INIT Init
NEXT Next
INVARIANT TypeOK
INVARIANT SymbolLookupAsSpecified
INVARIANT TargetLookupAsSpecified
\* Process::new may return an error, after which nothing happens.
CHECK_DEADLOCK FALSE
