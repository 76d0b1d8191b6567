SPECIFICATION Spec
CONSTANTS
    HexGroups <- MCHexGroups
    HexValue <- MCHexValue
    DigitValue <- MCDigitValue
    kMaxInt32 = 9
    kMaxInt64 = 99
    NativeBuiltins = {"Promise"}
    BrowserAPIs = {"document", "fetch", "name"}
    SafeProxied = {"document"}
    FunctionProps = {"name", "prototype"}
    Permanent = {"prototype"}
    PrototypeProps = {"name", "call"}
    ScriptNames <- MCScriptNames
    ScriptValues <- MCScriptValues
    Signatures = {"h"}
    MaxLength <- MCMaxLength
INVARIANT UniqueIdStripped
