CONSTANTS
    None = None
    NameChars = {"a", "U"}
    VersionChars = {"a"}
    Alphabet = {"a", "U", "@", " ", ","}
    MaxLen = 9
    MaxParts = 3
SPECIFICATION Spec
INVARIANTS
    ShorthandMatchesGrammar
    SourceKindMatchesTables
    ToolchainLoadMatchesSpec
    CommandsSubstituteVerbatim
