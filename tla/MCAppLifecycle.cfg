SPECIFICATION Spec
CONSTANTS
    None = None
    Build <- MCBuild
    Legacy <- MCLegacy
INVARIANT SettingsAgree
PROPERTY JoinsReturn
