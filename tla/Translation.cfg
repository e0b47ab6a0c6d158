SPECIFICATION Spec
CONSTANTS
    Programs <- MCPrograms
    Inputs <- MCInputs
    Globals <- MCGlobals
    MaxTurns = 6
    StringsBeforeOthers = FALSE
    PlaceWithStatements = FALSE
INVARIANTS
    TranslationKeepsMeaning
    CanonicalizationKeepsMeaning
    SelectionKeepsMeaning
    CorrectIsAccepted
    AcceptedNeverStuck
