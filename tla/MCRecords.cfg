SPECIFICATION Spec
CONSTANTS
    Chars <- SomeChars
    Texts <- SomeTexts
    Ints <- SomeInts
    Times <- SomeTimes
    Half = 16
INVARIANTS RecordOK TextsKept NumbersKept
