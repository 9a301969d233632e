SPECIFICATION Spec
CONSTANT MaxLength = 5
INVARIANTS TypeOK CoversCaret SelectsString SelectsWord
