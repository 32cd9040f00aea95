SPECIFICATION Spec
CONSTANT MaxPieces = 3
INVARIANTS ScannersAgree FirstCandidateTrue PrintedCanonically ClaimedExactly KeysMatchDecoded
