CONSTANTS
    ann = ann
    bea = bea
    cid = cid
    bankA = bankA
    bankB = bankB
    tbdA = tbdA
    tbdB = tbdB
    Investors = {ann, bea, cid}
    Banks = {bankA, bankB}
    CashAccounts = {bankA, bankB, tbdA, tbdB}
    MaxCash = 9
    BankOf <- MCBankOf
    TbdContract <- MCTbdContract
    StartUnits <- MCUnits
    StartDeposits <- MCDeposits
    StartCash <- MCCash
    MaxPrice = 3
    Requests <- MCRequests
    Issuances <- MCIssuances
    MaxOrders = 4
    Disturbed <- MCDisturbed
    MaxEdits = 1
SPECIFICATION FairSpec
INVARIANTS TypeOK LinksConsistent
PROPERTIES ImplementsBook OldestFirst LeavesForCause ReservesFollowDeposits CrossedOnlyByFailure SubmissionEnds
CHECK_DEADLOCK FALSE
