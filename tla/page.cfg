SPECIFICATION Spec
CONSTANTS
  Currencies = {"EUR", "USD"}
  Dialogs = {"Orders", "Settings"}
  MaxSelections = 2
  MaxDialogs = 2
  MaxDeposits = 1
  MaxFades = 3
INVARIANTS LastSelectionSeen NothingLeftBlocked DialogCloses LastDialogSeen
