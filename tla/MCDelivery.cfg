SPECIFICATION Spec
CONSTANTS Texts = {t1, t2}
          Nothing = Nothing
          Other = Other
          MaxDeliveries = 3
INVARIANTS TypeOK ClipboardKept InsertedOnce NothingLeftRunning
