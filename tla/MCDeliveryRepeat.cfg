SPECIFICATION Spec
CONSTANTS Texts = {t1, t2}
          Nothing = Nothing
          Other = Other
          MaxDeliveries = 2
INVARIANT FallbackPreserves
