CONSTANTS MaxExpansions <- Bounds
          Gaps = FALSE
INIT Init
NEXT Next
PROPERTIES GrammarDecides RoundTrip LayoutIsFree PatternsBind
CHECK_DEADLOCK FALSE
