SPECIFICATION Spec
INVARIANT TypeOK
PROPERTY ReportsClicks
