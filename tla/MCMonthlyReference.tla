------------------------- MODULE MCMonthlyReference --------------------------
EXTENDS MonthlyReferenceProperties
=============================================================================
