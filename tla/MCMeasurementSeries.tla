------------------------ MODULE MCMeasurementSeries ------------------------
\* Instance of MeasurementSeries for TLC: one series of the first step.
EXTENDS MeasurementSeries, TLC

CONSTANTS s1, m1

OneSeries == m1 :> s1
=============================================================================
