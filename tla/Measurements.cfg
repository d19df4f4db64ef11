\* Time cursors up to 29 columns apart, amplitude cursors up to 23 rows, so that
\* the quotient and the amplitude pass every limit, the half and the ties.
CONSTANTS
  TimePlaces = {20, 21, 22, 23, 24, 25, 26, 27, 28, 29, 30, 31, 32, 33, 34, 35, 36, 37, 38, 39, 40, 41, 42, 43, 44, 45, 46, 47, 48, 49}
  AmplitudePlaces = {13, 14, 15, 16, 17, 18, 19, 20, 21, 22, 23, 24, 25, 26, 27, 28, 29, 30, 31, 32, 33, 34, 35, 36}
SPECIFICATION MeasurementsSpec
INVARIANTS
  FrequencyIsShown
  AmplitudeIsShown
