------------------------------ MODULE Measurements ------------------------------
(***************************************************************************)
(* The two measurements that GUI makes of a channel.  They share nothing   *)
(* but the conversion to digits, so a behaviour is about one of them.      *)
(***************************************************************************)
EXTENDS Frequency_Calculator, Amplitude_Calculator

VARIABLE measured    \* bound: which one the user changes in this behaviour

measurementVars == <<frequencyVars, amplitudeVars, measured>>

MeasurementsInit ==
  \/ measured = "frequency" /\ FrequencyInit /\ AmplitudeInit
       /\ \A y \in AmplitudePlaces : Up_Amplitude_Cursor <= y /\ Down_Amplitude_Cursor <= y
  \/ measured = "amplitude" /\ FrequencyInit /\ AmplitudeInit
       /\ \A y \in TimePlaces : Right_Time_Cursor <= y /\ Left_Time_Cursor <= y

MeasurementsNext ==
  /\ UNCHANGED measured
  /\ \/ measured = "frequency" /\ FrequencyEdge /\ UNCHANGED amplitudeVars
     \/ measured = "amplitude" /\ UNCHANGED frequencyVars
          /\ (MoveAmplitudeCursor \/ ThrowScale)

MeasurementsSpec == MeasurementsInit /\ [][MeasurementsNext]_measurementVars
===============================================================================
