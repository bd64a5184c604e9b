-------------------------------- MODULE Storage --------------------------------
(***************************************************************************)
(* The two parts of the client that keep something in localStorage: the    *)
(* layouts of the studio and the bias of the gyroscope's calibration.      *)
(***************************************************************************)
EXTENDS LayoutStudio, GyroCalibration

storageVars == <<studioVars, calibrationVars>>

StorageTypeOK == StudioTypeOK /\ CalibrationTypeOK

StorageInit == StudioInit /\ CalibrationInit

Studio == StudioStep /\ UNCHANGED calibrationVars
Calibration == CalibrationStep /\ UNCHANGED studioVars

UnboundedStorageSpec == StorageInit /\ [][Studio \/ Calibration]_storageVars

\* Bound: the studio is used only while no bias is stored and the tab is closed, and
\* the calibration while the studio is closed.
StorageNext ==
  \/ stored = 0 /\ ~tab /\ orphans = 0 /\ Studio
  \/ ~open /\ Calibration

StorageSpec == StorageInit /\ [][StorageNext]_storageVars
=============================================================================
