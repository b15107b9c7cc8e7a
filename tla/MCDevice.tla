------------------------------ MODULE MCDevice ------------------------------
(***************************************************************************)
(* The device framework for TLC: three tasks, so that one can be in the    *)
(* driver while another closes the device and a third one arrives; two     *)
(* slots and two names, so that a slot changes hands. MCDeviceBusy.cfg     *)
(* lets them close a device at any moment of a call.                       *)
(***************************************************************************)
EXTENDS Device
=============================================================================
