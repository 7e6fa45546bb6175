----------------------------- MODULE MCFirmware -----------------------------
(***************************************************************************)
(* The firmware with two lengths of properties, and without the initial    *)
(* states that differ in what the part that takes the steps never reads.   *)
(* A link is there from the start if the supplicant associates first.      *)
(***************************************************************************)
EXTENDS Firmware

MCPropertiesSize == [r \in Request |-> IF r = CHOOSE q \in Request : TRUE THEN 2 ELSE 1]

MCInit ==
  /\ FirmwareInit
  /\ ~device.link
  /\ device.dnsmasq = device.hostapd /\ (device.files = "ap" <=> device.iface)
  /\ device.masked = ~device.iface
  /\ part = "server" => device.hostapd
  /\ part = "wifi" => op = [r \in Request |-> "other"]

MCSpec ==
  MCInit /\ [][FirmwareNext]_<<vars, serverVars, part>> /\ WF_vars(\E p \in running : Finish(p))
=============================================================================
