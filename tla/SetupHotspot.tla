---------------------------- MODULE SetupHotspot ----------------------------
(***************************************************************************)
(* The setup hotspot: script/setup-hotspot as the main process and as the  *)
(* ExecStop of tater-sat1-provisioning.service, and what it relies on:     *)
(* NetworkManager and the state of wlan0.  Both processes run the same     *)
(* stop_services, the main one in its EXIT trap.                           *)
(***************************************************************************)
EXTENDS Naturals

CONSTANTS
  Networks,  \* the Wi-Fi networks, each also standing for its password
  Open,      \* those without a password
  None       \* no network, no password, no value

ASSUME NetworksAssumption == Open \subseteq Networks /\ None \notin Networks

VARIABLES
  profiles,  \* what NetworkManager has under the name tater-sat1-wifi
  air,       \* the networks in reach
  wifi,      \* the network that wlan0 is connected to
  managed,   \* NetworkManager has wlan0
  ap,        \* hostapd has it, and was not told to end
  active,    \* the file that tells the LED service of the hotspot
  main,      \* where the main process is
  stopper,   \* where ExecStop is
  unit,      \* the service
  again      \* it is to start again when it has stopped

radio   == <<air, wifi, managed>>
hotspot == <<ap, active, main>>
service == <<stopper, unit, again>>

Profile(ssid, key) == [ssid |-> ssid, key |-> key]
Profiles == [ssid : Networks, key : Networks \union {None}]

Stopping == {"kill", "return", "remove"}

HotspotTypeOK ==
  /\ profiles \subseteq Profiles
  /\ air \subseteq Networks
  /\ wifi \in Networks \union {None}
  /\ managed \in BOOLEAN /\ ap \in BOOLEAN
  /\ active \in BOOLEAN /\ again \in BOOLEAN
  /\ main \in {"off", "check", "wait", "begin", "take", "hostapd", "bind",
               "portal"} \union Stopping
  /\ stopper \in {"off"} \union Stopping
  /\ unit \in {"start", "running", "stopping", "term", "dead"}

\* As after a boot: what was under /run is gone.
HotspotAtBoot ==
  /\ wifi' = None /\ managed' = TRUE
  /\ ap' = FALSE /\ active' = FALSE /\ main' = "off"
  /\ stopper' = "off" /\ unit' = "start" /\ again' = FALSE

-----------------------------------------------------------------------------
(* NetworkManager joins a network it has the profile of.                   *)

Joinable(ssid) ==
  /\ ssid \in air
  /\ Profile(ssid, IF ssid \in Open THEN None ELSE ssid) \in profiles

Join ==
  /\ managed /\ wifi = None
  /\ wifi' \in {n \in Networks : Joinable(n)}
  /\ UNCHANGED <<profiles, air, managed, hotspot, service>>

\* A network goes out of reach, or comes back.
Wander(n) ==
  /\ air' = IF n \in air THEN air \ {n} ELSE air \union {n}
  /\ wifi' = IF wifi = n THEN None ELSE wifi
  /\ UNCHANGED <<profiles, managed, hotspot, service>>

-----------------------------------------------------------------------------
(* ensure_setup and start_services.                                        *)

MainTo(step) ==
  /\ main' = step
  /\ UNCHANGED <<profiles, radio, ap, active, service>>

Connected == wifi # None

CheckWifi ==
  /\ main = "check"
  /\ \/ Connected /\ MainTo("off")
     \/ ~Connected /\ profiles # {} /\ MainTo("wait")
     \/ ~Connected /\ profiles = {} /\ MainTo("begin")

\* 45 seconds are enough to join a network that can be joined.
WaitForWifi ==
  /\ main = "wait"
  /\ \/ Connected /\ MainTo("off")
     \/ ~Connected /\ (\A n \in Networks : ~Joinable(n)) /\ MainTo("begin")

\* The traps are set, the file is there, and what an earlier run left is killed.
Begin ==
  /\ main = "begin"
  /\ main' = "take"
  /\ active' = TRUE /\ ap' = FALSE
  /\ UNCHANGED <<profiles, radio, service>>

TakeInterface ==
  /\ main = "take"
  /\ main' = "hostapd"
  /\ wifi' = None /\ managed' = FALSE
  /\ UNCHANGED <<profiles, air, ap, active, service>>

StartHostapd ==
  /\ main = "hostapd"
  /\ main' = "bind"
  /\ ap' = TRUE
  /\ UNCHANGED <<profiles, radio, active, service>>

StartPortal == main = "bind" /\ MainTo("portal")

MainFails ==
  /\ main' = "kill"
  /\ UNCHANGED <<profiles, radio, ap, active, stopper, unit>>

\* Mutant: a failure is not a reason to start again.
NoRestart ==
  /\ main \in {"take", "hostapd", "bind"}
  /\ MainFails
  /\ UNCHANGED again

\* A command fails, hostapd does not start, the portal cannot bind: set -e,
\* and Restart=on-failure.
HotspotFails ==
  /\ main \in {"take", "hostapd", "bind"}
  /\ MainFails
  /\ again' = TRUE

PortalDies ==
  /\ main = "portal"
  /\ MainFails
  /\ again' = TRUE

-----------------------------------------------------------------------------
(* stop_services, for the main process and for ExecStop.                   *)

After(step) ==
  CASE step = "kill" -> "return" [] step = "return" -> "remove" [] step = "remove" -> "off"

\* Mutant: the hotspot's file stays.
Forget(step) ==
  \/ step = "kill" /\ ap' = FALSE /\ UNCHANGED <<managed, active>>
  \/ step = "return" /\ managed' = TRUE /\ UNCHANGED <<ap, active>>
  \/ step = "remove" /\ UNCHANGED <<ap, managed, active>>

\* Mutant: the interface is returned before hostapd is told to end.
ReturnFirst(step) ==
  \/ step = "kill" /\ managed' = TRUE /\ UNCHANGED <<ap, active>>
  \/ step = "return" /\ ap' = FALSE /\ UNCHANGED <<managed, active>>
  \/ step = "remove" /\ active' = FALSE /\ UNCHANGED <<ap, managed>>

StopServices(step) ==
  \/ step = "kill" /\ ap' = FALSE /\ UNCHANGED <<managed, active>>
  \/ step = "return" /\ managed' = TRUE /\ UNCHANGED <<ap, active>>
  \/ step = "remove" /\ active' = FALSE /\ UNCHANGED <<ap, managed>>

MainStops ==
  /\ main \in Stopping
  /\ StopServices(main)
  /\ main' = After(main)
  /\ UNCHANGED <<profiles, air, wifi, service>>

StopperStops ==
  /\ stopper \in Stopping
  /\ StopServices(stopper)
  /\ stopper' = After(stopper)
  /\ unit' = IF stopper' = "off" THEN "term" ELSE unit
  /\ UNCHANGED <<profiles, air, wifi, main, again>>

-----------------------------------------------------------------------------
(* The service, as systemd runs it: ExecStop comes before the signal, and  *)
(* also after an exit of the main process.                                 *)

StartUnit ==
  /\ unit = "start"
  /\ unit' = "running" /\ main' = "check"
  /\ UNCHANGED <<profiles, radio, ap, active, stopper, again>>

StopUnit ==
  /\ unit \in {"running", "stopping"}
  /\ unit' = "stopping"
  /\ stopper' = IF unit = "running" THEN "kill" ELSE stopper

MainExits ==
  /\ unit = "running" /\ main = "off"
  /\ StopUnit
  /\ UNCHANGED <<profiles, radio, hotspot, again>>

\* systemctl restart
RestartUnit ==
  /\ StopUnit
  /\ again' = TRUE
  /\ UNCHANGED <<profiles, radio, hotspot>>

\* The signal ends the script through its EXIT trap, and a clean-up that the
\* trap has begun at once.
Terminate ==
  /\ unit = "term"
  /\ \/ main = "portal" /\ main' = "kill"
     \/ main \in Stopping /\ main' = "off"
  /\ UNCHANGED <<profiles, radio, ap, active, service>>

UnitEnds ==
  /\ unit = "term" /\ main = "off"
  /\ unit' = IF again THEN "start" ELSE "dead"
  /\ again' = FALSE
  /\ UNCHANGED <<profiles, radio, hotspot, stopper>>
=============================================================================
